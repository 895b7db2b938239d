---- MODULE Humanoids ----
(***************************************************************************)
(* HumanoidManager: the rigs that walk.  A rig is a model with a root part *)
(* and limbs (one limb stands for the six here).  While it is alive the    *)
(* root part alone has a rigid body; when its health reaches zero the root *)
(* body is replaced by one body per limb, and after the respawn delay the  *)
(* other way round.  Rigs come from players (createHumanoid) or from a map *)
(* or the explorer, in which case the manager adopts them once all their   *)
(* parts are there.                                                        *)
(*                                                                         *)
(* The explorer edits the tree under the manager: it adds, renames, drags  *)
(* and deletes parts, and physics makes and destroys bodies in its own     *)
(* callbacks.  A rig looks its parts up by name; its state keeps the ones  *)
(* it found when it was made.                                              *)
(*                                                                         *)
(* Every operation holds m_mutex to its end, so each is one action.        *)
(* Physics::step destroys a rig that falls; where a rig stands is not      *)
(* modelled otherwise.  Two edits are left out: a second child of a name   *)
(* the rig has, and a part that one tracked rig holds put into another.    *)
(***************************************************************************)
EXTENDS Naturals, FiniteSets

CONSTANTS
    Rig,           \* rigs that may be made
    Part,          \* parts that may be made
    PlayerId,      \* network ids the server gives to players
    AdoptedId,     \* network ids of adopted rigs, in order from kAdoptedIdBase
    RespawnDelay,  \* kRespawnDelay, in ticks
    RetryInterval, \* kSpawnRetryInterval, in ticks
    Ticks          \* lengths a frame may have, in ticks

NoRig == "no rig"

\* Where a part is, if not in a rig.
Workspace == "workspace"
Unmade == "unmade"
Gone == "gone"

Names == {"RootPart", "Limb", "other"}

ASSUME RigsAssumption == {NoRig, Workspace, Unmade, Gone} \cap Rig = {}
ASSUME IdsAssumption ==
    AdoptedId \subseteq Nat /\ PlayerId \subseteq Nat /\ PlayerId \cap AdoptedId = {}
ASSUME TimesAssumption ==
    RespawnDelay \in Nat /\ RetryInterval \in Nat /\ Ticks \subseteq Nat \ {0}

VARIABLES
    placed,   \* rigs in the workspace
    used,     \* rigs made so far: a destroyed rig does not come back
    at,       \* part -> the rig it is in, Workspace, Unmade or Gone
    name,     \* part -> its name
    body,     \* parts that have a rigid body
    health,   \* rig -> 0 dead, 1 not
    states,   \* m_states: id -> tracked rig, or NoRig
    rootPart, \* State::rootPart, as a set: the root found when the state was made
    limbs,    \* State::limbs
    waiting,  \* m_pendingRigs
    local,    \* State::isLocal
    dead,     \* State::dead
    timer,    \* State::respawnTimer
    retry,    \* State::awaitingSpawn with its timer: <<>> or <<ticks left>>
    spawns,   \* the workspace has a spawn location
    deadFor,  \* history: ticks since the death, up to RespawnDelay
    strayed,  \* history: parts that have been in the workspace, or were moved or renamed
              \* while they had a body or a rig's state held them
    stripped  \* history: parts in the workspace whose body a rig took

partVars == <<at, name, body, strayed, stripped>>
stateVars == <<states, rootPart, limbs, waiting, local>>
lifeVars == <<dead, timer, retry, deadFor>>
vars == <<placed, used, health, spawns, partVars, stateVars, lifeVars>>

AtMost(n) == IF n > RespawnDelay THEN RespawnDelay ELSE n
Minus(a, b) == IF a > b THEN a - b ELSE 0
Tracked == {states[i] : i \in DOMAIN states} \ {NoRig}

\* getPart: the parts of the rig with that name, one at most.
Child(r, n) == {p \in Part : at[p] = r /\ name[p] = n}
Whole(r) == Child(r, "RootPart") # {} /\ Child(r, "Limb") # {}
Held(r) == rootPart[r] \cup limbs[r]
Of(f, rs) == UNION {f[r] : r \in rs}

Init ==
    /\ placed = {} /\ used = {}
    /\ at = [p \in Part |-> Unmade] /\ name = [p \in Part |-> "other"] /\ body = {}
    /\ health = [r \in Rig |-> 1]
    /\ states = [i \in PlayerId \cup AdoptedId |-> NoRig]
    /\ rootPart = [r \in Rig |-> {}] /\ limbs = [r \in Rig |-> {}]
    /\ waiting = {} /\ local = {} /\ dead = {}
    /\ timer = [r \in Rig |-> 0] /\ retry = [r \in Rig |-> <<>>]
    /\ spawns \in BOOLEAN
    /\ deadFor = [r \in Rig |-> 0] /\ strayed = {} /\ stripped = {}

\* The parts a rig leaves without a body where they can be seen.
Strip(ps) == stripped' = stripped \cup {p \in ps : at[p] = Workspace}

----------------------------------------------------------------------------
(* Adopting the rigs of a map *)

\* The parts of the rig after the edit that is reported.
ChildNow(r, n) == {p \in Part : at'[p] = r /\ name'[p] = n}

\* The parts a state is made with are the ones the rig has by name.
Capture(rs) ==
    /\ rootPart' = [r \in Rig |-> IF r \in rs THEN ChildNow(r, "RootPart") ELSE rootPart[r]]
    /\ limbs' = [r \in Rig |-> IF r \in rs THEN ChildNow(r, "Limb") ELSE limbs[r]]

\* allocateAdoptedId: the next ids of the adopted range no state has, one
\* per rig.
FreshIds(rs) ==
    LET free == {a \in AdoptedId : states[a] = NoRig} IN
    {f \in [rs -> free] : /\ \A r, q \in rs : f[r] = f[q] => r = q
                         /\ \A r \in rs, a \in free : a < f[r] => \E q \in rs : f[q] = a}

\* tryAdoptRig: the rigs are simulated here, under ids of the adopted range.
Adopt(rs) ==
    /\ \E f \in FreshIds(rs) :
          states' = [i \in DOMAIN states |-> IF \E r \in rs : f[r] = i
                                            THEN CHOOSE r \in rs : f[r] = i ELSE states[i]]
    /\ Capture(rs)
    /\ local' = local \cup rs

\* queueRig: adopted if it is whole, or pending; a tracked rig stays as it is.
\* The others of `made` have a body from physics.
Queue(rs, made) ==
    LET now == {r \in rs \ Tracked : ChildNow(r, "RootPart") # {} /\ ChildNow(r, "Limb") # {}} IN
    /\ Adopt(now)
    /\ body' = body \cup made \cup Of(rootPart', now)
    /\ waiting' = waiting \cup (rs \ (Tracked \cup now))

----------------------------------------------------------------------------
(* Making and removing humanoids *)

\* Rig::create: a rig with a root part p and a limb q.
Furnish(r, p, q) ==
    /\ at[p] = Unmade /\ at[q] = Unmade /\ p # q
    /\ at' = [at EXCEPT ![p] = r, ![q] = r]
    /\ name' = [name EXCEPT ![p] = "RootPart", ![q] = "Limb"]

\* The state goes into m_states before the rig enters the workspace, so that
\* the manager's own callback finds it tracked.
TrackThenEnter(id, r) == states' = [states EXCEPT ![id] = r]

\* createHumanoid: a known id returns its rig.  A local rig looks for a spawn
\* location, or waits for one.
CreateHumanoid(id, r, isLocal, p, q) ==
    /\ r \in Rig \ used /\ states[id] = NoRig
    /\ used' = used \cup {r} /\ placed' = placed \cup {r}
    /\ Furnish(r, p, q)
    /\ Capture({r})
    /\ body' = body \cup {p}
    /\ TrackThenEnter(id, r)
    /\ local' = IF isLocal THEN local \cup {r} ELSE local
    /\ retry' = [retry EXCEPT ![r] = IF isLocal /\ ~spawns THEN <<0>> ELSE <<>>]
    /\ UNCHANGED <<health, spawns, waiting, dead, timer, deadFor, strayed, stripped>>

\* forgetRig: the state leaves m_states, and the bodies of its parts go.
Forget(r) ==
    /\ states' = [i \in DOMAIN states |-> IF states[i] = r THEN NoRig ELSE states[i]]
    /\ rootPart' = [rootPart EXCEPT ![r] = {}] /\ limbs' = [limbs EXCEPT ![r] = {}]
    /\ local' = local \ {r} /\ dead' = dead \ {r} /\ waiting' = waiting \ {r}
    /\ timer' = [timer EXCEPT ![r] = 0] /\ retry' = [retry EXCEPT ![r] = <<>>]
    /\ deadFor' = [deadFor EXCEPT ![r] = 0]

\* The rig is destroyed by the explorer, by its fall, or by removeHumanoid:
\* the manager forgets it, and physics destroys the bodies of its children.
DestroyRig(r) ==
    /\ r \in placed
    /\ placed' = placed \ {r}
    /\ at' = [p \in Part |-> IF at[p] = r THEN Gone ELSE at[p]]
    /\ body' = {p \in body : at[p] # r /\ p \notin Held(r)}
    /\ Forget(r)
    /\ Strip(body \cap Held(r))
    /\ UNCHANGED <<used, name, health, spawns, strayed>>

RemoveHumanoid(id) == states[id] # NoRig /\ DestroyRig(states[id])

\* Physics::step destroys the rig whose root body fell.
FallOut(r) == (rootPart[r] \cup Child(r, "RootPart")) \cap body # {} /\ DestroyRig(r)

----------------------------------------------------------------------------
(* Editing the tree *)

\* A rig of a map, or one pasted, enters the workspace, with its parts or
\* before them.
EnterWorkspace(r, complete, p, q) ==
    /\ r \in Rig \ used
    /\ used' = used \cup {r} /\ placed' = placed \cup {r}
    /\ IF complete THEN Furnish(r, p, q) ELSE UNCHANGED <<at, name>>
    /\ Queue({r}, {})
    /\ UNCHANGED <<health, spawns, strayed, stripped, lifeVars>>

\* ensureBody: a part added outside a rig has a body; one in a rig keeps what
\* it has.
BodyForPart(p, place) == IF place = Workspace THEN {p} ELSE {}

Places == placed \cup {Workspace}
Vacant(place, n) == place \in Rig /\ n # "other" => Child(place, n) = {}
Touched(p) == p \in body \/ \E r \in Rig : p \in Held(r)

\* A part comes from the map, or from the explorer's New under another name.
AddPart(p, place, n) ==
    /\ at[p] = Unmade /\ place \in Places /\ Vacant(place, n)
    /\ at' = [at EXCEPT ![p] = place] /\ name' = [name EXCEPT ![p] = n]
    /\ Queue({place} \cap Rig, BodyForPart(p, place))
    /\ strayed' = strayed \cup BodyForPart(p, place)
    /\ UNCHANGED <<placed, used, health, spawns, stripped, lifeVars>>

\* The explorer drags a part elsewhere; the state that holds it keeps it.
DragPart(p, place) ==
    /\ at[p] \in Places /\ place \in Places \ {at[p]} /\ Vacant(place, name[p])
    /\ place \in Rig => \A r \in Rig \ {place} : p \notin Held(r)
    /\ at' = [at EXCEPT ![p] = place] /\ name' = name
    /\ Queue({place} \cap Rig, BodyForPart(p, place))
    /\ strayed' = strayed \cup (IF Touched(p) \/ place = Workspace THEN {p} ELSE {})
    /\ stripped' = stripped \ {p}
    /\ UNCHANGED <<placed, used, health, spawns, lifeVars>>

\* The property panel renames a part, which no callback reports to the manager.
RenamePart(p, n) ==
    /\ at[p] \in Places /\ n # name[p] /\ Vacant(at[p], n)
    /\ name' = [name EXCEPT ![p] = n]
    /\ strayed' = strayed \cup (IF Touched(p) THEN {p} ELSE {})
    /\ UNCHANGED <<placed, used, at, body, stripped, health, spawns, stateVars, lifeVars>>

\* The explorer deletes a part, or it falls: physics destroys its body, and
\* the state that holds it keeps it.
DeletePart(p) ==
    /\ at[p] \in Places
    /\ at' = [at EXCEPT ![p] = Gone]
    /\ body' = body \ {p}
    /\ UNCHANGED <<placed, used, name, strayed, stripped, health, spawns, stateVars, lifeVars>>

\* The property panel sets Health.
EditHealth(r) ==
    /\ r \in placed /\ health' = [health EXCEPT ![r] = 1 - @]
    /\ UNCHANGED <<placed, used, spawns, partVars, stateVars, lifeVars>>

\* Spawn locations are placed and deleted.
EditSpawns ==
    /\ spawns' = ~spawns
    /\ UNCHANGED <<placed, used, health, partVars, stateVars, lifeVars>>

----------------------------------------------------------------------------
(* HumanoidManager::update *)

Ready == {r \in waiting \ Tracked : Whole(r)}

DelayAfterDeath == RespawnDelay

\* Rig::getRigidBody: the body of the root the rig has now.
RootBody(r) == Child(r, "RootPart") \cap body # {}
Standing == {r \in Tracked : RootBody(r)} \cup Ready

\* respawnState: the limbs' bodies go, the root's is made anew, health is full.
Respawning(dt) == {r \in dead : timer[r] <= dt}
\* killState: the root's body goes, and every limb gets one.
Dying == {r \in (Standing \cap (local \cup Ready)) \ dead : health[r] = 0}
Walking == (Standing \cap (local \cup Ready)) \ (dead \cup Dying)

\* Defect: the timer runs only while the rig has its root body.
TimerNeedsBody(r, dt) == IF r \in Dying THEN DelayAfterDeath
                         ELSE IF RootBody(r) THEN Minus(timer[r], dt) ELSE timer[r]
TimerAfter(r, dt) == IF r \in Dying THEN DelayAfterDeath ELSE Minus(timer[r], dt)

\* killState makes a body for every limb of the state, be it deleted, and
\* respawnState destroys them.
\* Defect: the limbs' bodies stay after the respawn.
KeepRagdoll(up) == body \cup Of(limbs', Dying)
RagdollAfter(up) == (body \cup Of(limbs', Dying)) \ Of(limbs, up)

\* A root body is made for an adopted rig and for one that stands again: for
\* the root it has, if any.  The root of the state loses it at the death.
BodiesAfter(up) ==
    ((RagdollAfter(up) \cup Of(rootPart', Ready)) \ Of(rootPart', Dying))
        \cup UNION {Child(r, "RootPart") : r \in up}

\* A rig without a spawn location looks again every RetryInterval.
RetryAfter(r, dt) ==
    IF retry[r] = <<>> THEN <<>>
    ELSE IF retry[r][1] > dt THEN <<retry[r][1] - dt>>
    ELSE IF spawns THEN <<>> ELSE <<RetryInterval>>

\* retryPendingRigs comes first; then, for every state, the respawn timer, the
\* death of a local rig whose health is zero, or the search for a spawn
\* location.
Update(dt) ==
    LET up == Respawning(dt) IN
    /\ UNCHANGED <<placed, used, at, name, strayed, spawns>>
    /\ Adopt(Ready)
    /\ waiting' = waiting \ (Tracked \cup Ready)
    /\ dead' = (dead \ up) \cup Dying
    /\ timer' = [r \in Rig |-> TimerAfter(r, dt)]
    /\ deadFor' = [r \in Rig |-> IF r \in dead \ up THEN AtMost(deadFor[r] + dt) ELSE 0]
    /\ body' = BodiesAfter(up)
    /\ Strip(body \ body')
    /\ health' = [r \in Rig |-> IF r \in up THEN 1 ELSE health[r]]
    /\ retry' = [r \in Rig |-> IF r \in Walking THEN RetryAfter(r, dt) ELSE retry[r]]

----------------------------------------------------------------------------
Frame == \E dt \in Ticks : Update(dt)

\* The explorer, or a map, adds and edits one part.
EditPart(p) ==
    \/ \E place \in Places, n \in Names : AddPart(p, place, n)
    \/ \E place \in Places : DragPart(p, place)
    \/ \E n \in Names : RenamePart(p, n)
    \/ DeletePart(p)

Environment ==
    \/ \E id \in PlayerId, r \in Rig, isLocal \in BOOLEAN, p, q \in Part :
          CreateHumanoid(id, r, isLocal, p, q)
    \/ \E id \in PlayerId : RemoveHumanoid(id)
    \/ \E r \in Rig :
        \/ FallOut(r)
        \/ DestroyRig(r)
        \/ \E complete \in BOOLEAN, p, q \in Part : EnterWorkspace(r, complete, p, q)
        \/ EditHealth(r)
    \/ \E p \in Part : EditPart(p)
    \/ EditSpawns

Next == Frame \/ Environment

Spec == Init /\ [][Next]_vars

----------------------------------------------------------------------------
TypeOK ==
    /\ placed \subseteq used /\ used \subseteq Rig
    /\ at \in [Part -> placed \cup {Workspace, Unmade, Gone}] /\ name \in [Part -> Names]
    /\ body \subseteq Part /\ health \in [Rig -> {0, 1}]
    /\ states \in [PlayerId \cup AdoptedId -> Rig \cup {NoRig}]
    /\ rootPart \in [Rig -> SUBSET Part] /\ limbs \in [Rig -> SUBSET Part]
    /\ waiting \subseteq placed /\ local \subseteq Tracked /\ dead \subseteq local
    /\ timer \in [Rig -> 0 .. RespawnDelay]
    /\ \A r \in Rig : retry[r] = <<>> \/ retry[r][1] \in 0 .. RetryInterval
    /\ spawns \in BOOLEAN /\ deadFor \in [Rig -> 0 .. RespawnDelay]
    /\ strayed \subseteq Part /\ stripped \subseteq Part

(* A rig has one state: the callback that adopts rigs never takes one that *)
(* createHumanoid made, or one it adopted before.                          *)
TrackedOnce ==
    /\ \A i, j \in DOMAIN states : states[i] = states[j] /\ states[i] # NoRig => i = j
    /\ Tracked \subseteq placed

\* Parts of a state that are still where it found them.
AtHome(r, ps) == {p \in ps : at[p] = r} \ strayed

(* Alive, a tracked rig stands on its root body and none of its limbs has  *)
(* one; dead, on the bodies of its limbs alone; whatever was deleted from  *)
(* it, or moved.  A rig that is not tracked has no bodies.                 *)
BodiesMatchLife ==
    /\ \A r \in Tracked : /\ AtHome(r, rootPart[r]) \subseteq IF r \in dead THEN Part \ body ELSE body
                          /\ AtHome(r, limbs[r]) \subseteq IF r \in dead THEN body ELSE Part \ body
    /\ \A p \in body \ strayed : at[p] \in Rig => at[p] \in Tracked

(* Nothing is left to collide with once it is gone: a body is that of a    *)
(* part in the tree, or of a deleted limb of a rig that lies dead          *)
(* (humanoid_manager.cpp:436-440 does not look at the tree).               *)
NoStrayBodies ==
    \A p \in body : \/ at[p] \in Places
                    \/ at[p] = Gone /\ \E r \in dead : p \in limbs[r]

(* A part in the workspace collides: one dragged out of a rig has a body,  *)
(* unless its rig died, respawned or went, and took the body with it       *)
(* (humanoid_manager.cpp:158, 434, 464).                                   *)
LoosePartsCollide == \A p \in Part : at[p] = Workspace => p \in body \cup stripped

(* A rig is tracked once; alive its root has a body and its limbs none,     *)
(* dead the other way round, untracked none has; a deleted part leaves no   *)
(* body beyond the life of its rig; and a part dragged out of a rig         *)
(* collides until the rig takes its body (humanoid_manager.cpp).            *)
RigsAreWhole == TypeOK /\ TrackedOnce /\ BodiesMatchLife /\ NoStrayBodies /\ LoosePartsCollide

(* A rig that died waits the whole respawn delay before it stands again.   *)
RespawnTakesItsTime ==
    [][\A r \in dead \ dead' :
          r \in Tracked' => \E dt \in Ticks : deadFor[r] + dt >= RespawnDelay]_vars

(* A dead rig stands again, unless it is removed.                          *)
DeadRespawn == \A r \in Rig : (r \in dead) ~> (r \notin dead)

(* A whole rig does not stay pending.                                      *)
PendingAdopted ==
    \A r \in Rig : (r \in waiting /\ Whole(r)) ~> (r \notin waiting \/ ~Whole(r))

(* A living local rig that waits for a spawn location finds one once the   *)
(* workspace keeps one.                                                    *)
WaitersSpawn ==
    \A r \in Rig : <>[](spawns /\ r \in Walking) => <>[](retry[r] = <<>>)
====
