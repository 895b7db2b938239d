--------------------------- MODULE ClientOwnership ---------------------------
(***************************************************************************)
(* Which objects a client simulates: ClientOwnership::update, run once a   *)
(* frame by the main thread after the physics step of that frame, while    *)
(* the UDP thread applies the states other parties send.                   *)
(*                                                                         *)
(* A client's body of an object is kinematic, and follows the states it    *)
(* receives (its network target), or dynamic, and is simulated here.       *)
(* Which bodies touch the player's body, directly or through others, is    *)
(* the physics engine's choice, and so is which are too far away; a        *)
(* dynamic body at rest is put to sleep by the engine after two seconds.   *)
(*                                                                         *)
(* A frame goes through the objects the search reached, in any order, and, *)
(* when states are due, through the owned ones: one step per object, since *)
(* the UDP thread holds no lock the main thread waits for in between.      *)
(***************************************************************************)
EXTENDS Naturals, Sequences, FiniteSets, SequencesExt

CONSTANTS
    Object,   \* unanchored parts with a network id
    Cap,      \* kMaxLocallyOwnedObjects
    NoObject  \* the UDP thread is between two states

ASSUME ClientOwnershipAssumption ==
    /\ Cap \in Nat \ {0}
    /\ NoObject \notin Object

VARIABLES
    bodies,     \* objects that still have a part and a body
    rig,        \* the local player has a body: not dead, rig loaded
    contact,    \* objects the search from the player's body reaches
    far,        \* objects beyond kReleaseDistanceSq
    order,      \* m_ownershipOrder: owned objects, least recently touched first
    reported,   \* m_reportedAsleepIds
    dynamic,    \* objects whose body is not kinematic
    asleep,     \* dynamic bodies the engine put to sleep
    target,     \* objects with an entry in Physics::m_networkTargets
    main,       \* what the main thread does: elsewhere, claims or sends
    todo,       \* touched objects not yet gone through in this frame
    pending,    \* activeOwnerships: owned objects not yet gone through
    udp,        \* the object the UDP thread found kinematic
    said,       \* history: what was last sent of an object since it woke up
    unseen      \* history: objects that fell asleep while the player was dead

worldVars == <<bodies, rig, contact, far>>
frameVars == <<main, todo, pending>>
bookVars  == <<order, reported, dynamic, asleep, target, said, unseen>>
vars == <<worldVars, frameVars, bookVars, udp>>

-----------------------------------------------------------------------------
(* update() changes the books of ownership and the bodies: a record of both. *)

Books == [order |-> order, reported |-> reported, dynamic |-> dynamic,
          asleep |-> asleep, target |-> target, said |-> said]

IsActive(w, o) == o \in w.dynamic \ w.asleep
Owned(w)       == ToSet(w.order)

\* Physics::setBodyNetworkMode(body, true): the body loses its target and wakes.
TakeOver(w, o) ==
    IF o \in w.dynamic THEN w
    ELSE [w EXCEPT !.dynamic = @ \cup {o}, !.target = @ \ {o},
                   !.said = [@ EXCEPT ![o] = "nothing"]]
\* ... (body, false): it follows its own last state first.
HandBack(w, o) ==
    IF o \notin w.dynamic THEN w
    ELSE [w EXCEPT !.dynamic = @ \ {o}, !.asleep = @ \ {o}, !.target = @ \cup {o}]

\* Defect: the entry of an object handed back stays in the other book.
ForgetInOrder(w, o) == [w EXCEPT !.order = RemoveFirst(@, o)]
Forget(w, o) == [w EXCEPT !.order = RemoveFirst(@, o), !.reported = @ \ {o}]

\* Defect: the least recently touched object goes, asleep or not.
EvictOldest(w) ==
    IF Len(w.order) < Cap THEN w ELSE HandBack(Forget(w, Head(w.order)), Head(w.order))

\* At the cap, the first owned object that is not active makes room.
EvictSleeper(w) ==
    LET i == SelectInSeq(w.order, LAMBDA o : o \in bodies /\ ~IsActive(w, o))
    IN  IF Len(w.order) < Cap \/ i = 0 THEN w
        ELSE HandBack(Forget(w, w.order[i]), w.order[i])

\* One object the search reached: claimed, or moved to the back of the order.
Touch(w, o) ==
    IF o \notin bodies THEN Forget(w, o)
    ELSE IF o \in Owned(w) THEN [w EXCEPT !.order = Append(RemoveFirst(@, o), o)]
    ELSE LET v == TakeOver(EvictSleeper(w), o)
         IN  [v EXCEPT !.order = Append(@, o)]

\* Defect: a body at rest is let go only when it is far away.
ShouldReleaseFar(w, o) == o \in far /\ ~IsActive(w, o)
ShouldRelease(w, o) == o \in far \/ (o \notin contact /\ ~IsActive(w, o))

Say(w, o) ==
    [w EXCEPT !.said = [@ EXCEPT ![o] = IF IsActive(w, o) THEN "moving" ELSE "resting"]]

\* Defect: an object is released without a last state.
ReleaseSilently(w, o) ==
    IF o \notin bodies THEN Forget(w, o)
    ELSE IF ShouldRelease(w, o) THEN HandBack(Forget(w, o), o)
    ELSE IF IsActive(w, o) THEN Say([w EXCEPT !.reported = @ \ {o}], o)
    ELSE IF o \in w.reported THEN w
    ELSE Say([w EXCEPT !.reported = @ \cup {o}], o)

\* One owned object when states are sent: released with a last state, sent
\* while it moves, or sent once when it sleeps.
Report(w, o) ==
    IF o \notin bodies THEN Forget(w, o)
    ELSE IF ShouldRelease(w, o) THEN HandBack(Forget(Say(w, o), o), o)
    ELSE IF IsActive(w, o) THEN Say([w EXCEPT !.reported = @ \ {o}], o)
    ELSE IF o \in w.reported THEN w
    ELSE Say([w EXCEPT !.reported = @ \cup {o}], o)

Becomes(w) ==
    /\ order' = w.order /\ reported' = w.reported
    /\ dynamic' = w.dynamic /\ asleep' = w.asleep
    /\ target' = w.target /\ said' = w.said
    /\ unseen' = unseen \cap w.asleep

\* A dead player updates nothing.
BeginFrame ==
    /\ main = "elsewhere" /\ rig
    /\ main' = "claims" /\ todo' = contact
    /\ UNCHANGED <<worldVars, bookVars, pending, udp>>

ClaimOne ==
    /\ main = "claims"
    /\ \E o \in todo : todo' = todo \ {o} /\ Becomes(Touch(Books, o))
    /\ UNCHANGED <<worldVars, main, pending, udp>>

\* States are sent twenty times a second, so not in every frame.
EndFrame ==
    /\ main = "claims" /\ todo = {}
    /\ main' = "elsewhere"
    /\ UNCHANGED <<worldVars, bookVars, todo, pending, udp>>

StatesAreDue ==
    /\ main = "claims" /\ todo = {}
    /\ IF order = <<>> THEN main' = "elsewhere" ELSE main' = "sends"
    /\ pending' = order
    /\ UNCHANGED <<worldVars, bookVars, todo, udp>>

SendOne ==
    /\ main = "sends"
    /\ Becomes(Report(Books, Head(pending)))
    /\ pending' = Tail(pending)
    /\ main' = IF Tail(pending) = <<>> THEN "elsewhere" ELSE "sends"
    /\ UNCHANGED <<worldVars, todo, udp>>

-----------------------------------------------------------------------------
(* Physics::update on the main thread, before ClientOwnership::update, and   *)
(* what else may happen to the player and the bodies.                        *)

\* A dynamic body that still has a target is activated in every step.  From
\* waking up to sleeping takes two seconds, many frames in which a living
\* player sends.
FallAsleep(o) ==
    /\ main = "elsewhere"
    /\ o \in dynamic \ (asleep \cup target)
    /\ said[o] = "moving" \/ ~rig
    /\ asleep' = asleep \cup {o}
    /\ unseen' = IF said[o] = "moving" THEN unseen ELSE unseen \cup {o}
    /\ UNCHANGED <<worldVars, frameVars, order, reported, dynamic, target, udp, said>>

WakeUp(o) ==
    /\ main = "elsewhere" /\ o \in asleep
    /\ asleep' = asleep \ {o}
    /\ said' = [said EXCEPT ![o] = "nothing"]
    /\ unseen' = unseen \ {o}
    /\ UNCHANGED <<worldVars, frameVars, order, reported, dynamic, target, udp>>

\* The instance is destroyed, its body with it: it fell out of the world.
Vanish(o) ==
    /\ main = "elsewhere" /\ o \in bodies
    /\ bodies' = bodies \ {o}
    /\ dynamic' = dynamic \ {o} /\ asleep' = asleep \ {o} /\ target' = target \ {o}
    /\ contact' = contact \ {o} /\ far' = far \ {o}
    /\ unseen' = unseen \ {o} /\ said' = [said EXCEPT ![o] = "nothing"]
    /\ UNCHANGED <<rig, frameVars, order, reported, udp>>

\* The player and the objects move.
Move(o) ==
    /\ main = "elsewhere" /\ o \in bodies
    /\ \/ contact' \in {contact \cup {o}, contact \ {o}} /\ UNCHANGED far
       \/ far' \in {far \cup {o}, far \ {o}} /\ UNCHANGED contact
    /\ UNCHANGED <<bodies, rig, frameVars, bookVars, udp>>

DieOrRespawn ==
    /\ main = "elsewhere"
    /\ rig' = ~rig
    /\ UNCHANGED <<bodies, contact, far, frameVars, bookVars, udp>>

-----------------------------------------------------------------------------
(* The UDP thread: ClientReplicator's physics callback.                      *)

\* It applies a state only to a body it finds kinematic ...
ReceiveState(o) ==
    /\ udp = NoObject
    /\ o \in bodies \ dynamic
    /\ udp' = o
    /\ UNCHANGED <<worldVars, frameVars, bookVars>>

\* ... but the main thread may have changed that by now.  (A target of a body
\* that is gone is never read.)
ApplyState ==
    /\ udp # NoObject
    /\ target' = target \cup ({udp} \cap bodies)
    /\ udp' = NoObject
    /\ UNCHANGED <<worldVars, frameVars, order, reported, dynamic, asleep, said, unseen>>

-----------------------------------------------------------------------------

Init ==
    /\ bodies = Object /\ rig = TRUE
    /\ contact = {} /\ far = {}
    /\ order = <<>> /\ reported = {}
    /\ dynamic = {} /\ asleep = {} /\ target = Object
    /\ main = "elsewhere" /\ todo = {} /\ pending = <<>>
    /\ udp = NoObject
    /\ said = [o \in Object |-> "nothing"]
    /\ unseen = {}

Frame == BeginFrame \/ ClaimOne \/ EndFrame \/ StatesAreDue \/ SendOne
World == \/ DieOrRespawn
         \/ \E o \in Object : FallAsleep(o) \/ WakeUp(o) \/ Vanish(o) \/ Move(o)
UdpThread == ApplyState \/ \E o \in Object : ReceiveState(o)

Next == Frame \/ World \/ UdpThread

Spec == Init /\ [][Next]_vars

\* Frames follow each other and states are sent, the player respawns, a body
\* nobody wakes comes to rest (the engine adds up its time at rest over the
\* frames: SF), and a state in hand is applied.
Fairness ==
    /\ SF_vars(BeginFrame) /\ WF_vars(ClaimOne)
    /\ SF_vars(StatesAreDue) /\ WF_vars(SendOne)
    /\ WF_vars(~rig /\ DieOrRespawn)
    /\ WF_vars(ApplyState)
    /\ \A o \in Object : SF_vars(FallAsleep(o))

-----------------------------------------------------------------------------
(* Properties.                                                              *)

(* Every variable has its type; only dynamic bodies sleep, and only bodies
   that exist are dynamic, are touched or have a target. *)
TypeOK ==
    /\ bodies \subseteq Object /\ rig \in BOOLEAN
    /\ contact \subseteq bodies /\ far \subseteq bodies
    /\ order \in Seq(Object) /\ reported \subseteq Object
    /\ dynamic \subseteq bodies /\ asleep \subseteq dynamic /\ target \subseteq bodies
    /\ main \in {"elsewhere", "claims", "sends"}
    /\ todo \subseteq contact /\ pending \in Seq(Object)
    /\ udp \in Object \cup {NoObject}
    /\ said \in [Object -> {"nothing", "moving", "resting"}]
    /\ unseen \subseteq asleep

(* The books agree with each other and with the bodies: an object is entered
   once, reported asleep only while owned, and owned exactly while its body is
   dynamic, whatever vanished, was evicted or was released in between. *)
BooksAgree ==
    /\ \A i, j \in 1..Len(order) : i # j => order[i] # order[j]
    /\ reported \subseteq ToSet(order)
    /\ \A o \in bodies : o \in ToSet(order) <=> o \in dynamic

(* An owned object about which the client is silent rests where its last sent
   state says, unless it came to rest while the player was dead. *)
SilentOnlyAtRest ==
    \A o \in reported \cap asleep : said[o] = "resting" \/ o \in unseen

(* The books of ownership tell the truth, about the bodies and about what the
   other parties were told. *)
BooksAreRight == TypeOK /\ BooksAgree /\ SilentOnlyAtRest

(* An object that moves and is near is never given up: not for the cap, not
   because the player no longer touches it. *)
MovingObjectsKept ==
    [][\A o \in ToSet(order) \cap (dynamic \ asleep) :
          o \in far \/ o \notin bodies' \/ o \in ToSet(order')]_vars

(* The cap is exceeded only when everything owned moves. *)
CapYieldsOnlyToMoving ==
    [][Len(order') > Cap /\ Len(order') > Len(order)
          => ToSet(order') \cap asleep' = {}]_vars

(* The cap never costs an object that moves its owner. *)
CapSparesTheMoving == MovingObjectsKept /\ CapYieldsOnlyToMoving

(* The last state sent of an object is its state when it is handed back,
   unless it is evicted to make room: it gets no last state then. *)
LastWordIsCurrent ==
    [][\A o \in ToSet(order) \ ToSet(order') :
          \/ o \notin bodies \/ main = "claims"
          \/ said'[o] = IF o \in asleep THEN "resting" ELSE "moving"]_vars

(* An object the player no longer touches is released in the end, once nothing
   wakes it any more; except when a state received at the moment of its claim
   was applied after it: that target keeps the body awake. *)
LeftAloneReleased ==
    \A o \in Object :
        <>[](o \notin contact) /\ <>[][~WakeUp(o)]_vars
            => \/ <>[](o \notin ToSet(order))
               \/ <>[](o \in dynamic \cap target)

=============================================================================
