---- MODULE InputRouting ----
(***************************************************************************)
(* From the keyboard to a shortcut.  Window::update empties the system's   *)
(* queue once per turn into the key states and a list of events;           *)
(* Imgui::update hands the mouse button's state and the listed key events  *)
(* to ImGui, which takes as many of its backlog per frame as leave every   *)
(* change visible; DevTools::keyPressedEdge combines the edge it sees in   *)
(* the key states with ImGui's, and lets three frames pass between two     *)
(* firings.  A swapchain that is recreated updates the window on its own:  *)
(* the events of that update change the key states and reach ImGui never.  *)
(*                                                                         *)
(* One shortcut key, one modifier and one mouse button.  Whether a text    *)
(* field wants the keyboard is the interface's choice in each frame.       *)
(***************************************************************************)
EXTENDS Naturals, Sequences, FiniteSets

CONSTANTS
    Ctrl, Key, Button, \* the modifier, the shortcut's key, a mouse button
    Debounce,          \* frames between two firings (3)
    MaxPresses,        \* bound on the presses of each input
    MaxQueue,          \* bound on the events between two updates
    MaxRecreations     \* bound on the swapchains recreated

Motion == "motion"

ASSUME InputAssumption ==
    /\ Cardinality({Ctrl, Key, Button}) = 3
    /\ Motion \notin {Ctrl, Key, Button}
    /\ Debounce \in Nat \ {0} /\ MaxPresses \in [{Ctrl, Key, Button} -> Nat]
    /\ MaxQueue \in Nat \ {0} /\ MaxRecreations \in Nat

Keys == {Ctrl, Key}
Inputs == Keys \cup {Button}

VARIABLES
    held,    \* what the user holds
    presses, \* presses so far
    queue,   \* the system's event queue
    keys,    \* m_keys, m_mouseButtons
    backlog, \* ImGui's InputEventsQueue
    down,    \* what ImGui knows to be down
    edge,    \* ImGui::IsKeyPressed of the key, this frame
    wasDown, \* m_rawKeyWasDown of the key
    since,   \* frames since m_lastFiredFrame, at most Debounce
    pc,      \* the main thread
    recreations, \* swapchains recreated so far
    unfired, \* history: presses of the key that no firing answered
    due,     \* history: those of them made with the modifier held
    twice,   \* history: a firing without a press of its own
    lag,     \* history: updates a press of the key waits in the backlog, at most Debounce
    excuses, \* history: what may have cost a press since all was at rest
    unaware  \* history: keys whose last change ImGui was not told

user == <<held, presses>>
program == <<keys, backlog, down, edge, wasDown, since>>
history == <<unfired, due, twice, lag, excuses, unaware>>
thread == <<pc, recreations>>
inputVars == <<user, queue, program, thread, history>>

\* way is "down" or "up".
Event(i, way) == [input |-> i, way |-> way]

InputInit ==
    /\ held = {} /\ presses = [i \in Inputs |-> 0] /\ queue = <<>>
    /\ keys = {} /\ backlog = <<>> /\ down = {} /\ edge = FALSE
    /\ wasDown = FALSE /\ since = Debounce /\ pc = "update" /\ recreations = 0
    /\ unfired = 0 /\ due = 0 /\ twice = FALSE /\ lag = 0 /\ excuses = {} /\ unaware = {}

----------------------------------------------------------------------------
(* The user; a key held sends a press again and again.  What comes while a *)
(* frame is drawn is read no earlier than what comes right after it.       *)

Press(i) ==
    /\ pc # "draw" /\ i \notin held /\ presses[i] < MaxPresses[i] /\ Len(queue) < MaxQueue
    /\ held' = held \cup {i} /\ presses' = [presses EXCEPT ![i] = @ + 1]
    /\ queue' = Append(queue, Event(i, "down"))
    /\ IF i = Key
       THEN /\ unfired' = unfired + 1
            /\ due' = IF Ctrl \in held THEN due + 1 ELSE due
       ELSE UNCHANGED <<unfired, due>>
    /\ UNCHANGED <<program, thread, twice, lag, excuses, unaware>>

Release(i) ==
    /\ pc # "draw" /\ i \in held /\ Len(queue) < MaxQueue
    /\ held' = held \ {i} /\ queue' = Append(queue, Event(i, "up"))
    /\ UNCHANGED <<presses, program, thread, history>>

Repeat ==
    /\ pc # "draw" /\ Key \in held /\ queue = <<>>
    /\ queue' = <<Event(Key, "down")>>
    /\ UNCHANGED <<user, program, thread, history>>

----------------------------------------------------------------------------
(* Window and ImGui *)

\* Window::update: the states after the queued events.
Switched(s, e) ==
    IF e.input = Motion THEN s ELSE IF e.way = "down" THEN s \cup {e.input} ELSE s \ {e.input}
After(s, q) ==
    LET upTo[n \in 0..Len(q)] == IF n = 0 THEN s ELSE Switched(upTo[n - 1], q[n])
    IN  upTo[Len(q)]
KeysAfter == After(keys, queue)

\* What ImGui will believe of i once its backlog q is worked off.
Believed(q, i) ==
    LET told == {j \in DOMAIN q : q[j].input = i}
    IN  IF told = {} THEN i \in down ELSE q[CHOOSE j \in told : \A l \in told : l <= j].way = "down"

\* AddKeyEvent, AddMouseButtonEvent: an event that tells nothing new is dropped.
AddEvent(q, e) ==
    IF Believed(q, e.input) <=> e.way = "down" THEN q ELSE Append(q, e)

\* Imgui::update: the pointer and the button as they are now, then the keys as
\* they came.
KeyTold(q, e) == IF e.input \in Keys THEN AddEvent(q, e) ELSE q
KeysTold(q) ==
    LET upTo[n \in 0..Len(queue)] ==
            IF n = 0 THEN q ELSE KeyTold(upTo[n - 1], queue[n])
    IN  upTo[Len(queue)]
Told(moved) ==
    KeysTold(AddEvent(IF moved THEN Append(backlog, Event(Motion, "down")) ELSE backlog,
                      Event(Button, IF Button \in KeysAfter THEN "down" ELSE "up")))

\* UpdateInputEvents: event j of the backlog waits for the next frame when an
\* earlier one of this frame was of the same input, or of another kind.
Waits(q, j) ==
    \E l \in 1..(j - 1) :
        \/ q[l].input = q[j].input /\ q[j].input # Motion
        \/ q[l].input = Button /\ q[j].input \in Keys
        \/ q[l].input \in Inputs /\ q[j].input = Motion
Taken(q) == IF \E j \in DOMAIN q : Waits(q, j)
            THEN (CHOOSE j \in DOMAIN q : Waits(q, j) /\ \A l \in 1..(j - 1) : ~Waits(q, l)) - 1
            ELSE Len(q)

AtRest == /\ held = {} /\ queue = <<>> /\ backlog = <<>> /\ keys = {} /\ down = {}
          /\ ~wasDown /\ since = Debounce

\* One turn begins: window.update(), m_uiManager->update().
Update ==
    /\ pc = "update"
    /\ \E moved \in BOOLEAN :
         LET q == Told(moved)
             n == Taken(q)
             known == After(down, SubSeq(q, 1, n))
             rest == SubSeq(q, n + 1, Len(q))
         IN  /\ backlog' = rest
             /\ down' = known
             /\ edge' = (Key \in known /\ Key \notin down)
             /\ unaware' = {k \in unaware : ~(Believed(q, k) <=> k \in KeysAfter)}
             /\ lag' = IF \A j \in DOMAIN rest : rest[j] # Event(Key, "down") THEN 0
                       ELSE IF lag < Debounce THEN lag + 1 ELSE lag
    /\ keys' = KeysAfter /\ queue' = <<>>
    /\ since' = IF since < Debounce THEN since + 1 ELSE since
    /\ pc' = "draw"
    /\ IF AtRest THEN unfired' = 0 /\ due' = 0 /\ twice' = FALSE /\ excuses' = {}
       ELSE /\ excuses' = excuses \cup (IF lag' = Debounce THEN {"late"} ELSE {})
            /\ UNCHANGED <<unfired, due, twice>>
    /\ UNCHANGED <<user, recreations, wasDown>>

----------------------------------------------------------------------------
(* DevTools *)

RawEdge == Key \in keys /\ ~wasDown
SomeEdge == RawEdge \/ edge
\* Defect: nothing keeps the second edge of a press from firing.
NotDebounced == SomeEdge
PressedEdge == SomeEdge /\ since >= Debounce
Modified == Ctrl \in down \cup keys

TurnEnds == pc' = "update" /\ UNCHANGED recreations
Outdated == /\ recreations < MaxRecreations /\ recreations' = recreations + 1
            /\ pc' = "recreate"

\* handleShortcuts, in the frame's menu bar; the frame's end may find the
\* swapchain out of date.
Draw ==
    /\ pc = "draw"
    /\ \E typing \in BOOLEAN :
         LET fires == PressedEdge /\ ~typing /\ Modified
         IN  /\ unfired' = IF fires /\ unfired > 0 THEN unfired - 1 ELSE unfired
             /\ due' = IF fires /\ due > 0 THEN due - 1 ELSE due
             /\ twice' = (twice \/ (fires /\ unfired = 0))
             /\ excuses' = IF SomeEdge /\ (typing \/ since < Debounce \/ ~Modified)
                          THEN excuses \cup {"spent"} ELSE excuses
    /\ wasDown' = (Key \in keys)
    /\ since' = IF PressedEdge THEN 0 ELSE since
    /\ TurnEnds \/ Outdated
    /\ UNCHANGED <<user, queue, keys, backlog, down, edge, lag, unaware>>

\* beginFrame finds the swapchain out of date: the turn is dropped.
Drop ==
    /\ pc = "draw" /\ Outdated
    /\ excuses' = excuses \cup (IF edge THEN {"spent"} ELSE {})
    /\ UNCHANGED <<user, queue, program, unfired, due, twice, lag, unaware>>

\* recreateSwapchain: while the size changes, wait for an event and update.
Swallow ==
    /\ pc = "recreate" /\ queue # <<>>
    /\ keys' = KeysAfter /\ queue' = <<>>
    /\ LET missed == {queue[j].input : j \in DOMAIN queue} \cap Keys
       IN  /\ unaware' = unaware \cup missed
           /\ excuses' = excuses \cup (IF missed # {} THEN {"swallowed"} ELSE {})
    /\ UNCHANGED <<user, backlog, down, edge, wasDown, since, thread, unfired, due, twice, lag>>

Recreated == /\ pc = "recreate" /\ pc' = "update"
             /\ UNCHANGED <<user, queue, program, recreations, history>>

InputNext ==
        \/ \E i \in Inputs : Press(i) \/ Release(i)
        \/ Repeat \/ Update \/ Draw \/ Drop \/ Swallow \/ Recreated

InputSpec == InputInit /\ [][InputNext]_inputVars

----------------------------------------------------------------------------
(* Properties *)

\* Every variable keeps its type.
InputTypeOK ==
    /\ held \subseteq Inputs /\ presses \in [Inputs -> Nat]
    /\ \A i \in Inputs : presses[i] <= MaxPresses[i]
    /\ queue \in Seq([input : Inputs, way : {"down", "up"}]) /\ Len(queue) <= MaxQueue
    /\ keys \subseteq Inputs /\ down \subseteq Inputs /\ edge \in BOOLEAN
    /\ backlog \in Seq([input : Inputs \cup {Motion}, way : {"down", "up"}])
    /\ wasDown \in BOOLEAN /\ since \in 0..Debounce
    /\ pc \in {"update", "draw", "recreate"} /\ recreations \in 0..MaxRecreations
    /\ unfired \in 0..MaxPresses[Key] /\ due \in 0..unfired /\ lag \in 0..Debounce
    /\ twice \in BOOLEAN /\ unaware \subseteq Keys
    /\ excuses \subseteq {"late", "spent", "swallowed"}

\* Two sources of edges, one command: a press of the key fires once, whatever
\* the delay between the two, unless a recreated swapchain hid it from ImGui or
\* it waited in ImGui's backlog for as long as the debounce lasts.
FiresOnce == twice => excuses \cap {"swallowed", "late"} # {}

\* A press made with the modifier held is answered by the time ImGui's backlog
\* is worked off, unless a text field, the debounce, a dropped turn or a
\* recreated swapchain took it, or the modifier was let go before a frame saw it.
DueAnswered ==
    pc = "update" /\ queue = <<>> /\ backlog = <<>> /\ due > 0 => excuses # {}

\* The window and ImGui agree about every key, but for the events that a
\* recreated swapchain kept from ImGui.
KeyboardsAgree ==
    \A k \in Keys : ~(k \in keys <=> Believed(backlog, k)) => k \in unaware

\* ImGui never misses a change of the button that lasts to an update, and a
\* press it sees stays for a whole frame.
ButtonFollows == pc = "draw" => (Button \in keys <=> Believed(backlog, Button))

\* A press of a shortcut fires once, unless something took it, and the window and
\* ImGui agree about what is down but for what a recreated swapchain swallowed
\* (window.cpp, imgui.cpp, devtools.cpp).
PressAnswered ==
    InputTypeOK /\ DueAnswered /\ FiresOnce /\ KeyboardsAgree /\ ButtonFollows
====
