# A verification project for Nedizblox

Nedizblox is a multiplayer block world in C++: a game server that simulates a
map with Bullet, and clients that join it over TCP and UDP, render the map
with Vulkan and simulate the objects their player touches. This directory holds
TLA+ modules that model its concurrent core, TLC configurations that check them
on small instances, and TLAPS proofs of what matters most for every instance.
`PROJECT.json` lists the components, the runs, the hazards and, for every
definition that models code, the lines it stands for. Paths below are relative to
`src/src/`.

    tlc -workers 2 -config MCSession.cfg MCSession.tla     # a run
    tlapm SessionProofs.tla                                # the proofs of a module

## 1. The system

### Components of the session

| Component | State | Operations | Talks to |
|---|---|---|---|
| Server, reliable half (`network/server.cpp`) | `m_tcpClients`, `m_nextPlayerId`, `m_running`, the map buffer, the callbacks | accept thread: handshake, snapshot, registration, `PlayerJoined`, callback; one detached thread per client: read, kick, unregister, `PlayerLeft`, callback; `kickClient`, `kickAll`, `stop` | clients over TCP; GameServer through callbacks run on its own threads |
| Server, physics half (same file) | `m_clients`, `m_udpPlayerIds`, `m_objectOwners` with time stamps | `update` (hello, ping, states, relay), `isOwned`, `broadcastPhysicsState` | clients over UDP; GameServer's physics callback and physics thread |
| Client (`network/client.cpp`) | `m_running`, `m_udpConfirmed`, the cached handshake | constructor (blocking handshake), `start`, `stop`, TCP, UDP and statistics threads | server; the replicator through callbacks |
| GameServer (`game/game_server.cpp`) | event queue, `m_networkParts`, physics thread | `createServer`, `buildMap`, `processPlayerEvents`, `run`, `physicsLoop`, `broadcastUnownedObjects` | Server, Physics, HumanoidManager, ServerReplicator |
| ClientReplicator (`game/multiplayer/`) | `m_networkRigs`, `m_networkInstances` | map, joined, left and physics callbacks (on the client's threads) | Physics, HumanoidManager, instance tree |
| ClientOwnership (same directory) | `m_ownershipOrder`, `m_reportedAsleepIds`, send accumulator | `update`, once a frame | Physics; its states go to `Client::sendPhysicsState` |
| ServerReplicator (same directory) | dirty flag, `m_nextNetworkId`, map buffer | `rebuildMap` | instance tree, `Server::setMapData` |
| Physics (`game/physics/`) | bodies, masses, network targets, three mutexes | create, rebind, destroy bodies; `setBodyNetworkMode`; `applyNetworkState`; `step`; interpolation | Bullet; parts of the instance tree |
| HumanoidManager (`game/managers/`) | humanoids, rigs, death and respawn timers | create, remove, damage, kill, respawn, adopt a rig from the tree | Physics, instance tree |
| Instance tree (`game/types/`) | parents, children, properties, change callbacks | reparent, destroy, notify | everybody |

### Components around it

| Component | State | Operations | Talks to |
|---|---|---|---|
| GameClient (`game/game_client.cpp`) | the services as members, their order of destruction | construction, `run`, destruction | everything below |
| Map files (`game/utils/nbx_file.cpp`) | ids of instances | save, open, copy, paste | instance tree, DevTools |
| DevTools (`game/ui/devtools.cpp`) | selection, clipboard, drafts, gizmo, play mode | explorer, properties, shortcuts, Play and Stop | tree, Physics, HumanoidManager, ImGui |
| RenderManager (`game/managers/render_manager.cpp`) | dirty flags, buckets, dynamic targets | rebuild, update, cull | tree callbacks, models |
| Renderer and swapchain (`graphics/vk/`) | frame index, fences, images in flight | begin, end, recreate | window, GPU |
| Device (`graphics/vk/device.cpp`) | device, queues, pipeline cache file | choice, load and save of the cache, image commands | driver, disk |
| Pipelines and passes (`graphics/managers/pipeline_manager.cpp`) | nine pipelines, shadow map | one call for each pass | buckets, command buffer |
| Models, textures, fonts (`graphics/`) | names, indices of bindless arrays, atlas | load, draw | files, Device |
| Interface (`graphics/ui/imgui.cpp`) | vertex and index buffers | events in, draw lists out | window, ImGui |
| Window (`window/window_desktop.cpp`) | key states, size, flags | `update`, `waitEvents` | SDL |
| Music (`audio/music.cpp`) | decoder, three buffers, a source | play, stop, `update` | OpenAL |

Logging, hashing, the command line and the script engine complete the program.
`PROJECT.json` lists each component with its sources and the reason for its status.

### What is hard in this code

* **Threads without a common lock.** A server runs an accept thread, a thread for
  every client, a physics thread and the main thread; a client runs a TCP, a UDP
  and a statistics thread beside its frame loop. Checks and the actions they
  justify are often in different critical sections (nickname check and
  registration, `isOwned` and `setBodyNetworkMode`, `CF_KINEMATIC_OBJECT` and
  `applyNetworkState`, the pointer to a body and its use).
* **Callbacks under locks.** Destroying an instance runs listeners of Physics, the
  HumanoidManager and the replicator, each with mutexes of its own, on whatever
  thread destroyed it; reliable broadcasts write to sockets under a mutex.
* **Snapshots against increments.** A newcomer gets the list of players once and
  changes afterwards; the map is rebuilt from a copy of the tree while parts fall out of it;
  the renderer's buckets are rebuilt on a flag another thread sets.
* **Loss and reordering.** Physics uses UDP without sequence numbers; ownership
  ends by a timeout; a sleeping object is reported once.
* **Failure of one step of several.** A handshake can fail at its read, at four
  checks and at three writes; boost's
  `remote_endpoint()` throws on a connection the peer has reset; a cache file is
  written, closed and moved by processes that may be killed or run in pairs.
* **Start and stop.** The accept thread runs before the callbacks and the map are
  set; `stop` joins it while it may be reading from a silent client; a client is
  stopped up to three times, from three destructors.
* **Frames in flight.** The frame being recorded shares buffers with those the GPU
  still reads; a resize replaces the images under them; a dropped turn leaves work half done.
* **Two views of one thing.** ImGui's keyboard and the window's, a part and its body
  while the gizmo drags it, the tree and the buckets drawn from it, the books of
  ownership and the modes of the bodies.
* **Limits.** 32 owned objects, three contacts deep, network ids from 1000 beside
  player ids from 1, 32-bit ids completed with `++maxId`, atlas rows, instance buffers,
  slots of frames.

`PROJECT.json` names each hazard at its line, with the properties that would catch it.

## 2. Modules

| Module | What it is |
|---|---|
| *Network* | |
| `Session`, `Membership` | accept thread, client threads, server main thread, client programs; the abstract specification they implement |
| `TcpFrames` | the two writes of a frame, the mutex of the broadcasts, full buffers, the reader |
| `ClientLifecycle` | a client's threads, errors, `stop` and the destructors around it |
| `PhysicsSync` | UDP channel, owner records, the server's two threads that set body modes, clients that claim and release |
| `ClientOwnership`, `ContactSearch` | the books a client keeps of what it simulates, frame by frame, against its UDP thread; the search that fills them |
| *World* | |
| `ServerWorld` | the server's bodies, tables and map buffer between physics and main thread |
| `Humanoids` | the life of a rig and its bodies |
| `LockOrder` | which mutexes every thread takes in what order |
| `Instances`, `InstanceTree` | the tree as data; the tree as it is edited, with Physics and the renderer listening |
| `MapFile` | buffers of records: save, open, copy, paste |
| *Client* | |
| `RenderBuckets`, `FrameRecording`, `FramePipeline` | tree to buckets, buckets to a command buffer, command buffers to the GPU |
| `DeviceSetup`, `TextureStore`, `MeshFile`, `GlyphAtlas` | device and cache file; images and their names; meshes; fonts |
| `StudioPlay` | the gizmo, Play and Stop |
| `InputRouting` | events to shortcuts |
| *Proofs* | `SessionProofs`, `PhysicsSyncProofs`, `ClientOwnershipProofs` (with `ContactSearch`), `ClientProofs` (`ClientLifecycle`, `StudioPlay`, `InputRouting`), `ServerProofs` (`ServerWorld`, `TcpFrames`, `LockOrder`), `HumanoidsProofs`, `InstanceTreeProofs` (with `RenderBuckets`), `GraphicsProofs` (`GlyphAtlas`, `FramePipeline`, `DeviceSetup`, `TextureStore`, `FrameRecording`) |
| *Instances for TLC* | `MC...`, see section 3 |

Each component module holds, beside an operation of the code, variants of it
marked *Defect*: the same operation with a mistake one could make in it. `Next`
does not use them; substituting one for the original must break the property
named for it under "mutants" in `PROJECT.json`.

Components that are independent share a run: the MC module extends one or two of
them and instantiates the others with renamed variables. A constant of the
behaviour (`subject` or `story`) says which component moves; the others keep their
initial state. Where a component is instantiated under a name (`Books!BooksAgree`), the
property of the run is an operator of the MC module; where it is extended, the property is the
component's own, and the theorem about it names the same operator.

### Session

A connection attempt is a member of `Conn`. A critical section of the code is one
atomic action; work between two critical sections on data no other thread can
reach is merged into the section before it. The TCP stream from server to client
is a queue of messages.

| State | Code | Actions |
|---|---|---|
| `accPc`, `accConn` | where `acceptLoop` is and the socket it holds | `Accept`, `HandshakeFails`, `HandshakeRefused`, `HandshakeAccepted`, `SendInitialState`, `Emplace`, `AnnounceJoined`, `CallJoined`, `AcceptExit` |
| `handler[c]` | the detached thread in `handleTcpClient` | `HandlerRelays`, `HandlerKicks`, `HandlerEnds`, `HandlerErases`, `HandlerAnnounces`, `HandlerCallsLeft` |
| `mainPc`, `playerEvents`, `batch`, `humanoids` | GameServer's main thread | `SetJoinedCallback`, `SetLeftCallback`, `SetMapData`, `SwapEvents`, `ProcessEvent`, `StopServer`, `KickAll`, `JoinAcceptThread` |
| `clientPc`, `queue`, `oldPlayers`, `roster` | net::Client and the replicator's list of players | `ClientConnects`, `ClientSendsInfo`, `ClientFails`, `ClientConstructed`, `ClientStarts`, `ClientReads`, `ClientHangs`, `ClientQuits` |
| `up` | the server process; `Terminate` is the uncaught exception of `remote_endpoint()` | |
| `mapless`, `missed` | history variables for exceptions the properties name | |

Snapshot and registration of a newcomer are separate actions (`SendInitialState`,
`Emplace`), as they are separate critical sections in the code, which is where the
interesting interleavings are.

### PhysicsSync

Datagrams on their way form a set: they arrive in any order, and any subset of
what is sent is lost. The server's main thread handles a state in five steps
(`ReceiveState`, `RecordOwner`, `LookUpPart`, `FollowOwner`, `ApplyState`, then `Relay`);
its physics thread asks `isOwned` and sets the mode in two (`AskIsOwned`, `SetMode`)
inside a round that holds `m_networkPartsMutex` throughout (`BeginRound`, `EndRound`). A
departing player is unregistered and its owner records erased in two steps, as in
`handleTcpClient`. Time is a counter of ticks since each owner record.

What the model brings out: `LookUpPart` needs the mutex of the running round, and
that alone orders an owner record before the next `isOwned`. Without it, a body
could become dynamic with a network target that then keeps it awake and on the
network for good. The order does not protect against a departure, whose erasure
comes between record and application: `StaleTargetsOnlyOfLeavers` says exactly
that, and the mutant `LookUpPartUnlocked` shows that the mutex matters.

### ClientOwnership

One step per object the frame goes through: `ClaimOne` for every object the
search reached, in any order (the code iterates an unordered set), then
`SendOne` for every owned object when states are due. Between two steps the UDP
thread may find a body kinematic (`ReceiveState`) or store its target
(`ApplyState`): two critical sections, so a target may arrive for a body the main
thread has just made dynamic. The books and the bodies form a record (`Books`) that the operators
`Touch`, `EvictSleeper`, `Report`, `Forget`, `TakeOver` and `HandBack` transform, one for
each passage of `update`. Contacts, distances, sleep and waking are the engine's
and are free, with two facts of the code kept: a dynamic body with a target is
activated every step, so it does not fall asleep, and between waking and sleeping
(two seconds) a living player sends at least once (twenty times a second).

Left to the environment: which objects the search reaches (`ContactSearch` models
that search, and its result depends on the order of the contacts). An object vanishes
between frames only; the code destroys instances in the physics step of the same thread.

### The other modules

Each header says what is abstracted; the correspondence in short:

| Module | State and code | Actions and code | Left out |
|---|---|---|---|
| `TcpFrames` | `pipe`: bytes on a socket as header and body units; `mutex`: `m_tcpClientsMutex`; `job`: what a thread still writes; `reader`: where `readFramed` is | `WriteUnit` for each write call, `TakeLock`, `NextClient`, `FrameOut` for `broadcastReliable`; `BeginKick`, `BeginKickAll`; `ReadHeader`, `ReadBody`, `ReadEnd` | parts of a write: a call is atomic |
| `ClientLifecycle` | `main`, `caller`: which destructor calls `stop`; `tcp`, `udp`, `stats`: the threads; `running`: `m_running` | start, the passages of `stop`, joins, destructors; each receiver's reads, errors and callbacks | contents of messages |
| `ContactSearch` | `frontier`, `visited`, `candidates` as in `update` | `Visit` pops, tests and pushes the contacts in any order | how things came to touch |
| `ServerWorld` | `handle`, `live`, `reg`, `target`, `kinematic`: `m_rigidBody`, allocated bodies, `m_bodies`, `m_networkTargets`, flags; `netParts`, `gameParts`, `mapData`: the three copies of the map | the physics thread's step, fall, destruction, interpolation, broadcast; the main thread's rebuild, publication, packet callback; one action for each critical section or unguarded read | places, velocities, rigs |
| `Humanoids` | `states`, `waiting`, `dead`, `timer`, `retry` as in the manager; `rootPart`, `limbs`: the parts a state holds; `at`, `name`, `body`: where each part is, its name, its body | one action for each public operation and listener, for each edit of a part in the explorer, and for `update` | walking; one limb stands for six; the `Humanoid` child is not edited; a second child of a name a rig has; a part that one tracked rig holds put into another |
| `LockOrder` | `todo`: what is left of an operation; `held`: its mutexes | `Acquire`, `Drop`, `Pass`, `Sent`; an operation is its sequence of locks and blocking writes | what is done under the locks |
| `Instances`, `InstanceTree` | parents and children; `bodies`, `picture`, `dirty` of the listeners | create, reparent, unparent, delete, fall, frame | properties |
| `MapFile` | records of type, id and parent id; `clip`, `file` | save, open, copy, paste, edits in between | properties |
| `RenderBuckets` | `buckets`, `targets`, dirty flags of the map and the interface; `todo`: what a walk has still to visit; `visible`: the culled buckets; `screen`: what was drawn of them | `RebuildBegin`, one `Visit` for each object, `RebuildEnd`; `DrawFrame`, `SkipFrame`; one edit by another thread | colours, matrices |
| `FrameRecording` | the state of a command buffer and one pixel | one call of the frame | matrices |
| `FramePipeline` | fences, `inFlight`, `extent`, window flags, ImGui's frame, the GPU's queue | passages of the loop turn, GPU, driver and window | what is drawn |
| `DeviceSetup` | machine (families, extensions, formats, present modes), driver, inodes, what each client chose | start, steps of the save, kill, update, full disk, refused rename | power cuts |
| `TextureStore` | levels with layout and content, arrays, indices | one image command at a time | pixels |
| `MeshFile` | words of a file, stores | the loaders' loops and checks | coordinates |
| `GlyphAtlas` | `currentX`, `currentY`, `rowHeight`, glyphs, letters | one glyph, one text | bearings, scale |
| `StudioPlay` | places of parts and bodies, snapshot by address | gizmo, commit, Play, Stop, physics | rotations, sizes |
| `InputRouting` | the system's queue, key states, ImGui's backlog | one loop turn, events, recreation | text input |

How the modules compose: `Session` gives the players that `PhysicsSync`, `ClientLifecycle`
and `TcpFrames` each look at from one side; `ContactSearch` supplies what `ClientOwnership` leaves
free; `InstanceTree` and `MapFile` are built on `Instances`; `RenderBuckets`
supplies the buckets of `FrameRecording`, whose command buffers `FramePipeline` submits;
`LockOrder` puts the operations of `ServerWorld`, `Humanoids`, `PhysicsSync` and
`Session` on the threads that run them.

## 3. What the runs check

Every run explores its whole state space. All pass but `frames_imgui`, which shows a
defect. A property that joins several claims names them in its definition.

| Run | Instance | Properties | Shows |
|---|---|---|---|
| `session_roster` (`MCSession.cfg`) | 3 connections, two names, server up | `UniquePlayers`, `NoOrphans`, `HandshakeInOrder`, `RostersAreRight` | joining, leaving and broadcasts in every interleaving: registrations are unique and owned by a thread; a client misses nobody and shows nobody who left, except players that left between its snapshot and its registration |
| `session_faults` (`MCSessionFaults.cfg`) | 2 connections, from start-up to shutdown, resets, first packets of the wrong size, refused versions, a packet after the handshake | `WorldFollowsPlayers`, `ImplementsMembership` | the game world follows the connections through failures, kicks and the exception; `Session` implements `Membership` |
| `session_live` (`MCSessionLive.cfg`) | 2 connections, fair, with and without a stop | `AcceptThreadGoesOn`, `LeaversForgotten` | nobody waits for ever and shutdown ends, but for a client that stays silent or an accept that fails; leavers disappear everywhere |
| `physics_live` (`MCPhysicsLive.cfg`) | 2 players, both touch 1 object, timeout of 1 tick, 1 datagram | `StaleTargetsOnlyOfLeavers`, `LeaversLetGo` | what the server's body follows agrees with who owns it; an object nobody simulates returns to the server |
| `physics_channel` (`MCPhysicsChannel.cfg`) | 2 players; first nobody touches, then 1 touches with 4 datagrams | `ConfirmedAreKnown`, `ChannelsWork`, `EverybodyFollows` | a hello lost, early or unanswered is repeated until the channel works; the other clients come to follow the simulator in spite of loss and reordering |
| `ownership` (`MCClientOwnership.cfg`) | 3 objects, room for 2; search among 4 things, 2 deep | `BooksAreRight`, `ClaimsAreRight`, `CapSparesTheMoving`, `LastWordIsCurrent` | order, sleep reports and body modes agree through claims, evictions, releases, deaths and vanishing objects; nothing out of reach is claimed and nothing touched is missed |
| `players` (`MCPlayers.cfg`) | 2 rigs of 4 parts, one edit of a part, frames of 1 or 2 ticks, respawn after 3, retry after 2; one rig fair, two edits; 2 objects, room for 1, fair | `RigsAreWhole`, `LeftAloneHandedBack`, `PlayersComeBack` | whatever is added, dragged, renamed or deleted, the parts a rig still has carry the bodies of its phase; rigs come back after the delay, and are adopted once whole; an object left alone is handed back, unless the race of section 6 keeps its body awake |
| `tree` (`MCInstanceTree.cfg`) | 5 instances; buffers of 7 instances in 6 operations | `NoLoops`, `WorldFollowsTree`, `SavedReadsBack` | parents and children mirror each other without loops, bodies and picture follow; what was saved or copied reads back |
| `client` (`MCClient.cfg`) | 2 messages, 2 hellos; 3 presses, queue of 2; 3 parts, 2 places, 3 addresses | `CleanEnd`, `PressAnswered`, `PlayerIsTold`, `StopRestores` | threads end before what they call; a press fires once; Stop restores what Play saved |
| `server` (`MCServer.cfg`) | 2 parts with 2 bodies each; 2 clients, a frame of 2 in a socket of 1; the 4 threads of a server, the 3 of a client | `NoDanglingBodies`, `ServedMapCurrent`, `MixedOnlyByKicks`, `LocksAreSafe` | pointers and tables of the world agree but for the named races; frames mix on a socket only by `kickClient`; nobody waits in a circle, and physics never for a peer |
| `graphics` (`MCGraphics.cfg`) | 4 characters, 5 letters; 2 slots, 3 images, 2 sizes; 8 objects in two trees, 3 changes; 3 things, 3 frames; 3 loads; 2 meshes; 2 clients, 3 machines | `GlyphsPlaced`, `TextLaidOut`, `FramesApart`, `PictureMatchesTree`, `FrameShowsScene`, `TexturesWhole`, `MeshesAgree`, `SetupIsRight`, `FramesKeepComing` | the parts of the renderer each keep what the next relies on |
| `frames_imgui` (`MCFramePipelineUi.cfg`, a violation) | the same pipeline | `RenderedBeforeNewFrame` | a turn dropped at the acquire leaves ImGui's frame open, so the next `NewFrame` fails an assertion of the vendored ImGui (`graphics/vk/renderer.cpp:62`) |

### Bounds and why they suffice

* `Conn`: a ghost or a lost announcement needs the newcomer, the player that leaves
  and, to compete for a name, a third; the faults multiply the states, and each of
  them concerns one connection beside one that observes it, hence 2.
* `Nick`: `maximilian12` and `alice` have the longest and shortest length the server
  accepts, `bob` is too short.
* `MaxPackets` bounds what clients write after the handshake; it ends a connection's
  thread or is relayed, so one such packet is every case.
* `MaxInFlight`: datagrams are a set, so repeated ones add nothing. One in flight
  beside the packet in hand gives every order of two packets at the server; the
  following of states needs the owner's and the server's updates to two clients,
  hence 4.
* `Timeout` of 1 tick: an expiry on the next tick. The theorems about `PhysicsSync` hold for every timeout.
* `Claimant`: players that touch objects; none where the question is the hello, one where
  it is who follows, both where they compete. One object suffices in
  PhysicsSync: records, modes and targets of objects are independent, and a
  packet carries one object at a time through the same loop.
* `Object`, `Cap`: the cap matters when an object more than fits is touched; with
  three objects and room for two, the evicted one is not always the least recently
  touched one.
* `MaxDepth` of 2 (3 in the code) with four things: a thing is met on a detour at the depth
  limit and on a shorter way later.
* `Ticks`, `RespawnDelay`, `RetryInterval`: a frame that ends on the delay, before it and past it.
* `Part`: a root and a limb for each of two rigs, or for one rig that is pulled apart and furnished again; they are made in
  the order of their numbers. `EditsOfOne` of 2: a part is taken away and another put in its place. The theorem
  `RigsStayWhole` holds for any number of rigs, parts and edits.
* `MaxGen`: a body made, destroyed and made again by a rebuild; a second part tells tables apart.
* `Room` below `KickSize`: the second write of a kick finds the socket full.
* `Thread`: one of each kind; the theorem covers any number.
* Glyph sizes that fill a row exactly, almost and too much; a line break and an unknown character.
* `EditBound` of 3: an object enters, changes while its tree is walked, and changes again. `MaxInstances` of 2: three
  solid objects overfill a bucket; the two trees are walked one after the other.
* `MaxFramesInFlight` is the code's; images are one more than slots, so an image can come back
  while its frame is pending; `ResizeBound` of 2 allows a resize amid a recreation.
* Symmetry is used in safety runs only.
* Deadlock is not checked: the modelled systems may really stop. A server is stopped or
  its process ends, a connection is attempted once, a program is closed, edits are bounded.
  What must not stop is stated as `NoDeadlock` (in `LocksAreSafe`) and as liveness.

### Fairness and why the code justifies it

* `Session`: threads that can take a step take one (weak fairness of the accept
  thread, of each client's thread, of the main thread and of the client program), while the
  process is up. Nobody is forced to connect, to speak, to quit or to signal,
  and nothing makes accept fail. A program that connects and stays silent for good holds `acceptLoop`, and an accept
  that fails while the server runs (`network/server.cpp:403`) ends it: `AcceptThreadGoesOn` names these two exceptions,
  and says that nothing else keeps a client from its answer or `stop` from its end.
* `PhysicsSync`: the server's main loop polls a non-blocking socket, the physics
  thread sleeps and wakes: weak fairness. The main thread waits for a mutex that
  is released between rounds: strong fairness of `LookUpPart`. A datagram sent again and
  again gets through: strong fairness of sending-and-arriving, only in `physics_channel`.
  `Tick` assumes that a physics round begins between two
  ticks (rounds are 50 ms apart, the timeout is two seconds) and that a record does not
  expire while its own packet is being handled.
* `ClientOwnership`: frames follow each other and states come due (strong fairness of
  `BeginFrame` and `StatesAreDue`, which a dead player interrupts for three
  seconds only), a player respawns, a packet in hand is applied, and a body nobody
  wakes comes to rest.
* `Humanoids`: frames keep coming.
* `ClientLifecycle`: the main thread once it is leaving, the TCP and the statistics thread; the UDP thread
  unless it is blocked in a receive on an open socket, which nothing need end.
* `FramePipeline`: the loop turns, the GPU finishes what it has, the user moves the mouse
  now and then (a minimised window waits for an event), and a driver that keeps
  seeing an outdated surface reports it.

## 4. What is proved

Every theorem holds for all values of the constants that satisfy the assumption
named in the component (`SessionAssumption`, `PhysicsSyncAssumption`, `RoleAssumption` and so on); TLC
evaluates these assumptions on each run. Three say more than that sets are finite and names apart:
`SetupAssumption` takes from Vulkan's specification that a surface allows any number of images or at least
`minImageCount` (`IsDevice`), and gives the file system more inodes than the clients and the two names can
hold; `PlayAssumption` has an address for the body of every part.
`RootsAssumption` knows no second `Game` or `Workspace`, which nothing creates (`factory.hpp`). `ObjectsAssumption` takes
for the trees of `RenderBuckets` that links agree and nothing is above itself, which is what
`WorldAlwaysFollowsTree` and `NeverLoops` prove of the tree. A property that is not inductive is
proved through an invariant that is:

| Theorem | Property | Inductive invariant |
|---|---|---|
| `SessionProofs!TypeCorrect` | `TypeOK` | `IInv == TypeOK /\ Custody /\ Distinct /\ Handshakes` |
| `PlayersAlwaysUnique`, `NeverOrphaned`, `HandshakeAlwaysInOrder` | `UniquePlayers`, `NoOrphans`, `HandshakeInOrder` | `IInv` |
| `RefinesMembership` | `ImplementsMembership` | `IInv` with `RInv` |
| `RostersAlwaysRight`, `WorldAlwaysFollows` | `RostersAreRight`, `WorldFollowsPlayers` | `IInv`, `RInv` with `WInv` |
| `PhysicsSyncProofs!TypeCorrect` | `TypeOK` | `IInv == TypeOK /\ StaleInv /\ KnownInv` |
| `StaleTargetsAlwaysOfLeavers`, `ConfirmedAlwaysKnown` | `StaleTargetsOnlyOfLeavers`, `ConfirmedAreKnown` | `IInv` |
| `ClientOwnershipProofs!BooksStayRight`, `MovingAreSpared`, `LastWordStays` | `BooksAreRight`, `CapSparesTheMoving`, `LastWordIsCurrent` | `Sound(Books)` with `FrameInv` |
| `SearchTypeCorrect`, `NeverOutOfReach`, `TouchedAlwaysFound`, `ClaimsAlwaysRight` | `ClaimsAreRight` | `OnRoute`, `NothingOutOfReach`, `InHand` |
| `ClientProofs!CallersEndFirst`, `OnlyFaultsAbort`, `AlwaysCleanEnd` | `CleanEnd` | `IInv` |
| `LossAlwaysTold` | `LossIsTold`, a part of `PlayerIsTold` | `IInv` with `TypeOK` |
| `StopAlwaysRestores` | `StopRestores` | `StudioInv == PlayTypeOK /\ InHand /\ Snapshot` |
| `PressesAlwaysAnswered` | `PressAnswered` | `RoutingInv` (`Agreeing`, `Answerable`, `DueCounted`) |
| `ServerProofs!NeverDangling`, `AlwaysServedCurrent` | `NoDanglingBodies`, `ServedMapCurrent` | `IInv` (pointers, dirty flag, rebuild) |
| `MixedOnlyEverByKicks` | `MixedOnlyByKicks` | `FramesInv` (`Books` and `Streams`) |
| `LocksAlwaysSafe` | `LocksAreSafe` | `LockInv` |
| `HumanoidsProofs!RigsStayWhole` | `RigsAreWhole` | `IInv` |
| `NobodyRespawnsEarly` | `RespawnTakesItsTime`, a part of `PlayersComeBack` | `IInv` |
| `InstanceTreeProofs!NeverLoops`, `WorldAlwaysFollowsTree` | `NoLoops`, `WorldFollowsTree` | `IInv`: the property with `Sound(tree)` |
| `PictureAlwaysMatches` | `PictureMatchesTree` | `BucketInv` with `ScreenFits` and `DrawnFarToNear` |
| `GraphicsProofs!NeverTouch`, `NeverCross`, `AlwaysPlaced` | `GlyphsPlaced` | `PlaceOK` with `RowsPacked` |
| `TextsAlwaysLaidOut` | `TextLaidOut` | `LaidInv` (`TurnsRight`, `AllRight`) |
| `FramesStayApart` | `FramesApart` | `IInv` |
| `SetupAlwaysRight` | `SetupIsRight` | `SetupInv == SetupTypes /\ Progress /\ FilesKept` |
| `TexturesAlwaysWhole` | `TexturesWhole` | `StoreInv` (`InTheMaking` and `Tables`) |
| `FramesAlwaysShowScene` | `FrameShowsScene` | `RecordingRight == BufferRight /\ PictureRight` |

### Session

`IInv` strengthens the three properties of the registration:

* `Custody` says which thread holds a connection at each point. The properties
  all fail to be inductive without it: that the check of a nickname is still
  valid at the registration follows because only the accept thread registers,
  and it holds one connection at a time.
* `Distinct` carries the result of the check from the critical section of the check
  to that of the registration (`accPc # "handshake"`), and that ids are drawn once,
  below `nextPlayerId`, even when the write that follows fails.
* `Handshakes` follows the queue of a client that still waits: empty, then the
  acceptance alone, then three packets, and broadcasts only behind them. It needs
  `Custody` (a connection under handshake is not registered, so no broadcast
  reaches it) and `TypeOK` needs it in turn (the constructor reads `ids` from the second packet).

The refinement is a step simulation: each action of `Session` is a join, a
leave, a spawn, a removal of a humanoid or a stutter of `Membership`. What it needs beside `IInv` is that
the events on their way to the main thread are those of players that were registered
once (`EventsOfPlayers`), and what the main thread is doing with the batch it took (`Served`).

Rosters and world need more. A client's list is what it shows *and*
what it has yet to read: `AllRosters` says of every unread queue that applying it gives the
registered players, give or take the announcement in some thread's hands, and except
those `missed`. `World` says the same of humanoids and queued events. Both are
stated without a fold, by the last message about each player, so that a step adds or removes one message at
either end; `Places` and `MapsSent` say which messages can be where.

### Physics channel

`StaleInv` follows a packet
through the main thread: from `RecordOwner` on its sender owns the object or is
gone (`RecordHeld`; only an erasure takes the record away, since no record expires
while its packet is handled); so an answer of `isOwned` that the physics thread still holds
can be "no" only for a leaver (`AnswerHeld`; an answer older than the record is
excluded by the mutex at `LookUpPart`); so a body that is dynamic when the state
is applied met a leaver (`AppliedHeld`); so a dynamic body's target is a leaver's
(`TargetsHeld`). "Gone" means unregistered for good, since a player registers once.
`KnownInv` adds the acknowledgements on their way to `ConfirmedAreKnown`.

### What a client simulates

`Sound(b)` is a predicate on the record of books and bodies, and each passage of
`update` has a lemma that it keeps it. `FrameInv` ties the books to the frame in progress: which objects are
still to be claimed or sent and what the UDP thread holds. `CapSparesTheMoving` is about an
action; its lemma shows that a sleeper is evicted whenever one is owned.

For the search, `OnRoute` says that an entry of the stack is reached by as many
contacts as its depth says, over things that move; `InHand` that what the player touches
is a candidate or still on the stack.

### The end of a client

`IInv` says where each thread may be at each point of `main` (`PcOK`, `Held`, `Stages`), that the first `stop` clears the
flag before anything is destroyed (`FirstStop`), and who has been joined (`Joining`).

### A shortcut

`Says` is what a sequence of events says of an input, whoever reads it. What the user holds is
what the queue says after the window's key states (`HeldKnown`), and what the window knows is what the backlog says
after ImGui's, but for keys whose events were swallowed (`Agreeing`). So a press the queue tells for the first
time is handed on once (`AllHanded`), and a frame takes at most one event of the key from the backlog (`FrameTakes`).
`DueCounted` counts the presses due by these two sequences and the edge of the frame. For `FiresOnce`, whatever may still
fire is matched by an unanswered press (`Answerable`), where a press in the backlog may fire again only if it has waited
longer than the frames since the last firing: hence the exception of a press that waits for the whole debounce.

### The server

*World*: a part's handle is its last body and it exists (`HandlesLive`); what the physics
thread is destroying has a handle until it is deleted (`DestroyedPart`) and is in no table but by a raced
rebind (`DeletedUnregistered`); the main thread's pointer came from a handle since cleared
at most (`HeldPointer`). The map: a rebuild no destruction overlapped has counted the tree and holds what it visited (`RebuildExact`).

*Frames*: `Books` says who writes what under which lock; `Streams` that for a client that
still reads, the units in its pipe continue from where `readFramed` stands, each is the one its
predecessor announces, and at most one thread is amid a frame to it.

*Locks*: mutexes have ranks. What is left of an operation keeps their order to its end
(`Orderly`), and takes what a blocking write is made under with empty hands. An operation is put together from
parts, and a part `Fits` if it may stand before whatever may follow it; so each of the
operations is one short argument. In a circle of waiting threads each would want a mutex of a
higher rank than the one before, and there are three ranks. The threads a silent
peer can hold up are those that write or wait for `players` or `map`; none of them holds
anything else, and physics is not one of them.

### Rigs

A state keeps the parts it found when it was made, while the explorer moves, renames and deletes them. `Matches` says what
of them has a body, by the phase of the rig and by where each part is now; `PartsHeld` that what a state
holds is its rig's still, or in the workspace, or gone, and has kept its name unless it was touched. The delay needs that the countdown of a dead rig and the time
it has been dead add up (`ClocksAgree`), and `Retries` gives the range of `retry`.

### Tree, atlas, frames

*Tree*: `Sound` says of a tree that links agree in both directions, that nothing is its own ancestor and that the game has
no parent. The walks of `Instances` are recursive functions; each is shown to be the smallest set closed under its
steps: that solves its equation, and where another solution differed it would differ once more
further along the walk, which ends. From there every operation is an argument about closed sets: a move sets one
parent after the walk of `setParent`, which gives a set closed upwards without the moved instance, so that a loop through it
would leave a loop in that set; what a move or a destruction does not announce to the workspace
leaves the lists of children below it as they were, hence the picture.

*Buckets*: `BucketInv` follows a walk. No two objects it has still to visit are above each other (`TodoRight`), so none is visited twice,
and what is still `Awaited` has no slot (`SlotsRooted`, `SlotsApart`). While no change has come between (`Reliable`), every
slot of the tree is that of an object to be seen, in its bucket and with its faces, and its target is remembered (`SlotsRight`);
every object to be seen has a slot or is awaited (`AllThere`); and what is to visit is below nothing that ends
the walk of its branch (`TodoReached`). At the end nothing is awaited. A change that the flag does not
hear concerns what is not in the tree, or only a place. Culling keeps the end of an arrangement by distance,
which exists for every finite set since one of its elements is the nearest; so the whole of a culled bucket fits the instance
buffer, what it leaves out is no nearer than what it keeps (`NearestKept`), and the draw passes it on in its order
(`FrameDrawsFarToNear`).

*Atlas*: glyphs of one row lie side by side, rows lie below each other (`RowsPacked`). For the texts, a turn of
`setupTexts` takes the place the letters before it give it (`TurnsRight`), and the letters of the texts done are
in the buffer where those turns put them (`AllRight`); a turn says what the loop does with one byte, so both are invariants of the loop.

*Frames*: a fence tells whether its slot has a batch (`FencesTell`), so there are never more batches than
slots; the image a frame acquired is in no other pending batch (`OnePerImage`, `Acquired`); the shared buffers were
overwritten once for every batch behind a given one (`AheadOfLater`), fewer than there are slots.

*Textures*: at each command the image being made is a function of its size and of the loop's turn
(`LevelAt`), and each command takes one such image to the next. Sizes are shifted by the device and halved by the
loop; both give the next level, and the highest bit of the longer side ends at one pixel.

*Recording*: `BufferRight` says what each call leaves bound, and of every draw so far that it fitted
(`DrawFits`); `PictureRight` follows the pixel. Up to the outlines it shows the nearest of the surfaces drawn
(`Solidly`), whatever their order; from the skybox on its depth stays, and over the first thing seen lie
exactly those of the layers drawn so far that pass the test at that depth (`Layers`). The instances of a draw are a
recursive function; that a draw does to the pixel what its last instance does after the others comes from a
smallest number of instances for which it would not.

## 5. What is only model-checked

* Liveness needs fairness and ENABLED, which the provers cannot handle:
  `AcceptThreadGoesOn`, `LeaversForgotten`, `LeaversLetGo`, `ChannelsWork`,
  `EverybodyFollows`, `LeftAloneHandedBack`, `PlayersComeBack`, `PlayerIsTold`, `FramesKeepComing`.
* What a definition computes on every input needs an induction over data, which the provers lack; it can be replaced by
  an argument about a smallest counterexample, as for the walks of the tree, the arrangements of culling, the instances of a draw, the letters of a text and the events of a queue, and was not for `SavedReadsBack` and `MeshesAgree`.

## 6. What the models show about the code

`frames_imgui` is the one disagreement with a statement of the repository (its vendored ImGui): a turn that
`beginFrame` drops because the surface is out of date leaves `NewFrame` without `Render`, and the next turn
fails ImGui's assertion.

Nothing else contradicts a statement of the repository, which hardly documents
these parts. What follows are exceptions the properties had to name, hazards found
while modelling, and facts a maintainer may want to know.

**Session**

* A player that leaves between a newcomer's `InitialState` and its registration
  remains a ghost at the newcomer (`network/server.cpp:490-550`; `missed`).
* `remote_endpoint()` without an error code throws when the peer has reset
  (`server.cpp:540`, `573`, `607`): the server process ends (`Terminate`).
* A client that connects while the server starts gets an empty map and no
  joined event (`mapless`); `net::Client` then fails.
* A client that connects and says nothing blocks the accept thread, every later
  client and `stop()` (`server.cpp:411`); an accept that fails while the server runs ends that thread, and nothing starts
  it again (`server.cpp:403`). Both are exceptions in `AcceptThreadGoesOn`.
* Detached client threads may outlive the `Server` (`server.cpp:567`); the model
  ends them with it.
* `kickClient` writes to a socket without the mutex of the broadcasts
  (`server.cpp:571`): the exception in `MixedOnlyByKicks`. With the descriptor reused, a frame
  could even reach a newcomer; this is not modelled.
* A client that ended its TCP loop keeps its socket open and unread; once the buffer is
  full, a broadcaster waits with `m_tcpClientsMutex` in its hands, and whoever wants that mutex with it.
* `setMapData` waits while the accept thread writes the map to a slow newcomer under
  `m_mapDataMutex`: the main thread stalls, UDP with it, and physics goes on (`LocksAreSafe`).
* There is no circle of locks. That rests on two decisions: fallen instances are destroyed outside the world
  mutex, and motion states move parts without notifying.

**Physics channel and ownership**

* Endpoints and UDP ids are never erased (`server.cpp:96`); a kicked client that
  keeps sending is dropped by the membership check, but a packet already past that
  check makes the leaver an owner until the timeout.
* A sleeping object is reported once over UDP (`game_server.cpp:171`); if that datagram is lost the others keep
  the state before it. `EverybodyFollows` speaks of an object that keeps being sent.
* An evicted object gets no last state (`client_ownership.cpp:104`; the exception
  in `LastWordIsCurrent`), and the cap is exceeded when everything owned moves.
* An object reported asleep, woken and come to rest again while the player is dead
  is not reported a second time if it is still owned (`unseen` in `SilentOnlyAtRest`).
* A state applied just after the claim of its object leaves a target on a dynamic
  body, which is then activated every step and never released
  (`client_replicator.cpp:168`, `physics.cpp:791`; the exception in `LeftAloneReleased`).
* The contact search can miss a thing in reach that it first meets on a detour at the
  depth limit; what the player touches itself is never missed.
* After a long frame the send accumulator lets every frame send until it is used up (`client_ownership.cpp:132`).

**World**

* `rebindNetworkId` reads `m_rigidBody` before its lock and holds only `m_bodiesMutex`: a dangling entry of `m_bodies`
  (`raced` in `NoDanglingBodies`); the packet callback reads a body and uses it later.
* A rebuild that overlaps a destruction may publish a stale map with the flag cleared, a
  count that differs from the records, or a new body for a destroyed part (`overlapped`). `getChildren` copies a vector another
  thread may be erasing from; `getBodyCollisions` reads manifolds under `m_bodiesMutex` only.
* A local rig that falls is destroyed at the height at which it would be teleported, so
  its player never gets a rig back. The pending flag is not reset on teleport; `damage()` and
  `kill()` have no caller; a limb dragged out of a rig loses its body at the respawn; a renamed part
  completes a pending rig only through the retry.
* A rig whose root is deleted, dragged out or renamed while it lives stays tracked without a body it could be found by: it
  neither walks, dies nor waits for a spawn location any more (`humanoid_manager.cpp:277`). A limb deleted from a rig gets a
  body again when the rig dies, which collides until the respawn (`humanoid_manager.cpp:436`; the exception in
  `NoStrayBodies`). A rig that stands again stands on the root it has by then.

**Rendering**

* The dirty flag is lost when the TCP thread changes the tree during a walk; silent moves of anchored parts show only after a rebuild;
  a selection box on a Head is never drawn; children of a hidden selection box and texts
  outside a part are not collected.
* Two fonts share one instance buffer, and Arial uses texture index 0. Single instance buffers are shared by the frames
  in flight (the exception in `FramesApart`); ImGui's buffers are destroyed while a pending frame may read them (`imgui.cpp:296`).
* The wait loop of `recreateSwapchain` swallows input events; a swapchain of extent 0
  is not guarded. Nothing checks the height of the atlas, the bindless arrays (1000 and 10) or the indices of a mesh;
  an empty mesh fails only when its buffer is made.
* Outline pipelines use a stride of 120 bytes over instances of 80; billboards push 144 bytes where
  128 are guaranteed. Transparent parts are sorted far to near within the bucket of their mesh; buckets of different meshes, and
  the parts against their outlines, are not.
* Two clients that close at once share the temporary cache file, and one saved cache may be
  lost; only its header is validated; it is not synced before the rename; features are enabled unqueried.

**Maps, Studio, input**

* The factory knows no Game, Workspace or CoreGui, so their records are skipped and "Open" puts
  everything under Game. A Rig reads back as a Model. A copied subtree keeps its outer parent's
  id, which may equal a new child's. A save truncates in place.
* A Workspace dragged into a folder that is deleted drops out; unparenting leaves the body; an orphan may
  stay selected. Parts that fall during Play are not restored by Stop; in the studio all network ids are 0, so
  only the body registered last is collected when falling; a gizmo's silent move is never
  announced after F5, after Ctrl+V during the drag, or F3 on a model; the snapshot is keyed by body address.
* Events polled inside `recreateSwapchain` never reach ImGui, so keys stick; a press that waits three
  frames fires twice, a second press within three is lost; Ctrl released
  before the frame loses the command.

**The end of a client**

* After a UDP receive error `stop()` returns early: sockets stay open, services are destroyed
  before the replicator while the TCP thread may still call them, and `~Client` aborts (the
  exception in `CleanEnd`). After a kick `m_running` stays true. The map callback may
  throw out of `start()`. Notifications are inserted from other threads (`game_interface.cpp:10`).

## 7. Not modelled, and the plan

External and modelled as the code uses them: TCP and UDP (boost.asio), Bullet, the GPU and
its driver, the mutexes of the standard library. Not modelled:

* `graphics/geometries.cpp` (meshes embedded as data) and `extern/` (third party);
* arithmetic without control: camera and controller, gizmo matrices, light and shadow
  matrices, walking forces, packing of floats and rotations, the serializer;
* wrappers that only pass arguments on: descriptors, buffers, samplers, dock layout, debug tools;
* the property panel, the draw lists of the interface and audio, whose hazards stay within one thread;
* logging, hashing, the command line, and the script engine (nothing calls it).

Four hazards have no property. The loss of a sleep report (above) is real and has no
remedy in the code; neither has an object that two clients own at once, since each sends its state and ignores the
other's (`server.cpp:166`), so `EverybodyFollows` is checked with one client that claims. `m_networkRigs` and
`m_networkInstances` are read and written by three threads without a mutex (`client_replicator.cpp:52`), which is
undefined behaviour of the map itself, so that nothing remains to be checked. And a client's UDP thread uses a body that its
frame loop may destroy (`client_replicator.cpp:167`); `ServerWorld` has the same steps for the server only.

Six properties except a case the code gets wrong, and cover the rest of their hazard: `AcceptThreadGoesOn` a silent client
and a failed accept, `CleanEnd` a fault of the UDP receiver (`faulted`), `NoDanglingBodies` the gap of
`rebindNetworkId` (`raced`), `ServedMapCurrent` and `PictureMatchesTree` a change during a walk (`overlapped`,
`overlap`), `LeftAloneHandedBack` a target stored after a claim. Beside those listed, the code is exposed to detached threads
(`server.cpp:567`), UDP endpoints that are never erased (`server.cpp:98`), the accumulator and the
ImGui buffers named above, and a thousandth player id that equals the first network id (`server_replicator.hpp:49`).

Still to prove, by such arguments: `MeshesAgree` and `SavedReadsBack`.
