---- MODULE DeviceSetup ----
(***************************************************************************)
(* How a client finds its graphics device and what it keeps on disk for    *)
(* the next start: Device (device.cpp), the choices of Swapchain and       *)
(* ShadowMap that depend on the device, and the pipeline cache file.       *)
(*                                                                         *)
(* Several clients may run from one directory (a developer who tests the   *)
(* multiplayer does), so they share the cache file and the temporary file  *)
(* it is written to.  Files are inodes: a name may be moved while another  *)
(* client still writes.  A client may be killed at any moment, the disk    *)
(* may be full, a rename refused and the driver updated between two runs.  *)
(*                                                                         *)
(* A cache is its header and its body, each with the tag of the device and *)
(* driver that made it.  Power cuts are not modelled: the code does not    *)
(* sync the file, and nothing can be said about it then.                   *)
(***************************************************************************)
EXTENDS Naturals, Sequences, FiniteSets, SequencesExt

CONSTANTS
    Clients,     \* processes that run from the same directory
    Inodes,      \* file contents
    NoInode,     \* a name without a file
    Machines,    \* the machines considered, each a sequence of devices in
                 \* the order vkEnumeratePhysicalDevices returns them
    StartBound,  \* bound on the starts of each client
    UpdateBound  \* bound on driver updates

\* What the Vulkan calls report about a device (Vulkan specification: maxImages
\* is 0 for no limit, and otherwise at least minImages).
IsDevice(d) ==
    /\ d.families \in Seq(SUBSET STRING) /\ d.depth \in Seq(SUBSET STRING)
    /\ d.formats \in Seq(STRING) /\ d.modes \in Seq(STRING)
    /\ d.extension \in BOOLEAN /\ d.features \in BOOLEAN
    /\ d.minImages \in Nat /\ d.maxImages \in Nat
    /\ d.maxImages > 0 => d.minImages <= d.maxImages

ASSUME SetupAssumption ==
    /\ IsFiniteSet(Clients) /\ IsFiniteSet(Inodes) /\ NoInode \notin Inodes
    /\ Cardinality(Inodes) > Cardinality(Clients) + 1
    /\ StartBound \in Nat /\ UpdateBound \in Nat
    /\ \A m \in Machines : m \in Seq(ToSet(m)) /\ \A d \in ToSet(m) : IsDevice(d)

VARIABLES
    machine,   \* the devices
    driver,    \* version of the driver (the pipeline cache UUID)
    cache,     \* the inode called pipeline_cache.bin
    tmp,       \* the inode called pipeline_cache.bin.tmp
    content,   \* content of each inode: tags of its header and body
    writers,   \* history: clients that wrote an inode at once, or moved it
    startPc,        \* where each client is
    starts,    \* starts of each client so far
    setup,     \* what it chose, <<>> before
    given,     \* what it handed to vkCreatePipelineCache
    fd,        \* the inode it writes
    last,      \* history: the tag of the last file put in place
    refused    \* history: the system refused a rename

setupVars == <<machine, driver, cache, tmp, content, writers, startPc, starts, setup,
          given, fd, last, refused>>
disk == <<cache, tmp, content, writers, last, refused>>

----
(* The choices.  A device is a record: its queue families (each with the   *)
(* kinds of work it accepts), whether it has the swapchain extension and   *)
(* the features the program enables, its surface formats and present       *)
(* modes, the capabilities of the surface and what each depth format       *)
(* candidate supports.                                                     *)

Families(d) == DOMAIN d.families

\* The loop stops at the first family where both kinds have been seen.
Scanned(d) ==
    LET seen(i) == UNION {d.families[j] : j \in 1..i}
        stops   == {i \in Families(d) : {"graphics", "present"} \subseteq seen(i)}
    IN  IF stops = {} THEN Families(d)
        ELSE {i \in Families(d) : \A s \in stops : i <= s}

Latest(d, kind) ==
    LET found == {i \in Scanned(d) : kind \in d.families[i]}
    IN  IF found = {} THEN 0
        ELSE CHOOSE i \in found : \A j \in found : j <= i

Complete(d) == Latest(d, "graphics") # 0 /\ Latest(d, "present") # 0

Suitable(d) == Complete(d) /\ d.extension /\ d.formats # <<>> /\ d.modes # <<>>

Pick(devices) == SelectInSeq(devices, Suitable)

SurfaceFormat(d) ==
    IF Contains(d.formats, "srgb") THEN "srgb" ELSE d.formats[1]

ImageCount(d) ==
    IF d.maxImages > 0 /\ d.minImages + 1 > d.maxImages
    THEN d.maxImages ELSE d.minImages + 1

\* findSupportedFormat: the first candidate that has the features, else 0
\* (it throws).
FirstWith(d, features) ==
    SelectInSeq(d.depth, LAMBDA supported : features \subseteq supported)

ShadowFormat(d) ==
    LET best == FirstWith(d, {"attachment", "sampled", "linear"})
    IN  IF best # 0 THEN [format |-> best, linear |-> TRUE]
        ELSE [format |-> FirstWith(d, {"attachment", "sampled"}), linear |-> FALSE]

Setup(d, v) ==
    [device |-> d, driver |-> v,
     graphics |-> Latest(d, "graphics"), present |-> Latest(d, "present"),
     shared |-> Latest(d, "graphics") = Latest(d, "present"),
     format |-> SurfaceFormat(d), images |-> ImageCount(d),
     shadow |-> ShadowFormat(d)]

\* vendor, device and pipeline cache UUID: the driver version is in the UUID.
Tag(c) == <<setup[c].device.id, setup[c].driver>>

----
SetupInit ==
    /\ machine \in Machines /\ driver = 0
    /\ cache = NoInode /\ tmp = NoInode
    /\ content = [i \in Inodes |-> <<>>] /\ writers = [i \in Inodes |-> {}]
    /\ startPc = [c \in Clients |-> "off"] /\ starts = [c \in Clients |-> 0]
    /\ setup = [c \in Clients |-> <<>>] /\ given = [c \in Clients |-> <<>>]
    /\ fd = [c \in Clients |-> NoInode]
    /\ last = <<>> /\ refused = FALSE

Goes(c, to) == startPc' = [startPc EXCEPT ![c] = to]

\* createInstance, the debug messenger (only with the layers installed) and
\* the surface: any of them may throw.
CreateInstance(c) ==
    /\ startPc[c] = "off" /\ starts[c] < StartBound
    /\ starts' = [starts EXCEPT ![c] = @ + 1]
    /\ \E to \in {"instance", "no instance"} : Goes(c, to)
    /\ UNCHANGED <<machine, driver, setup, given, fd, disk>>

\* Without a suitable device it throws.
PickPhysicalDevice(c) ==
    /\ startPc[c] = "instance"
    /\ LET i == Pick(machine) IN
       IF i = 0 THEN Goes(c, "no device") /\ UNCHANGED setup
       ELSE Goes(c, "picked") /\ setup' = [setup EXCEPT ![c] = Setup(machine[i], driver)]
    /\ UNCHANGED <<machine, driver, starts, given, fd, disk>>

\* createLogicalDevice asks for features nobody checked; the shadow map and
\* the swapchain need a depth format.
CreateLogicalDevice(c) ==
    /\ startPc[c] = "picked"
    /\ LET d == setup[c].device IN
       Goes(c, IF ~d.features THEN "no features"
               ELSE IF setup[c].shadow.format = 0 THEN "no format" ELSE "device")
    /\ UNCHANGED <<machine, driver, starts, setup, given, fd, disk>>

\* isPipelineCacheDataValid reads the header alone.
Valid(c, data) == data # <<>> /\ Head(data) = Tag(c)

\* createPipelineCache: the file is read and discarded unless it is ours.
CreatePipelineCache(c) ==
    /\ startPc[c] = "device" /\ Goes(c, "running")
    /\ LET data == IF cache = NoInode THEN <<>> ELSE content[cache] IN
       given' = [given EXCEPT ![c] = IF Valid(c, data) THEN data ELSE <<>>]
    /\ UNCHANGED <<machine, driver, starts, setup, fd, disk>>

\* The driver refuses: the client runs without a cache.
NoPipelineCache(c) ==
    /\ startPc[c] = "device" /\ Goes(c, "uncached")
    /\ UNCHANGED <<machine, driver, starts, setup, given, fd, disk>>

Ends(c) ==
    /\ Goes(c, "off")
    /\ setup' = [setup EXCEPT ![c] = <<>>] /\ given' = [given EXCEPT ![c] = <<>>]
    /\ fd' = [fd EXCEPT ![c] = NoInode]
    /\ UNCHANGED <<machine, driver, starts>>

\* A start that threw ends the process; so does a run without a cache, whose
\* savePipelineCache returns at once.
EndsWithoutSaving(c) ==
    /\ startPc[c] \in {"no instance", "no device", "no features", "no format", "uncached"}
    /\ Ends(c) /\ UNCHANGED disk

Opens(c, i) ==
    /\ content' = [content EXCEPT ![i] = <<>>]
    /\ writers' = [writers EXCEPT ![i] = {o \in Clients : fd[o] = i} \cup {c}]
    /\ fd' = [fd EXCEPT ![c] = i]

\* A new inode: no name and no process has it.
Fresh == CHOOSE i \in Inodes : i # cache /\ \A o \in Clients : fd[o] # i

\* Defect: the cache is written in place.
OpensInPlace(c) ==
    /\ IF cache # NoInode THEN Opens(c, cache) /\ UNCHANGED cache
       ELSE Opens(c, Fresh) /\ cache' = Fresh
    /\ Goes(c, "header") /\ UNCHANGED tmp

\* savePipelineCache opens the temporary file and truncates it: a new inode,
\* or the one another client (or a crash) left there.
OpensTmp(c) ==
    /\ IF tmp # NoInode THEN Opens(c, tmp) /\ UNCHANGED tmp
       ELSE Opens(c, Fresh) /\ tmp' = Fresh
    /\ Goes(c, "header") /\ UNCHANGED cache

SaveBegin(c) ==
    /\ startPc[c] = "running" /\ OpensTmp(c)
    /\ UNCHANGED <<machine, driver, starts, setup, given, last, refused>>

\* The directory, the file or the driver's data is not to be had.
SaveSkipped(c) == startPc[c] = "running" /\ Ends(c) /\ UNCHANGED disk

\* A write at this client's own position; a gap before it reads as zeros.
Put(data, k, tag) ==
    [j \in 1..(IF Len(data) >= k THEN Len(data) ELSE k) |->
        IF j = k THEN tag ELSE IF j <= Len(data) THEN data[j] ELSE <<>>]

Write(c, at, k, then) ==
    /\ startPc[c] = at /\ Goes(c, then)
    /\ content' = [content EXCEPT ![fd[c]] = Put(@, k, Tag(c))]
    /\ UNCHANGED <<machine, driver, starts, setup, given, fd, cache, tmp, writers,
                   last, refused>>

WriteHeader(c) == Write(c, "header", 1, "body")
WriteBody(c)   == Write(c, "body", 2, "rename")

\* The disk is full: the partial file stays under the temporary name.
WriteFails(c) == startPc[c] \in {"header", "body"} /\ Ends(c) /\ UNCHANGED disk

Placed(c) ==
    /\ cache' = tmp /\ tmp' = NoInode /\ last' = Tag(c)
    /\ writers' = [writers EXCEPT ![tmp] = @ \cup {c}]
    /\ Ends(c) /\ UNCHANGED <<content, refused>>

Rename(c) == startPc[c] = "rename" /\ tmp # NoInode /\ Placed(c)

\* Another client moved the temporary file away, or the system refuses: the
\* cache is removed and the rename tried again.
RenameFails(c) ==
    /\ startPc[c] = "rename" /\ Goes(c, "remove")
    /\ refused' = (refused \/ tmp # NoInode)
    /\ UNCHANGED <<machine, driver, starts, setup, given, fd, cache, tmp, content,
                   writers, last>>

RemoveCache(c) ==
    /\ startPc[c] = "remove" /\ Goes(c, "again") /\ cache' = NoInode
    /\ UNCHANGED <<machine, driver, starts, setup, given, fd, tmp, content, writers,
                   last, refused>>

RenameAgain(c) ==
    /\ startPc[c] = "again"
    /\ \/ tmp # NoInode /\ Placed(c)
       \/ Ends(c) /\ UNCHANGED <<cache, tmp, content, writers, last>>
          /\ refused' = (refused \/ tmp # NoInode)

\* The process is killed.
Crash(c) == startPc[c] # "off" /\ Ends(c) /\ UNCHANGED disk

\* The user installs another driver; who runs keeps the one it loaded.
UpdateDriver ==
    /\ driver < UpdateBound /\ driver' = driver + 1
    /\ UNCHANGED <<machine, startPc, starts, setup, given, fd, disk>>

ClientNext(c) ==
    \/ CreateInstance(c) \/ PickPhysicalDevice(c) \/ CreateLogicalDevice(c)
    \/ CreatePipelineCache(c) \/ NoPipelineCache(c) \/ EndsWithoutSaving(c)
    \/ SaveBegin(c) \/ SaveSkipped(c)
    \/ WriteHeader(c) \/ WriteBody(c) \/ WriteFails(c) \/ Rename(c) \/ RenameFails(c)
    \/ RemoveCache(c) \/ RenameAgain(c) \/ Crash(c)

SetupNext == UpdateDriver \/ \E c \in Clients : ClientNext(c)

SetupSpec == SetupInit /\ [][SetupNext]_setupVars
----
Tags == {<<d.id, v>> : d \in UNION {ToSet(m) : m \in Machines}, v \in 0..UpdateBound}
Data == {<<>>} \cup {<<h>> : h \in Tags} \cup {<<h, b>> : h \in Tags \cup {<<>>}, b \in Tags}

\* Types and ranges of device.cpp's state: a file is at most a header and a
\* body, and a client has an open file exactly while it saves.
SetupTypeOK ==
    /\ machine \in Machines /\ driver \in 0..UpdateBound
    /\ cache \in Inodes \cup {NoInode} /\ tmp \in Inodes \cup {NoInode}
    /\ content \in [Inodes -> Data] /\ writers \in [Inodes -> SUBSET Clients]
    /\ starts \in [Clients -> 0..StartBound]
    /\ \A c \in Clients :
        /\ (startPc[c] \in {"off", "instance", "no instance", "no device"}) <=> (setup[c] = <<>>)
        /\ (startPc[c] \in {"header", "body", "rename", "remove", "again"}) <=> (fd[c] # NoInode)
        /\ given[c] \in Data
    /\ last \in Tags \cup {<<>>} /\ refused \in BOOLEAN

\* What a device must offer: somewhere to draw, somewhere to present, the
\* swapchain extension, a surface format and a present mode.
Fits(d) ==
    /\ \A kind \in {"graphics", "present"} : \E i \in Families(d) : kind \in d.families[i]
    /\ d.extension /\ d.formats # <<>> /\ d.modes # <<>>

\* pickPhysicalDevice and findQueueFamilies: the device chosen fits and no
\* earlier one does, its queues are on families that accept their work, and
\* a start fails for want of a device only on a machine where none fits.
PickIsFirstFit ==
    \A c \in Clients :
       /\ startPc[c] = "no device" => \A i \in DOMAIN machine : ~Fits(machine[i])
       /\ setup[c] # <<>> =>
            \E i \in DOMAIN machine :
               /\ setup[c].device = machine[i] /\ Fits(machine[i])
               /\ \A j \in 1..i - 1 : ~Fits(machine[j])
               /\ "graphics" \in machine[i].families[setup[c].graphics]
               /\ "present" \in machine[i].families[setup[c].present]

\* findQueueFamilies against the swapchain's sharing mode: the images are
\* exclusive to one family exactly when the family that completes the scan
\* does both; no family past it is used.
SharedIfTheLastDoesBoth ==
    \A c \in Clients : setup[c] # <<>> =>
       LET s == setup[c]
           both == {"graphics", "present"}
           complete(i) == both \subseteq UNION {s.device.families[j] : j \in 1..i}
           i == CHOOSE i \in Families(s.device) : complete(i) /\ \A j \in 1..i - 1 : ~complete(j)
       IN  /\ s.shared <=> both \subseteq s.device.families[i]
           /\ i \in {s.graphics, s.present} /\ s.graphics <= i /\ s.present <= i

\* createSwapchain: the surface's limits on the number of images hold.
ImageCountLegal ==
    \A c \in Clients : setup[c] # <<>> =>
       LET d == setup[c].device IN
       /\ setup[c].images >= d.minImages
       /\ d.maxImages > 0 => setup[c].images <= d.maxImages

\* ShadowMap::pickDepthFormat: a running client has a format it can render to
\* and sample, and gives up linear filtering only if no candidate has it.
ShadowFormatBest ==
    \A c \in Clients : startPc[c] \in {"device", "running", "uncached"} =>
       LET d == setup[c].device
           s == setup[c].shadow
       IN  /\ {"attachment", "sampled"} \subseteq d.depth[s.format]
           /\ s.linear <=> "linear" \in d.depth[s.format]
           /\ ~s.linear => \A i \in DOMAIN d.depth :
                ~({"attachment", "sampled", "linear"} \subseteq d.depth[i])

\* With several clients the body is not known, but the header is ours.
HeaderIsOurs ==
    \A c \in Clients : given[c] # <<>> => Head(given[c]) = Tag(c)

\* savePipelineCache writes beside the file and moves it: unless two clients
\* saved at once, what is in place is the whole of what was last placed.
LastSaveStands ==
    cache # NoInode /\ Cardinality(writers[cache]) = 1 => content[cache] = <<last, last>>

\* The device, queues, image count and shadow format chosen fit the machine, and
\* the pipeline cache a start reads was saved for this device and driver, and is
\* whole unless two clients saved it at once, whatever was killed, refused or
\* updated in between (device.cpp 201-231, 320-439).
SetupIsRight ==
    /\ SetupTypeOK /\ PickIsFirstFit /\ SharedIfTheLastDoesBoth /\ ImageCountLegal
    /\ ShadowFormatBest /\ HeaderIsOurs /\ LastSaveStands
====
