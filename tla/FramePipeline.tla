---- MODULE FramePipeline ----
(***************************************************************************)
(* The client's frame loop against the window, the swapchain and the GPU:  *)
(* Renderer, Swapchain, the window's resize flag and ImGui's frame.        *)
(*                                                                         *)
(* A loop turn updates the window (which notices a new size), opens an     *)
(* ImGui frame, acquires an image, records, submits and presents.  At most *)
(* MaxFramesInFlight submissions are pending; each turn waits for the      *)
(* fence of its own slot.  The model buffers (one per mesh) are not per    *)
(* slot: recording a frame overwrites what pending frames still read.      *)
(* When the surface is out of date at the acquire the turn is dropped.     *)
(*                                                                         *)
(* Sizes are tokens; the driver may or may not report a swapchain whose    *)
(* extent is not the window's.                                             *)
(***************************************************************************)
EXTENDS Naturals, Sequences, FiniteSets, SequencesExt

CONSTANTS
    MaxFramesInFlight, \* base::MAX_FRAMES_IN_FLIGHT
    Images,            \* swapchain images
    Sizes,             \* window sizes
    ResizeBound        \* bound on the times the user resizes

ASSUME PipelineAssumption ==
    /\ MaxFramesInFlight \in Nat \ {0} /\ ResizeBound \in Nat
    /\ Cardinality(Images) > MaxFramesInFlight /\ Sizes # {}

VARIABLES
    real,     \* the window's size, as the system knows it
    events,   \* an event waits in the system's queue
    open,     \* ~m_shouldClose, as far as the system knows
    resizes,  \* resizes so far
    size,     \* m_fbWidth, m_fbHeight
    resized,  \* m_resized
    closing,  \* m_shouldClose
    ui,       \* ImGui: "begun" after NewFrame, "ended" after Render
    pc,       \* the main thread
    extent,   \* m_swapchainExtent
    gen,      \* generation of the swapchain (mod 2: it is only compared)
    frame,    \* m_currentFrameIndex
    image,    \* m_currentImageIndex
    fence,    \* slot -> m_inFlightFences signalled
    inFlight, \* image -> slot whose fence guards it (m_imagesInFlight)
    gpu       \* submitted batches in order: [frame, image, gen, ahead, touched]

window == <<real, events, open, resizes>>
cpu == <<size, resized, closing, ui>>
chain == <<extent, gen, frame, image, fence, inFlight>>
vars == <<window, cpu, pc, chain, gpu>>

Slots == 0..(MaxFramesInFlight - 1)
None == MaxFramesInFlight

NewSync == /\ fence' = [f \in Slots |-> TRUE]
           /\ inFlight' = [i \in Images |-> None]

Init ==
    /\ real \in Sizes /\ events = FALSE /\ open = TRUE /\ resizes = 0
    /\ size = real /\ resized = FALSE /\ closing = FALSE /\ ui = "ended"
    /\ pc = "update" /\ extent = real /\ gen = 0
    /\ frame = 0 /\ image \in Images /\ gpu = <<>>
    /\ fence = [f \in Slots |-> TRUE] /\ inFlight = [i \in Images |-> None]

----------------------------------------------------------------------------
(* The user and the GPU *)

Resize == /\ resizes < ResizeBound /\ resizes' = resizes + 1
          /\ \E s \in Sizes \ {real} : real' = s
          /\ events' = TRUE
          /\ UNCHANGED <<open, cpu, pc, chain, gpu>>

MouseMoves == /\ ~events /\ events' = TRUE
              /\ UNCHANGED <<real, open, resizes, cpu, pc, chain, gpu>>

Close == /\ open /\ open' = FALSE /\ events' = TRUE
         /\ UNCHANGED <<real, resizes, cpu, pc, chain, gpu>>

GpuFinishes ==
    /\ gpu # <<>>
    /\ fence' = [fence EXCEPT ![Head(gpu).frame] = TRUE]
    /\ gpu' = Tail(gpu)
    /\ UNCHANGED <<window, cpu, pc, extent, gen, frame, image, inFlight>>

----------------------------------------------------------------------------
(* Window *)

\* Window::update: the queue is emptied and the size compared with the last one.
\* Defect: once set, the flag stays.
StickyResized == resized \/ real # size
ResizedNow == real # size
UpdateWindow == /\ events' = FALSE /\ size' = real
                /\ resized' = ResizedNow
                /\ closing' = (closing \/ ~open)
                /\ UNCHANGED <<real, open, resizes>>

----------------------------------------------------------------------------
(* One turn of GameClient::run *)

NewImguiFrame == ui' = "begun"
RenderImgui == ui' = "ended"

Update ==
    /\ pc = "update" /\ ~closing
    /\ UpdateWindow
    /\ NewImguiFrame
    /\ pc' = "acquire"
    /\ UNCHANGED <<chain, gpu>>

\* The loop ends; waitIdle.
Leave ==
    /\ pc = "update" /\ closing /\ gpu = <<>>
    /\ pc' = "left"
    /\ UNCHANGED <<window, cpu, chain, gpu>>

\* Defect: the fence is not waited for.
NoWait == TRUE
FenceWaited == fence[frame]

Free(i) == \A b \in Range(gpu) : b.image # i

AcquireImage ==
    /\ pc = "acquire" /\ FenceWaited
    /\ \E i \in Images : Free(i) /\ image' = i
    /\ pc' = "record"
    /\ UNCHANGED <<window, cpu, extent, gen, frame, fence, inFlight, gpu>>

AcquireOutOfDate ==
    /\ pc = "acquire" /\ FenceWaited /\ extent # real
    /\ pc' = "recreate"
    /\ UNCHANGED <<window, cpu, chain, gpu>>

\* The command buffer of the slot is reset, its shadow uniform rewritten, the
\* shared model buffers overwritten, the ImGui frame rendered.
Overwritten(b) == [b EXCEPT !.ahead = @ + 1, !.touched = @ \/ b.frame = frame]
Record ==
    /\ pc = "record"
    /\ RenderImgui
    /\ gpu' = [j \in DOMAIN gpu |-> Overwritten(gpu[j])]
    /\ pc' = "submit"
    /\ UNCHANGED <<window, size, resized, closing, chain>>

Batch == [frame |-> frame, image |-> image, gen |-> gen, ahead |-> 0, touched |-> FALSE]

NextFrame == (frame + 1) % MaxFramesInFlight

Outdated(reported) == reported \/ resized

\* endFrame: submit, present, and a new swapchain when it is due.
Submit ==
    /\ pc = "submit"
    /\ inFlight[image] # None => fence[inFlight[image]]
    /\ inFlight' = [inFlight EXCEPT ![image] = frame]
    /\ fence' = [fence EXCEPT ![frame] = FALSE]
    /\ gpu' = Append(gpu, Batch)
    /\ \E reported \in {FALSE, extent # real} :
         IF Outdated(reported) THEN resized' = FALSE /\ pc' = "recreate"
         ELSE resized' = resized /\ pc' = "update"
    /\ frame' = NextFrame
    /\ UNCHANGED <<window, size, closing, ui, extent, gen, image>>

\* recreateSwapchain first waits, event by event, until the size is stable; the
\* events it takes from the queue reach neither ImGui nor the controller.
AwaitStableSize ==
    /\ pc = "recreate" /\ resized /\ events
    /\ UpdateWindow
    /\ UNCHANGED <<ui, pc, chain, gpu>>

DeviceIdle == gpu = <<>>

\* The surface dictates the extent, or leaves it to the window.
RecreateSwapchain ==
    /\ pc = "recreate" /\ ~resized /\ DeviceIdle
    /\ extent' \in {real, size}
    /\ gen' = 1 - gen
    /\ NewSync
    /\ pc' = "update"
    /\ UNCHANGED <<window, cpu, frame, image, gpu>>

MainThread == \/ Update \/ Leave \/ AcquireImage \/ AcquireOutOfDate \/ Record
              \/ Submit \/ AwaitStableSize \/ RecreateSwapchain

Next == MainThread \/ GpuFinishes \/ Resize \/ MouseMoves \/ Close

Spec == Init /\ [][Next]_vars

\* A driver that is presented a swapchain of the wrong size time and again
\* reports it: the window alone misses a size that went and came back.
DriverReports == Submit /\ extent # real /\ pc' = "recreate"

\* The loop runs, the GPU finishes what it was given, and events keep coming:
\* the loop that awaits a stable size sleeps in SDL_WaitEvent.
Fairness == /\ WF_vars(MainThread) /\ WF_vars(GpuFinishes) /\ WF_vars(MouseMoves)
            /\ SF_vars(DriverReports)

----------------------------------------------------------------------------
(* Properties *)

\* Every variable keeps its type; the GPU never holds more batches than slots.
TypeOK ==
    /\ real \in Sizes /\ size \in Sizes /\ extent \in Sizes
    /\ events \in BOOLEAN /\ open \in BOOLEAN /\ resized \in BOOLEAN /\ closing \in BOOLEAN
    /\ resizes \in 0..ResizeBound /\ ui \in {"begun", "ended"}
    /\ pc \in {"update", "acquire", "record", "submit", "recreate", "left"}
    /\ gen \in {0, 1} /\ frame \in Slots /\ image \in Images
    /\ fence \in [Slots -> BOOLEAN] /\ inFlight \in [Images -> Slots \cup {None}]
    /\ Len(gpu) <= MaxFramesInFlight

\* While the GPU works on a batch nothing of its slot is rewritten: neither its
\* command buffer nor its shadow uniform.
SlotUntouched == \A b \in Range(gpu) : ~b.touched

\* The shared model buffers run ahead of a pending batch by less than the
\* number of slots: a frame may show positions of the next one, no later.
InstancesSlightlyAhead == \A b \in Range(gpu) : b.ahead < MaxFramesInFlight

\* No pending batch draws into an image of a destroyed swapchain, and no two
\* draw into the same image.
ImagesOfThisSwapchain ==
    /\ \A b \in Range(gpu) : b.gen = gen
    /\ \A j, k \in DOMAIN gpu : j # k => gpu[j].image # gpu[k].image

(* Pending frames are apart: each has its slot's buffers and an image of the
   present swapchain to itself, and the buffers frames share are ahead of it by
   less than the number of slots (renderer.cpp, swapchain.cpp, model.cpp). *)
FramesApart == TypeOK /\ SlotUntouched /\ ImagesOfThisSwapchain /\ InstancesSlightlyAhead

\* ImGui's own assertion in NewFrame: the previous frame was rendered.
RenderedBeforeNewFrame == [][pc = "update" /\ pc' = "acquire" => ui = "ended"]_vars

\* Frames go on until the window closes, whatever the driver reports.
FramesGoOn == []<>(pc = "submit" \/ closing)

\* The swapchain ends with the size of the window.
ExtentSettles == <>[](extent = real \/ closing)

\* A closed window ends the loop with the GPU idle.
CloseEnds == ~open ~> pc = "left" /\ gpu = <<>>
====
