---------------------------- MODULE VulkanBackend ----------------------------
(***************************************************************************)
(* The Vulkan backend (gfx/vulkan_backend.cpp): a device and a swapchain   *)
(* for the window of the moment, frames recorded by whoever presents, at   *)
(* most one per slot in flight, and the GPU and the compositor that finish *)
(* them later.  gpuMutex_ is held over each of onSurfaceAvailable,         *)
(* onSurfaceLost and presentInternal: the first two are one step each, the *)
(* last is several, because it waits for the GPU with the mutex held.      *)
(* The driver's calls are modelled from their use: a submission signals    *)
(* the slot's fence when it is executed, and the image it draws is shown   *)
(* after that.  The two semaphores of a slot enforce this order on the     *)
(* device and nothing reads them, so the order stands for them.            *)
(***************************************************************************)
EXTENDS Integers, Sequences

CONSTANTS
  Windows, NoWindow,  \* native windows, and none
  Sizes, NoSize,      \* what a window or a swapchain measures, and no swapchain
  Images,             \* the images of a swapchain
  Fronts, Clear,      \* the sizes of front buffers; a frame of the title or a black one
  MaxFailures,        \* bound: recordings and submissions that fail
  MaxPending          \* bound: submissions the GPU has not finished when a frame begins

ASSUME Sentinels == NoWindow \notin Windows /\ NoSize \notin Sizes /\ Clear \notin Fronts
ASSUME NoFront == NoSize \notin Fronts
ASSUME ThereAreImages == Images # {}
ASSUME FailuresBounded == MaxFailures \in Nat /\ MaxPending \in Nat

kMaxInFlight == 2
Slots == 0..(kMaxInFlight - 1)
Orphan == kMaxInFlight   \* the slot of a submission whose fence was destroyed

VARIABLES
  stage,      \* how far instance_, surface_ and device_ got
  window, surfaceValid, extent,   \* window_, surfaceValid_, extent_
  chain,      \* the size of the images of swapchain_, or NoSize
  images,     \* what each image of the swapchain is doing
  inFlight,   \* the fence of each slot
  slot,       \* frameCounter_ % kMaxInFlight
  fbSize,     \* the front buffer staging and image are made for
  phase, imageIndex, front,   \* presentInternal: its place, the image, what it presents
  queue, presents,                \* the GPU's submissions and the compositor's images, in order
  shape,      \* the size of the window, as its owner last set it
  failures

objects == <<chain, images, inFlight, surfaceValid>>
device == <<stage, window>>
gpu == <<queue, presents>>
frame == <<phase, imageIndex, front>>
displayVars == <<device, objects, extent, slot, fbSize, frame, gpu, shape, failures>>

NoImages == [i \in Images |-> "none"]
NoSync == [f \in Slots |-> "none"]

DisplayInit ==
  /\ stage = "instance" /\ window = NoWindow /\ surfaceValid = FALSE
  /\ shape \in Sizes /\ extent = NoSize /\ chain = NoSize /\ images = NoImages
  /\ inFlight = NoSync
  /\ slot = 0 /\ fbSize = NoSize
  /\ phase = "idle" /\ imageIndex = (CHOOSE i \in Images : TRUE) /\ front = Clear
  /\ queue = <<>> /\ presents = <<>> /\ failures = 0

----------------------------------------------------------------------------
(* The swapchain and what hangs on it *)

\* Mutant: fences start as vkCreateFence makes them without a flag.
CreatedUnsignaled ==
  /\ chain' = shape /\ extent' = shape /\ surfaceValid' = TRUE
  /\ inFlight' = [f \in Slots |-> "unsignaled"]
\* Everything made: fences start signaled.
Created ==
  /\ chain' = shape /\ extent' = shape /\ surfaceValid' = TRUE
  /\ inFlight' = [f \in Slots |-> "signaled"]

\* destroySwapchainObjects, as far as it is seen: nothing waits for the GPU before it.
Destroyed ==
  /\ chain' = NoSize /\ surfaceValid' = FALSE /\ images' = NoImages
  /\ inFlight' = NoSync

\* What the GPU still has to do is for objects that are no more.
Orphaned ==
  /\ queue' = [i \in DOMAIN queue |-> [queue[i] EXCEPT !.slot = Orphan]]
  /\ presents' = <<>>

\* Mutant: a failure after the swapchain was created leaves it behind.
NotCreatedLeaks ==
  /\ chain' \in {NoSize, shape} /\ extent' = shape /\ surfaceValid' = FALSE /\ images' = NoImages
  /\ inFlight' = NoSync
\* A failure before vkCreateSwapchainKHR leaves extent_; one after it has set it.
NotCreated == Destroyed /\ extent' \in {extent, shape}

CreateSwapchainObjects ==
  \/ Created /\ images' = [i \in Images |-> "free"]
  \/ NotCreated

----------------------------------------------------------------------------
(* The surface comes and goes *)

\* destroyDeviceAndInstance: with the device goes what it had to do.
AllDestroyed ==
  /\ queue' = <<>> /\ presents' = <<>> /\ fbSize' = NoSize

\* ensureInstance, ensureSurface and ensureDevice in turn, the swapchain if all went well.
Rebuild(w) ==
  /\ AllDestroyed
  /\ \/ /\ \/ stage' = "none" /\ window' = NoWindow
           \/ stage' = "instance" /\ window' = NoWindow
           \/ stage' = "surface" /\ window' = w
        /\ Destroyed /\ UNCHANGED extent
     \/ /\ stage' = "device" /\ window' = w
        /\ CreateSwapchainObjects

\* With the window it has, the backend creates the swapchain again without destroying the one it
\* may have, which the driver refuses: the window is in use.
CreateAgain ==
  /\ IF chain = NoSize THEN CreateSwapchainObjects
     ELSE extent' \in {extent, shape} /\ UNCHANGED objects
  /\ UNCHANGED <<stage, window, fbSize, gpu>>

OnSurfaceAvailable(w) ==
  /\ phase = "idle"
  /\ \/ stage = "none" /\ UNCHANGED <<device, objects, extent, fbSize, gpu>>
     \/ IF stage = "device" /\ window = w THEN CreateAgain ELSE Rebuild(w)
  /\ UNCHANGED <<slot, frame, shape, failures>>

OnSurfaceLost ==
  /\ phase = "idle" /\ stage # "none"
  /\ stage' = "none" /\ window' = NoWindow /\ Destroyed /\ AllDestroyed
  /\ UNCHANGED <<extent, slot, frame, shape, failures>>

----------------------------------------------------------------------------
(* presentInternal *)

\* ensureFrontBufferResources and the copy of the front buffer to staging: at once if the size is
\* the one the resources have.
Begin(f) ==
  /\ phase = "idle" /\ surfaceValid /\ Len(queue) <= MaxPending
  /\ front' = f
  /\ phase' = IF f \in {Clear, fbSize} THEN "fence" ELSE "resize"
  /\ UNCHANGED <<device, objects, extent, slot, fbSize, imageIndex, gpu, shape, failures>>

\* Other sizes wait for the device to be idle, and the new resources may not be had.
ResizeFront ==
  /\ phase = "resize" /\ queue = <<>>
  /\ \/ fbSize' = front /\ phase' = "fence"
     \/ fbSize' = NoSize /\ phase' = "idle"
  /\ UNCHANGED <<device, objects, extent, slot, imageIndex, front, gpu, shape, failures>>

\* Mutant: the frame is not waited for.
FrameDoneIgnored == TRUE
FrameDone == inFlight[slot] = "signaled"
WaitForFence ==
  /\ phase = "fence" /\ FrameDone
  /\ phase' = "acquire"
  /\ UNCHANGED <<device, objects, extent, slot, fbSize, imageIndex, front, gpu, shape, failures>>

RecreateSwapchain == Orphaned /\ CreateSwapchainObjects

\* vkAcquireNextImageKHR waits for an image for ever, or has the news that the window has changed,
\* whatever the backend then makes of it.
Acquire ==
  /\ phase = "acquire"
  /\ \/ /\ \E i \in Images :
             images[i] = "free" /\ imageIndex' = i /\ images' = [images EXCEPT ![i] = "acquired"]
        /\ phase' = "record"
        /\ UNCHANGED <<chain, inFlight, surfaceValid, extent, gpu>>
     \/ /\ chain # shape
        /\ imageIndex' \in Images /\ Orphaned
        /\ Created /\ images' = [i \in Images |-> IF i = imageIndex' THEN "acquired" ELSE "free"]
        /\ phase' = "record"
     \/ /\ chain # shape
        /\ RecreateSwapchain /\ phase' = "idle" /\ UNCHANGED imageIndex
  /\ UNCHANGED <<device, slot, fbSize, front, shape, failures>>

\* An error of the acquire, which nothing promises: the frame is given up.
AcquireFails ==
  /\ phase = "acquire" /\ phase' = "idle"
  /\ UNCHANGED <<device, objects, extent, slot, fbSize, imageIndex, front, gpu, shape, failures>>

\* Mutant: the fence is left as vkResetFences made it.
RecreateFenceForgotten(f) == inFlight' = [inFlight EXCEPT ![f] = "unsignaled"]
RecreateFenceSignaled(f) == inFlight' = [inFlight EXCEPT ![f] = "signaled"]

\* The fence is reset; then the recording or the submission fails, and the image stays acquired.
RecordFails ==
  /\ phase = "record" /\ failures < MaxFailures
  /\ failures' = failures + 1 /\ phase' = "idle"
  /\ RecreateFenceSignaled(slot)
  /\ UNCHANGED <<device, chain, images, surfaceValid, extent, slot,
                 fbSize, imageIndex, front, gpu, shape>>

Submit ==
  /\ phase = "record"
  /\ inFlight' = [inFlight EXCEPT ![slot] = "unsignaled"]
  /\ queue' = Append(queue, [slot |-> slot, image |-> imageIndex, copies |-> front # Clear])
  /\ phase' = "present"
  /\ UNCHANGED <<device, chain, images, surfaceValid, extent, slot, fbSize, imageIndex,
                 front, presents, shape, failures>>

NextSlot == (slot + 1) % kMaxInFlight

\* vkQueuePresentKHR; a window that has changed brings a new swapchain, or none.
Present ==
  /\ phase = "present"
  /\ phase' = "idle" /\ slot' = NextSlot
  /\ \/ /\ images' = [images EXCEPT ![imageIndex] = "queued"]
        /\ presents' = Append(presents, imageIndex)
        /\ UNCHANGED <<chain, inFlight, surfaceValid, extent, queue>>
     \/ chain # shape /\ RecreateSwapchain
  /\ UNCHANGED <<device, fbSize, imageIndex, front, shape, failures>>

Presenter == ResizeFront \/ WaitForFence \/ Acquire \/ RecordFails \/ Submit \/ Present

----------------------------------------------------------------------------
(* The GPU, the compositor and the owner of the window *)

GpuExecutes ==
  /\ queue # <<>>
  /\ queue' = Tail(queue)
  /\ LET f == Head(queue).slot IN
     /\ inFlight' = [s \in Slots |-> IF s = f THEN "signaled" ELSE inFlight[s]]
  /\ UNCHANGED <<device, chain, images, surfaceValid, extent, slot, fbSize, frame, presents, shape,
                 failures>>

\* The k-th submission draws image i of the present swapchain.
Draws(k, i) == queue[k].slot # Orphan /\ queue[k].image = i

\* The image whose rendering is finished replaces the one on the screen, which is free again.
Show ==
  /\ presents # <<>> /\ ~\E k \in 1..Len(queue) : Draws(k, Head(presents))
  /\ presents' = Tail(presents)
  /\ images' = [i \in Images |-> IF i = Head(presents) THEN "shown"
                                 ELSE IF images[i] = "shown" THEN "free" ELSE images[i]]
  /\ UNCHANGED <<device, chain, inFlight, surfaceValid, extent, slot, fbSize,
                 frame, queue, shape, failures>>

ResizeWindow ==
  /\ shape' \in Sizes \ {shape}
  /\ UNCHANGED <<device, objects, extent, slot, fbSize, frame, gpu, failures>>

DisplayNext ==
  \/ \E w \in Windows : OnSurfaceAvailable(w)
  \/ OnSurfaceLost
  \/ \E f \in Fronts \cup {Clear} : Begin(f)
  \/ Presenter \/ AcquireFails \/ GpuExecutes \/ Show \/ ResizeWindow

\* Whoever presents goes on, the GPU executes and the compositor shows what it is given.
DisplaySpec ==
  /\ DisplayInit /\ [][DisplayNext]_displayVars
  /\ WF_displayVars(Presenter) /\ WF_displayVars(GpuExecutes) /\ WF_displayVars(Show)

----------------------------------------------------------------------------
(* Properties *)

\* Types.
Submission == [slot : Slots \cup {Orphan}, image : Images, copies : BOOLEAN]
DisplayTypeOK ==
  /\ stage \in {"none", "instance", "surface", "device"}
  /\ window \in Windows \cup {NoWindow} /\ surfaceValid \in BOOLEAN
  /\ extent \in Sizes \cup {NoSize} /\ chain \in Sizes \cup {NoSize} /\ shape \in Sizes
  /\ images \in [Images -> {"none", "free", "acquired", "queued", "shown"}]
  /\ inFlight \in [Slots -> {"none", "unsignaled", "signaled"}]
  /\ slot \in Slots /\ fbSize \in Fronts \cup {NoSize}
  /\ phase \in {"idle", "resize", "fence", "acquire", "record", "present"}
  /\ imageIndex \in Images /\ front \in Fronts \cup {Clear}
  /\ queue \in Seq(Submission)
  /\ presents \in Seq(Images)
  /\ failures \in 0..MaxFailures

\* A surface is valid exactly while there is a swapchain with all its objects, on a device made for
\* the window: a creation that fails half way leaves nothing, and whoever is inside presentInternal
\* after its first test finds the swapchain there (createSwapchainObjects, destroySwapchainObjects).
SwapchainIsWhole ==
  /\ surfaceValid <=> chain # NoSize
  /\ surfaceValid => stage = "device" /\ window \in Windows /\ \A f \in Slots : inFlight[f] # "none"
  /\ phase # "idle" => surfaceValid

InQueue(f) == \E i \in 1..Len(queue) : queue[i].slot = f

\* A fence that is not signaled has a submission that will signal it, whatever failed since it was
\* reset (recreateFenceSignaled: "sem isso o proximo vkWaitForFences do slot bloquearia para sempre").
NoFenceIsStuck == \A f \in Slots : inFlight[f] = "unsignaled" => InQueue(f)

\* The GPU never holds two submissions of one slot, so at most kMaxInFlight frames of the present
\* swapchain are pending (vulkan_backend.h: "no maximo 2 frames pendentes").
OneFramePerSlot ==
  \A i, j \in 1..Len(queue) : queue[i].slot = queue[j].slot /\ queue[i].slot # Orphan => i = j

\* The backend keeps the promises of graphics_backend.h.  The liveness among them: whoever enters
\* presentInternal leaves it, so that gpuMutex_, which the UI thread needs to give up the surface,
\* is not held for ever, although presents wait for a fence and for an image with it.
Promise == INSTANCE SurfaceBackend WITH
  attached <- IF surfaceValid THEN window ELSE NoWindow, busy <- phase # "idle"
BackendPromise == Promise!Spec

=============================================================================
