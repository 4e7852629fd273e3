------------------------------ MODULE AppSession ------------------------------
(***************************************************************************)
(* One game activity and the native session it drives (native_main.cpp,    *)
(* GameActivity.java, GameSurfaceView.java, audio_output.cpp), over the    *)
(* GLES backend.  The UI thread runs one handler at a time, a sequence of  *)
(* native calls; a boot thread runs nativeBoot and then gives the surface; *)
(* the main thread's driver of frames and the command processor present.   *)
(* The title's own shutdown is TitleLifecycle's: here the main thread ends *)
(* once a stop was requested.                                              *)
(***************************************************************************)
EXTENDS Gles3Backend, Integers, Sequences

CONSTANTS
  MaxEvents,       \* bound: surfaces created, resized and pauses, in the life of the activity
  LossDuringBoot   \* the surface may be destroyed before the boot thread has given it

ThreadNames == {"ui", "boot", "driver", "cp"}
ASSUME ThreadsAreNamed == Threads = ThreadNames
ASSUME BoundIsNat == MaxEvents \in Nat
ASSUME FlagIsBoolean == LossDuringBoot \in BOOLEAN

VARIABLES
  holder,        \* Android: the window of the surface that lives
  life, events,  \* the activity: resumed, paused or destroyed; how often it was
  jbooted,       \* GameSurfaceView.booted
  pausedState,   \* GameActivity.pausedState
  ui,            \* the native calls the UI thread's handler still has to make
  boot, given,   \* the boot thread, and the surface it was created with
  booted, paused, stopRequested, gfx, window, main,   \* RuntimeState
  active,        \* g_activeBackend is set
  audio,         \* the stream: not created, created, playing or paused
  driver,        \* the driver of frames: none, looping, asleep before a frame, presenting or done
  swapped,       \* the guest has swapped, which ends the driver of frames
  held           \* the command processor has read g_activeBackend and will call it

java == <<holder, life, events, jbooted, pausedState>>
state == <<booted, paused, stopRequested, gfx, window, main, active, audio>>
frames == <<driver, swapped, held>>
vars == <<egl, java, ui, boot, given, state, frames>>

Init ==
  /\ EglInit
  /\ holder = NoWindow /\ life = "resumed" /\ events = 0 /\ jbooted = FALSE
  /\ pausedState = FALSE
  /\ ui = <<>> /\ boot = "none" /\ given = NoWindow
  /\ booted = FALSE /\ paused = FALSE /\ stopRequested = FALSE /\ gfx = FALSE
  /\ window = NoWindow /\ main = "none" /\ active = FALSE /\ audio = "none"
  /\ driver = "none" /\ swapped = FALSE /\ held = FALSE

\* lifecycleMutex: the boot thread holds it over nativeBoot, everyone else for one step.
LifecycleFree == boot # "booting"

----------------------------------------------------------------------------
(* Android's callbacks, each a handler on the UI thread *)

Set(w) == [call |-> "surface", window |-> w]
Call(c) == [call |-> c, window |-> NoWindow]

Handler(calls) ==
  /\ ui = <<>> /\ life # "destroyed" /\ events < MaxEvents
  /\ ui' = calls /\ events' = events + 1
  /\ UNCHANGED <<egl, given, state, frames>>

\* surfaceCreated and the surfaceChanged that always follows it: the first one starts the boot.
SurfaceCreated ==
  \E w \in Windows :
    /\ holder = NoWindow /\ life = "resumed"
    /\ holder' = w /\ jbooted' = TRUE
    /\ ui = <<>> /\ events < MaxEvents /\ events' = events + 1
    /\ IF jbooted THEN ui' = <<Set(w), Set(w)>> /\ UNCHANGED <<boot, given>>
       ELSE ui' = <<Set(w)>> /\ boot' = "start" /\ given' = w
    /\ UNCHANGED <<egl, life, pausedState, state, frames>>

SurfaceChanged ==
  /\ holder # NoWindow /\ Handler(<<Set(holder)>>)
  /\ UNCHANGED <<holder, life, jbooted, pausedState, boot>>

SurfaceDestroyed ==
  /\ holder # NoWindow /\ life = "paused"
  /\ LossDuringBoot \/ boot \in {"none", "done"}
  /\ Handler(<<Set(NoWindow), Call("pause")>>)
  /\ holder' = NoWindow /\ UNCHANGED <<life, jbooted, pausedState, boot>>

OnPause ==
  /\ life = "resumed" /\ Handler(<<Call("pause")>>)
  /\ life' = "paused" /\ pausedState' = TRUE /\ UNCHANGED <<holder, jbooted, boot>>

OnResume ==
  /\ life = "paused" /\ Handler(<<Call("resume")>>)
  /\ life' = "resumed" /\ pausedState' = FALSE /\ UNCHANGED <<holder, jbooted, boot>>

\* The first press pauses, a second one leaves the activity.
OnBackPressed ==
  /\ life = "resumed" /\ ~pausedState /\ Handler(<<Call("pause")>>)
  /\ pausedState' = TRUE /\ UNCHANGED <<holder, life, jbooted, boot>>

\* An activity that was left is destroyed in the end.
OnDestroy ==
  /\ life = "paused" /\ holder = NoWindow /\ ui = <<>>
  /\ life' = "destroyed" /\ ui' = <<Call("stop")>>
  /\ UNCHANGED <<egl, holder, events, jbooted, pausedState, boot, given, state, frames>>

----------------------------------------------------------------------------
(* The native calls of the UI thread *)

Calls(c) == ui # <<>> /\ Head(ui).call = c
Returns == ui' = Tail(ui)

\* The window is recorded and, if there is one and a backend, given to it.
Attach(t, w) ==
  /\ LifecycleFree
  /\ window' = w
  /\ IF w # NoWindow /\ gfx THEN OnSurfaceAvailable(t, w) ELSE UNCHANGED egl
  /\ UNCHANGED <<booted, paused, stopRequested, gfx, main, active, audio>>

NativeSetSurface ==
  /\ Calls("surface") /\ Attach("ui", Head(ui).window) /\ Returns
  /\ UNCHANGED <<java, boot, given, frames>>

NativePause ==
  /\ Calls("pause") /\ Returns
  /\ IF booted
       THEN /\ paused' = TRUE /\ OnSurfaceLost
            /\ audio' = IF audio = "playing" THEN "paused" ELSE audio
       ELSE UNCHANGED <<egl, paused, audio>>
  /\ UNCHANGED <<java, boot, given, booted, stopRequested, gfx, window, main, active, frames>>

NativeResume ==
  /\ Calls("resume") /\ Returns
  /\ IF booted THEN paused' = FALSE /\ audio' = IF audio = "paused" THEN "playing" ELSE audio
     ELSE UNCHANGED <<paused, audio>>
  /\ UNCHANGED <<egl, java, boot, given, booted, stopRequested, gfx, window, main, active, frames>>

NativeStop ==
  /\ Calls("stop") /\ LifecycleFree
  /\ IF booted THEN stopRequested' = TRUE /\ ui' = <<Call("join")>>
     ELSE Returns /\ UNCHANGED stopRequested
  /\ UNCHANGED <<egl, java, boot, given, booted, paused, gfx, window, main, active, audio, frames>>

\* The join is outside the lock.
JoinMain ==
  /\ Calls("join") /\ main = "ended"
  /\ ui' = <<Call("teardown")>>
  /\ UNCHANGED <<egl, java, boot, given, state, frames>>

\* The backend's destructor waits for eglMutex_.
Teardown ==
  /\ Calls("teardown") /\ LifecycleFree
  /\ Returns /\ window' = NoWindow /\ active' = FALSE /\ gfx' = FALSE /\ OnSurfaceLost
  /\ audio' = "none" /\ main' = "none" /\ booted' = FALSE
  /\ UNCHANGED <<java, boot, given, paused, stopRequested, frames>>

----------------------------------------------------------------------------
(* The boot thread *)

BootBegins ==
  /\ boot = "start" /\ boot' = "booting"
  /\ gfx' = TRUE /\ active' = TRUE /\ audio' = "created"
  /\ UNCHANGED <<egl, java, ui, given, booted, paused, stopRequested, window, main, frames>>

\* Mutant: a failed boot leaves the backend it created.
BootFailsHalf ==
  /\ boot = "booting" /\ boot' = "done"
  /\ active' = FALSE /\ audio' = "none"
  /\ UNCHANGED <<egl, java, ui, given, booted, paused, stopRequested, gfx, window, main, frames>>
BootFails ==
  /\ boot = "booting" /\ boot' = "done"
  /\ gfx' = FALSE /\ active' = FALSE /\ audio' = "none"
  /\ UNCHANGED <<egl, java, ui, given, booted, paused, stopRequested, window, main, frames>>

BootSucceeds ==
  /\ boot = "booting" /\ boot' = "attach"
  /\ booted' = TRUE /\ paused' = FALSE /\ stopRequested' = FALSE /\ main' = "starting"
  /\ UNCHANGED <<egl, java, ui, given, gfx, window, active, audio, frames>>

\* nativeSetSurface by the boot thread, which then ends; a surface that died may have no window.
BootAttaches ==
  /\ boot = "attach" /\ boot' = "exit"
  /\ \E w \in {given} \cup (IF holder = given THEN {} ELSE {NoWindow}) : Attach("boot", w)
  /\ UNCHANGED <<java, ui, given, frames>>

BootExits ==
  /\ boot = "exit" /\ boot' = "done"
  /\ ThreadExits("boot")
  /\ UNCHANGED <<java, ui, given, state, frames>>

----------------------------------------------------------------------------
(* The main thread and the command processor *)

\* PpcRuntime::run starts the audio stream, which may fail, whatever paused says; then the driver
\* of frames.
AudioStarts ==
  /\ main = "starting" /\ main' = "running" /\ driver' = "looping"
  /\ audio' \in {"created", "playing", "paused"}
  /\ UNCHANGED <<egl, java, ui, boot, given, booted, paused, stopRequested, gfx, window, active,
                 swapped, held>>

\* The title ends by itself or because a stop was requested: guestActive becomes false.
GuestEnds ==
  /\ main = "running" /\ main' = "over"
  /\ UNCHANGED <<egl, java, ui, boot, given, booted, paused, stopRequested, gfx, window, active,
                 audio, frames>>
GuestStops == stopRequested /\ GuestEnds

\* Mutant: the driver of frames waits for the guest's first swap alone.
DriverDoneBySwap == swapped
DriverDone == stopRequested \/ main # "running" \/ swapped
DriverTests ==
  /\ driver = "looping"
  /\ IF DriverDone THEN driver' = "done" /\ ThreadExits("driver")
     ELSE driver' = "asleep" /\ UNCHANGED egl
  /\ UNCHANGED <<java, ui, boot, given, state, swapped, held>>

\* The frame after the sleep, which does not look at the flags again.
DriverPresents ==
  /\ driver = "asleep"
  /\ \/ BeginPresent("driver") /\ driver' = "presenting"
     \/ CannotPresent("driver") /\ driver' = "looping"
  /\ UNCHANGED <<java, ui, boot, given, state, swapped, held>>

\* run joins the driver and returns.
MainEnds ==
  /\ main = "over" /\ driver = "done"
  /\ main' = "ended" /\ driver' = "none"
  /\ UNCHANGED <<egl, java, ui, boot, given, booted, paused, stopRequested, gfx, window, active,
                 audio, swapped, held>>

\* A swap of the guest's is executed by the command processor, whose thread outlives the main
\* thread: it reads g_activeBackend and then calls the backend.
CpLoadsBackend ==
  /\ main \in {"running", "over"} \/ swapped
  /\ active /\ ~held
  /\ held' = TRUE /\ swapped' = TRUE
  /\ UNCHANGED <<egl, java, ui, boot, given, state, driver>>

CpPresents ==
  /\ held /\ gfx
  /\ \/ BeginPresent("cp") /\ UNCHANGED held
     \/ CannotPresent("cp") /\ held' = FALSE
  /\ UNCHANGED <<java, ui, boot, given, state, driver, swapped>>

PresentEnds ==
  /\ \/ EndPresent("driver") /\ driver' = "looping" /\ UNCHANGED held
     \/ EndPresent("cp") /\ held' = FALSE /\ UNCHANGED driver
  /\ UNCHANGED <<java, ui, boot, given, state, swapped>>

Native ==
  \/ NativeSetSurface \/ NativePause \/ NativeResume \/ NativeStop \/ JoinMain \/ Teardown
Runtime == AudioStarts \/ GuestStops \/ DriverTests \/ MainEnds
BootThread == BootBegins \/ BootFails \/ BootSucceeds \/ BootAttaches \/ BootExits

Next ==
  \/ SurfaceCreated \/ SurfaceChanged \/ SurfaceDestroyed \/ OnPause \/ OnResume
  \/ OnBackPressed \/ OnDestroy
  \/ Native \/ BootThread \/ Runtime \/ GuestEnds \/ DriverPresents \/ CpLoadsBackend \/ CpPresents \/ PresentEnds

\* Every thread is scheduled; a boot ends, and a frame is shown in the end.
Spec ==
  /\ Init /\ [][Next]_vars
  /\ SF_vars(Native) /\ WF_vars(BootThread) /\ WF_vars(Runtime) /\ WF_vars(PresentEnds)
  /\ SF_vars(DriverPresents) /\ WF_vars(CpPresents)

----------------------------------------------------------------------------
(* Properties *)

\* The types of the session, and of the session with its backend.
SessionTypeOK ==
  /\ {holder, window, given} \subseteq Windows \cup {NoWindow}
  /\ life \in {"resumed", "paused", "destroyed"} /\ events \in 0..MaxEvents
  /\ {jbooted, pausedState, booted, paused, stopRequested, gfx, active, swapped, held} \subseteq BOOLEAN
  /\ boot \in {"none", "start", "booting", "attach", "exit", "done"}
  /\ main \in {"none", "starting", "running", "over", "ended"}
  /\ driver \in {"none", "looping", "asleep", "presenting", "done"}
  /\ audio \in {"none", "created", "playing", "paused"}

\* The variables of the session and of its backend keep their types.
TypeOK == EglTypeOK /\ SessionTypeOK

\* Whoever has lifecycleMutex finds a session with all its parts or none of them, also after a
\* boot that failed half way (nativeBoot, nativeStop).
SessionIsWhole ==
  LifecycleFree =>
    /\ booted <=> gfx
    /\ booted <=> audio # "none"
    /\ booted <=> main # "none"
    /\ active <=> gfx

\* When no handler runs, the backend presents to the surface that lives, if to any
\* (GameSurfaceView.surfaceDestroyed: the runtime lets go of the surface before it dies).
AttachedIsAlive == ui = <<>> => Attached \in {holder, NoWindow}

\* Every handler of the UI thread returns: nobody keeps a mutex it needs, and what a stop joins ends.
HandlersReturn == ui # <<>> ~> ui = <<>>

\* The backend keeps the promises of graphics_backend.h.
Promise == INSTANCE SurfaceBackend WITH attached <- Attached, busy <- user # NoThread
BackendPromise == Promise!Spec

=============================================================================
