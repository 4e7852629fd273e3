----------------------------- MODULE Gles3Backend -----------------------------
(***************************************************************************)
(* The fallback backend (gfx/gles3_backend.cpp): one EGL display and       *)
(* context, a surface for the window of the moment, and threads that adopt *)
(* the context to present.  eglMutex_ is held over each operation; a       *)
(* present is two steps, since eglSwapBuffers waits for the compositor.    *)
(* EGL is modelled from its use: a context is current in one thread at     *)
(* most, and only that thread can release it.                              *)
(***************************************************************************)
CONSTANTS Windows, NoWindow, Threads, NoThread

ASSUME Sentinels == NoWindow \notin Windows /\ NoThread \notin Threads

VARIABLES
  context,       \* display_ and context_ exist
  surface,       \* the window surface_ is made for
  contextAlive,  \* contextAlive_
  current,       \* the thread the context is current in
  bound,         \* the window of the surface current in that thread
  user           \* the thread inside presentFrontBuffer or present, which holds eglMutex_

egl == <<context, surface, contextAlive, current, bound, user>>

EglInit ==
  /\ context = FALSE /\ surface = NoWindow /\ contextAlive = FALSE
  /\ current = NoThread /\ bound = NoWindow /\ user = NoThread

\* eglMakeCurrent by thread t fails if the context is current elsewhere.
CanMakeCurrent(t) == current \in {t, NoThread}
MakeCurrent(t, w) == current' = t /\ bound' = w

\* makeWindowSurface: the context if there is none, a new surface, and the caller adopts both.
OnSurfaceAvailable(t, w) ==
  /\ user = NoThread
  /\ \/ ~context /\ context' \in BOOLEAN /\ UNCHANGED <<surface, contextAlive, current, bound>>
     \/ context' = TRUE /\ surface' = NoWindow /\ UNCHANGED <<contextAlive, current, bound>>
     \/ /\ context' = TRUE /\ surface' = w
        /\ IF CanMakeCurrent(t) THEN MakeCurrent(t, w) /\ contextAlive' = TRUE
           ELSE UNCHANGED <<contextAlive, current, bound>>
  /\ UNCHANGED user

\* Mutant: the surface outlives the context.
OnSurfaceLostKept ==
  /\ user = NoThread
  /\ context' = FALSE /\ current' = NoThread /\ bound' = NoWindow
  /\ UNCHANGED <<surface, contextAlive, user>>
\* Mutant: without eglMutex_.
OnSurfaceLostUnlocked ==
  /\ context' = FALSE /\ surface' = NoWindow /\ contextAlive' = FALSE
  /\ current' = NoThread /\ bound' = NoWindow
  /\ UNCHANGED user
\* onSurfaceLost, also of the destructor: everything goes.
OnSurfaceLost ==
  /\ user = NoThread
  /\ context' = FALSE /\ surface' = NoWindow /\ contextAlive' = FALSE
  /\ current' = NoThread /\ bound' = NoWindow
  /\ UNCHANGED user

\* presentFrontBuffer and present by thread t: it adopts the context unless it has it.
Presentable == contextAlive /\ surface # NoWindow
BeginPresent(t) ==
  /\ user = NoThread /\ Presentable /\ CanMakeCurrent(t)
  /\ user' = t
  /\ IF current = t THEN UNCHANGED <<current, bound>> ELSE MakeCurrent(t, surface)
  /\ UNCHANGED <<context, surface, contextAlive>>

\* Without a surface, or with the context current in another thread, a present returns at once.
CannotPresent(t) == user = NoThread /\ ~(Presentable /\ CanMakeCurrent(t)) /\ UNCHANGED egl

\* eglSwapBuffers: the context, or the window, may be lost.
EndPresent(t) ==
  /\ user = t
  /\ user' = NoThread /\ contextAlive' \in BOOLEAN
  /\ UNCHANGED <<context, surface, current, bound>>

\* A thread that ends gives the context back.
ThreadExits(t) ==
  /\ IF current = t THEN current' = NoThread /\ bound' = NoWindow ELSE UNCHANGED <<current, bound>>
  /\ UNCHANGED <<context, surface, contextAlive, user>>

----------------------------------------------------------------------------
EglTypeOK ==
  /\ context \in BOOLEAN /\ contextAlive \in BOOLEAN
  /\ surface \in Windows \cup {NoWindow} /\ bound \in Windows \cup {NoWindow}
  /\ current \in Threads \cup {NoThread} /\ user \in Threads \cup {NoThread}

Attached == IF contextAlive THEN surface ELSE NoWindow
=============================================================================
