-------------------------- MODULE AppSessionProofs --------------------------
(***************************************************************************)
(* Proofs about AppSession: a session is whole or absent, the backend      *)
(* presents to the surface that lives, and it keeps the safety part of its *)
(* interface's promise.  Liveness (HandlersReturn, that a present ends) is *)
(* left to TLC.                                                            *)
(***************************************************************************)
EXTENDS AppSession, TLAPS

(***************************************************************************)
(* What a handler of the UI thread still has to do is the rest of one of   *)
(* these: the surface that it gives is the one that lives, or none.        *)
(***************************************************************************)
Letting == {<<Set(NoWindow), Call("pause")>>, <<Call("pause")>>}
Giving  == {<<Set(holder)>>, <<Set(holder), Set(holder)>>}
Others  == {<<>>, <<Call("resume")>>, <<Call("stop")>>, <<Call("join")>>, <<Call("teardown")>>}
Script  == ui \in Letting \union Giving \union Others

\* Head and tail of a handler that is at a call of the surface's, and at any other.
LEMMA AtSurface ==
  ASSUME Script, Calls("surface")
  PROVE  \/ /\ ui \in Giving /\ Head(ui).window = holder
            /\ Tail(ui) \in {<<>>, <<Set(holder)>>} /\ ui \notin Letting
         \/ /\ ui \in Letting /\ Head(ui).window = NoWindow
            /\ Tail(ui) = <<Call("pause")>>
<1>0. Set(holder) # Call("pause")
  BY DEF Set, Call
<1>1. CASE ui = <<Set(holder)>>
  BY <1>0, <1>1 DEF Giving, Letting, Set
<1>2. CASE ui = <<Set(holder), Set(holder)>>
  BY <1>0, <1>2 DEF Giving, Letting, Set
<1>3. CASE ui = <<Set(NoWindow), Call("pause")>>
  BY <1>3 DEF Letting, Set, Call
<1>4. ASSUME NEW c \in {"pause", "resume", "stop", "join", "teardown"} PROVE ui # <<Call(c)>>
  BY <1>4 DEF Calls, Call
<1>5. ui # <<>>
  BY DEF Calls
<1> QED
  BY <1>1, <1>2, <1>3, <1>4, <1>5 DEF Script, Giving, Letting, Others

LEMMA AtCall ==
  ASSUME Script, NEW c, c # "surface", Calls(c)
  PROVE  ui = <<Call(c)>> /\ Tail(ui) = <<>>
<1>1. ui # <<>> /\ Head(ui).call = c
  BY DEF Calls
<1>2. \A w : /\ ui # <<Set(w)>> /\ ui # <<Set(w), Set(w)>>
            /\ ui # <<Set(w), Call("pause")>>
  BY <1>1 DEF Set
<1>3. ASSUME NEW d, ui = <<Call(d)>> PROVE ui = <<Call(c)>> /\ Tail(ui) = <<>>
  BY <1>1, <1>3 DEF Call
<1> QED
  BY <1>1, <1>2, <1>3 DEF Script, Giving, Letting, Others

(***************************************************************************)
(* The parts of a session come and go together, but for the backend and    *)
(* the stream, which exist while the boot thread is inside nativeBoot; and *)
(* that happens once, before there is a session.                           *)
(***************************************************************************)
Whole ==
  /\ boot = "booting" => gfx /\ active /\ audio # "none"
  /\ boot \in {"none", "start", "booting"} => ~booted
  /\ ~jbooted => boot = "none"
  /\ booted <=> main # "none"
  /\ SessionIsWhole

\* Without a backend, or while it is being created, no surface is attached.
Detached == ~gfx \/ boot = "booting" => ~contextAlive
\* The context is not lost under a present.
Egl == EglTypeOK /\ (user # NoThread => contextAlive)
Types == Egl /\ SessionTypeOK /\ Script
IInv == Types /\ Whole /\ Detached

\* What is attached is the surface that lives, unless the handler that lets go of it runs; and
\* the surface the boot thread gives is still that one.
Alive ==
  /\ Attached \in {holder, NoWindow} \/ ui \in Letting
  /\ boot \in {"start", "booting", "attach"} => given = holder /\ given # NoWindow

-----------------------------------------------------------------------------
\* What the operations of the backend keep: the types, that nothing is lost under a present, and
\* that what is attached is what it was, what is given, or nothing.
LEMMA AvailableKeeps ==
  ASSUME Egl, NEW t \in Threads, NEW w \in Windows, OnSurfaceAvailable(t, w)
  PROVE  Egl' /\ Attached' \in {Attached, w, NoWindow}
<1> USE DEF OnSurfaceAvailable, CanMakeCurrent, MakeCurrent, Egl, EglTypeOK, Attached
<1>1. CASE UNCHANGED <<surface, contextAlive, current, bound>> /\ context' \in BOOLEAN
  BY <1>1
<1>2. CASE /\ surface' = NoWindow /\ UNCHANGED <<contextAlive, current, bound>>
           /\ context' = TRUE
  BY <1>2
<1>3. CASE surface' = w /\ context' = TRUE
  BY <1>3
<1> QED
  BY <1>1, <1>2, <1>3

LEMMA LostKeeps ==
  ASSUME Egl, OnSurfaceLost
  PROVE  Egl' /\ Attached' = NoWindow /\ ~contextAlive'
  BY DEF OnSurfaceLost, Egl, EglTypeOK, Attached

LEMMA BeginKeeps ==
  ASSUME Egl, NEW t \in Threads, BeginPresent(t)
  PROVE  Egl' /\ Attached' = Attached /\ contextAlive' = contextAlive /\ contextAlive
  BY DEF BeginPresent, Presentable, CanMakeCurrent, MakeCurrent, Egl, EglTypeOK, Attached

LEMMA EndKeeps ==
  ASSUME Egl, NEW t \in Threads, EndPresent(t)
  PROVE  Egl' /\ Attached' \in {Attached, NoWindow} /\ contextAlive
  BY Sentinels DEF EndPresent, Egl, EglTypeOK, Attached

LEMMA ExitKeeps ==
  ASSUME Egl, NEW t, ThreadExits(t)
  PROVE  Egl' /\ Attached' = Attached /\ contextAlive' = contextAlive
  BY DEF ThreadExits, Egl, EglTypeOK, Attached

LEMMA SameKeeps ==
  ASSUME Egl, UNCHANGED egl
  PROVE  Egl' /\ Attached' = Attached /\ contextAlive' = contextAlive
  BY DEF egl, Egl, EglTypeOK, Attached

-----------------------------------------------------------------------------
\* Every action keeps the parts of a session together.
LEMMA WholeStep ==
  ASSUME IInv, Next
  PROVE  Whole'
  <1> USE DEF IInv, Types, TypeOK, SessionTypeOK, Whole, SessionIsWhole,
          LifecycleFree, java, state, frames
  <1>1. ASSUME SurfaceCreated PROVE Whole'
    BY <1>1 DEF SurfaceCreated
  <1>2. ASSUME SurfaceChanged PROVE Whole'
    BY <1>2 DEF SurfaceChanged, Handler
  <1>3. ASSUME SurfaceDestroyed PROVE Whole'
    BY <1>3 DEF SurfaceDestroyed, Handler
  <1>4. ASSUME OnPause PROVE Whole'
    BY <1>4 DEF OnPause, Handler
  <1>5. ASSUME OnResume PROVE Whole'
    BY <1>5 DEF OnResume, Handler
  <1>6. ASSUME OnBackPressed PROVE Whole'
    BY <1>6 DEF OnBackPressed, Handler
  <1>7. ASSUME OnDestroy PROVE Whole'
    BY <1>7 DEF OnDestroy
  <1>8. ASSUME NativeSetSurface PROVE Whole'
    BY <1>8 DEF NativeSetSurface, Attach, Calls, Returns
  <1>9. ASSUME NativePause PROVE Whole'
    BY <1>9 DEF NativePause, Calls, Returns
  <1>10. ASSUME NativeResume PROVE Whole'
    BY <1>10 DEF NativeResume, Calls, Returns
  <1>11. ASSUME NativeStop PROVE Whole'
    BY <1>11 DEF NativeStop, Calls, Returns
  <1>12. ASSUME JoinMain PROVE Whole'
    BY <1>12 DEF JoinMain, Calls
  <1>13. ASSUME Teardown PROVE Whole'
    BY <1>13 DEF Teardown, Calls, Returns
  <1>14. ASSUME BootBegins PROVE Whole'
    BY <1>14 DEF BootBegins
  <1>15. ASSUME BootFails PROVE Whole'
    BY <1>15 DEF BootFails
  <1>16. ASSUME BootSucceeds PROVE Whole'
    BY <1>16 DEF BootSucceeds
  <1>17. ASSUME BootAttaches PROVE Whole'
    BY <1>17 DEF BootAttaches, Attach
  <1>18. ASSUME BootExits PROVE Whole'
    BY <1>18 DEF BootExits
  <1>19. ASSUME AudioStarts PROVE Whole'
    BY <1>19 DEF AudioStarts
  <1>20. ASSUME GuestEnds PROVE Whole'
    BY <1>20 DEF GuestEnds
  <1>21. ASSUME DriverTests PROVE Whole'
    BY <1>21 DEF DriverTests
  <1>22. ASSUME DriverPresents PROVE Whole'
    BY <1>22 DEF DriverPresents
  <1>23. ASSUME MainEnds PROVE Whole'
    BY <1>23 DEF MainEnds
  <1>24. ASSUME CpLoadsBackend PROVE Whole'
    BY <1>24 DEF CpLoadsBackend
  <1>25. ASSUME CpPresents PROVE Whole'
    BY <1>25 DEF CpPresents
  <1>26. ASSUME PresentEnds PROVE Whole'
    BY <1>26 DEF PresentEnds
  <1> QED
    BY <1>1, <1>2, <1>3, <1>4, <1>5, <1>6, <1>7, <1>8, <1>9, <1>10, <1>11, <1>12, <1>13,
       <1>14, <1>15, <1>16, <1>17, <1>18, <1>19, <1>20, <1>21, <1>22, <1>23, <1>24, <1>25, <1>26
    DEF Next, Native, Runtime, BootThread, GuestStops

\* Every action leaves the UI thread with the rest of a script.
LEMMA ScriptStep ==
  ASSUME Script, Next
  PROVE  Script'
  <1> USE DEF java
  <1>1. ASSUME SurfaceCreated PROVE Script'
    BY <1>1 DEF SurfaceCreated, Script, Letting, Giving, Others, Set, Call
  <1>2. ASSUME SurfaceChanged PROVE Script'
    BY <1>2 DEF SurfaceChanged, Handler, Script, Letting, Giving, Others, Set, Call
  <1>3. ASSUME SurfaceDestroyed PROVE Script'
    BY <1>3 DEF SurfaceDestroyed, Handler, Script, Letting, Giving, Others, Set, Call
  <1>4. ASSUME OnPause PROVE Script'
    BY <1>4 DEF OnPause, Handler, Script, Letting, Giving, Others, Set, Call
  <1>5. ASSUME OnResume PROVE Script'
    BY <1>5 DEF OnResume, Handler, Script, Letting, Giving, Others, Set, Call
  <1>6. ASSUME OnBackPressed PROVE Script'
    BY <1>6 DEF OnBackPressed, Handler, Script, Letting, Giving, Others, Set, Call
  <1>7. ASSUME OnDestroy PROVE Script'
    BY <1>7 DEF OnDestroy, Script, Letting, Giving, Others, Set, Call
  <1>8. ASSUME NativeSetSurface PROVE Script'
    <2>1. holder' = holder /\ ui' = Tail(ui) /\ Calls("surface")
      BY <1>8 DEF NativeSetSurface, Returns, java
    <2> QED
      BY <2>1, AtSurface DEF Script, Letting, Giving, Others, Set
  <1>9. ASSUME NativePause PROVE Script'
    <2>1. holder' = holder /\ Calls("pause") /\ (ui' = Tail(ui))
      BY <1>9 DEF NativePause, Returns, java
    <2> QED
      BY <2>1, AtCall DEF Script, Letting, Giving, Others, Set, Call
  <1>10. ASSUME NativeResume PROVE Script'
    <2>1. holder' = holder /\ Calls("resume") /\ (ui' = Tail(ui))
      BY <1>10 DEF NativeResume, Returns, java
    <2> QED
      BY <2>1, AtCall DEF Script, Letting, Giving, Others, Set, Call
  <1>11. ASSUME NativeStop PROVE Script'
    <2>1. holder' = holder /\ Calls("stop") /\ (ui' = Tail(ui) \/ ui' = <<Call("join")>>)
      BY <1>11 DEF NativeStop, Returns, java
    <2> QED
      BY <2>1, AtCall DEF Script, Letting, Giving, Others, Set, Call
  <1>12. ASSUME JoinMain PROVE Script'
    <2>1. holder' = holder /\ Calls("join") /\ (ui' = <<Call("teardown")>>)
      BY <1>12 DEF JoinMain, Returns, java
    <2> QED
      BY <2>1, AtCall DEF Script, Letting, Giving, Others, Set, Call
  <1>13. ASSUME Teardown PROVE Script'
    <2>1. holder' = holder /\ Calls("teardown") /\ (ui' = Tail(ui))
      BY <1>13 DEF Teardown, Returns, java
    <2> QED
      BY <2>1, AtCall DEF Script, Letting, Giving, Others, Set, Call
  <1>14. ASSUME BootBegins PROVE Script'
    <2>1. UNCHANGED <<ui, holder>>
      BY <1>14 DEF BootBegins
    <2> QED
      BY <2>1 DEF Script, Letting, Giving, Others, Set
  <1>15. ASSUME BootFails PROVE Script'
    <2>1. UNCHANGED <<ui, holder>>
      BY <1>15 DEF BootFails
    <2> QED
      BY <2>1 DEF Script, Letting, Giving, Others, Set
  <1>16. ASSUME BootSucceeds PROVE Script'
    <2>1. UNCHANGED <<ui, holder>>
      BY <1>16 DEF BootSucceeds
    <2> QED
      BY <2>1 DEF Script, Letting, Giving, Others, Set
  <1>17. ASSUME BootAttaches PROVE Script'
    <2>1. UNCHANGED <<ui, holder>>
      BY <1>17 DEF BootAttaches, Attach
    <2> QED
      BY <2>1 DEF Script, Letting, Giving, Others, Set
  <1>18. ASSUME BootExits PROVE Script'
    <2>1. UNCHANGED <<ui, holder>>
      BY <1>18 DEF BootExits
    <2> QED
      BY <2>1 DEF Script, Letting, Giving, Others, Set
  <1>19. ASSUME AudioStarts PROVE Script'
    <2>1. UNCHANGED <<ui, holder>>
      BY <1>19 DEF AudioStarts
    <2> QED
      BY <2>1 DEF Script, Letting, Giving, Others, Set
  <1>20. ASSUME GuestEnds PROVE Script'
    <2>1. UNCHANGED <<ui, holder>>
      BY <1>20 DEF GuestEnds
    <2> QED
      BY <2>1 DEF Script, Letting, Giving, Others, Set
  <1>21. ASSUME DriverTests PROVE Script'
    <2>1. UNCHANGED <<ui, holder>>
      BY <1>21 DEF DriverTests
    <2> QED
      BY <2>1 DEF Script, Letting, Giving, Others, Set
  <1>22. ASSUME DriverPresents PROVE Script'
    <2>1. UNCHANGED <<ui, holder>>
      BY <1>22 DEF DriverPresents
    <2> QED
      BY <2>1 DEF Script, Letting, Giving, Others, Set
  <1>23. ASSUME MainEnds PROVE Script'
    <2>1. UNCHANGED <<ui, holder>>
      BY <1>23 DEF MainEnds
    <2> QED
      BY <2>1 DEF Script, Letting, Giving, Others, Set
  <1>24. ASSUME CpLoadsBackend PROVE Script'
    <2>1. UNCHANGED <<ui, holder>>
      BY <1>24 DEF CpLoadsBackend
    <2> QED
      BY <2>1 DEF Script, Letting, Giving, Others, Set
  <1>25. ASSUME CpPresents PROVE Script'
    <2>1. UNCHANGED <<ui, holder>>
      BY <1>25 DEF CpPresents
    <2> QED
      BY <2>1 DEF Script, Letting, Giving, Others, Set
  <1>26. ASSUME PresentEnds PROVE Script'
    <2>1. UNCHANGED <<ui, holder>>
      BY <1>26 DEF PresentEnds
    <2> QED
      BY <2>1 DEF Script, Letting, Giving, Others, Set
  <1> QED
    BY <1>1, <1>2, <1>3, <1>4, <1>5, <1>6, <1>7, <1>8, <1>9, <1>10, <1>11, <1>12, <1>13,
       <1>14, <1>15, <1>16, <1>17, <1>18, <1>19, <1>20, <1>21, <1>22, <1>23, <1>24, <1>25, <1>26
    DEF Next, Native, Runtime, BootThread, GuestStops

\* Every action keeps the types of the session.
LEMMA SessionTypesStep ==
  ASSUME SessionTypeOK, Script, Next
  PROVE  SessionTypeOK'
  <1> USE BoundIsNat
      DEF SessionTypeOK, java, state, frames
  <1>1. ASSUME SurfaceCreated PROVE SessionTypeOK'
    BY <1>1 DEF SurfaceCreated
  <1>2. ASSUME SurfaceChanged PROVE SessionTypeOK'
    BY <1>2 DEF SurfaceChanged, Handler
  <1>3. ASSUME SurfaceDestroyed PROVE SessionTypeOK'
    BY <1>3 DEF SurfaceDestroyed, Handler
  <1>4. ASSUME OnPause PROVE SessionTypeOK'
    BY <1>4 DEF OnPause, Handler
  <1>5. ASSUME OnResume PROVE SessionTypeOK'
    <2>1. events' \in 0..MaxEvents
      BY <1>5 DEF OnResume, Handler
    <2>2. /\ life' = "resumed" /\ pausedState' = FALSE
          /\ UNCHANGED <<holder, jbooted, boot, given, state, frames>>
      BY <1>5 DEF OnResume, Handler
    <2> QED
      BY <2>1, <2>2
  <1>6. ASSUME OnBackPressed PROVE SessionTypeOK'
    BY <1>6 DEF OnBackPressed, Handler
  <1>7. ASSUME OnDestroy PROVE SessionTypeOK'
    BY <1>7 DEF OnDestroy
  <1>8. ASSUME NativeSetSurface PROVE SessionTypeOK'
    <2>1. window' = Head(ui).window /\ Head(ui).window \in {holder, NoWindow}
      BY <1>8, AtSurface DEF NativeSetSurface, Attach
    <2> QED
      BY <1>8, <2>1 DEF NativeSetSurface, Attach
  <1>9. ASSUME NativePause PROVE SessionTypeOK'
    BY <1>9 DEF NativePause, Calls, Returns
  <1>10. ASSUME NativeResume PROVE SessionTypeOK'
    BY <1>10 DEF NativeResume, Calls, Returns
  <1>11. ASSUME NativeStop PROVE SessionTypeOK'
    BY <1>11 DEF NativeStop, Calls, Returns
  <1>12. ASSUME JoinMain PROVE SessionTypeOK'
    BY <1>12 DEF JoinMain, Calls
  <1>13. ASSUME Teardown PROVE SessionTypeOK'
    BY <1>13 DEF Teardown, Calls, Returns
  <1>14. ASSUME BootBegins PROVE SessionTypeOK'
    BY <1>14 DEF BootBegins
  <1>15. ASSUME BootFails PROVE SessionTypeOK'
    BY <1>15 DEF BootFails
  <1>16. ASSUME BootSucceeds PROVE SessionTypeOK'
    BY <1>16 DEF BootSucceeds
  <1>17. ASSUME BootAttaches PROVE SessionTypeOK'
    BY <1>17 DEF BootAttaches, Attach
  <1>18. ASSUME BootExits PROVE SessionTypeOK'
    BY <1>18 DEF BootExits
  <1>19. ASSUME AudioStarts PROVE SessionTypeOK'
    BY <1>19 DEF AudioStarts
  <1>20. ASSUME GuestEnds PROVE SessionTypeOK'
    BY <1>20 DEF GuestEnds
  <1>21. ASSUME DriverTests PROVE SessionTypeOK'
    BY <1>21 DEF DriverTests
  <1>22. ASSUME DriverPresents PROVE SessionTypeOK'
    BY <1>22 DEF DriverPresents
  <1>23. ASSUME MainEnds PROVE SessionTypeOK'
    BY <1>23 DEF MainEnds
  <1>24. ASSUME CpLoadsBackend PROVE SessionTypeOK'
    BY <1>24 DEF CpLoadsBackend
  <1>25. ASSUME CpPresents PROVE SessionTypeOK'
    BY <1>25 DEF CpPresents
  <1>26. ASSUME PresentEnds PROVE SessionTypeOK'
    BY <1>26 DEF PresentEnds
  <1> QED
    BY <1>1, <1>2, <1>3, <1>4, <1>5, <1>6, <1>7, <1>8, <1>9, <1>10, <1>11, <1>12, <1>13,
       <1>14, <1>15, <1>16, <1>17, <1>18, <1>19, <1>20, <1>21, <1>22, <1>23, <1>24, <1>25, <1>26
    DEF Next, Native, Runtime, BootThread, GuestStops

\* Every action keeps the backend's types, and its context under a present.
LEMMA EglStep ==
  ASSUME Egl, SessionTypeOK, Script, Next
  PROVE  Egl'
  <1> USE ThreadsAreNamed DEF ThreadNames, SessionTypeOK
  <1>1. ASSUME SurfaceCreated PROVE Egl'
    BY <1>1, SameKeeps DEF SurfaceCreated
  <1>2. ASSUME SurfaceChanged PROVE Egl'
    BY <1>2, SameKeeps DEF SurfaceChanged, Handler
  <1>3. ASSUME SurfaceDestroyed PROVE Egl'
    BY <1>3, SameKeeps DEF SurfaceDestroyed, Handler
  <1>4. ASSUME OnPause PROVE Egl'
    BY <1>4, SameKeeps DEF OnPause, Handler
  <1>5. ASSUME OnResume PROVE Egl'
    BY <1>5, SameKeeps DEF OnResume, Handler
  <1>6. ASSUME OnBackPressed PROVE Egl'
    BY <1>6, SameKeeps DEF OnBackPressed, Handler
  <1>7. ASSUME OnDestroy PROVE Egl'
    BY <1>7, SameKeeps DEF OnDestroy
  <1>8. ASSUME NativeSetSurface PROVE Egl'
    BY <1>8, AtSurface, AvailableKeeps, SameKeeps DEF NativeSetSurface, Attach
  <1>9. ASSUME NativePause PROVE Egl'
    BY <1>9, LostKeeps, SameKeeps DEF NativePause, egl
  <1>10. ASSUME NativeResume PROVE Egl'
    BY <1>10, SameKeeps DEF NativeResume, Calls, Returns
  <1>11. ASSUME NativeStop PROVE Egl'
    BY <1>11, SameKeeps DEF NativeStop, Calls, Returns
  <1>12. ASSUME JoinMain PROVE Egl'
    BY <1>12, SameKeeps DEF JoinMain, Calls
  <1>13. ASSUME Teardown PROVE Egl'
    BY <1>13, LostKeeps DEF Teardown
  <1>14. ASSUME BootBegins PROVE Egl'
    BY <1>14, SameKeeps DEF BootBegins
  <1>15. ASSUME BootFails PROVE Egl'
    BY <1>15, SameKeeps DEF BootFails
  <1>16. ASSUME BootSucceeds PROVE Egl'
    BY <1>16, SameKeeps DEF BootSucceeds
  <1>17. ASSUME BootAttaches PROVE Egl'
    BY <1>17, AvailableKeeps, SameKeeps DEF BootAttaches, Attach
  <1>18. ASSUME BootExits PROVE Egl'
    BY <1>18, ExitKeeps, SameKeeps DEF BootExits
  <1>19. ASSUME AudioStarts PROVE Egl'
    BY <1>19, SameKeeps DEF AudioStarts
  <1>20. ASSUME GuestEnds PROVE Egl'
    BY <1>20, SameKeeps DEF GuestEnds
  <1>21. ASSUME DriverTests PROVE Egl'
    BY <1>21, ExitKeeps, SameKeeps DEF DriverTests
  <1>22. ASSUME DriverPresents PROVE Egl'
    BY <1>22, BeginKeeps, SameKeeps DEF DriverPresents, CannotPresent
  <1>23. ASSUME MainEnds PROVE Egl'
    BY <1>23, SameKeeps DEF MainEnds
  <1>24. ASSUME CpLoadsBackend PROVE Egl'
    BY <1>24, SameKeeps DEF CpLoadsBackend
  <1>25. ASSUME CpPresents PROVE Egl'
    BY <1>25, BeginKeeps, SameKeeps DEF CpPresents, CannotPresent
  <1>26. ASSUME PresentEnds PROVE Egl'
    BY <1>26, EndKeeps DEF PresentEnds
  <1> QED
    BY <1>1, <1>2, <1>3, <1>4, <1>5, <1>6, <1>7, <1>8, <1>9, <1>10, <1>11, <1>12, <1>13,
       <1>14, <1>15, <1>16, <1>17, <1>18, <1>19, <1>20, <1>21, <1>22, <1>23, <1>24, <1>25, <1>26
    DEF Next, Native, Runtime, BootThread, GuestStops

\* Every action keeps the surface of a backend that is not there detached.
LEMMA DetachedStep ==
  ASSUME IInv, Next
  PROVE  Detached'
  <1> USE ThreadsAreNamed
      DEF IInv, Types, TypeOK, SessionTypeOK, Whole, Detached, Egl,
          LifecycleFree, ThreadNames, state, frames
  <1>1. ASSUME SurfaceCreated PROVE Detached'
    BY <1>1, SameKeeps DEF SurfaceCreated
  <1>2. ASSUME SurfaceChanged PROVE Detached'
    BY <1>2, SameKeeps DEF SurfaceChanged, Handler
  <1>3. ASSUME SurfaceDestroyed PROVE Detached'
    BY <1>3, SameKeeps DEF SurfaceDestroyed, Handler
  <1>4. ASSUME OnPause PROVE Detached'
    BY <1>4, SameKeeps DEF OnPause, Handler
  <1>5. ASSUME OnResume PROVE Detached'
    BY <1>5, SameKeeps DEF OnResume, Handler
  <1>6. ASSUME OnBackPressed PROVE Detached'
    BY <1>6, SameKeeps DEF OnBackPressed, Handler
  <1>7. ASSUME OnDestroy PROVE Detached'
    BY <1>7, SameKeeps DEF OnDestroy
  <1>8. ASSUME NativeSetSurface PROVE Detached'
    BY <1>8, SameKeeps DEF NativeSetSurface, Attach, Calls, Returns
  <1>9. ASSUME NativePause PROVE Detached'
    BY <1>9, LostKeeps, SameKeeps DEF NativePause, Calls, Returns, egl
  <1>10. ASSUME NativeResume PROVE Detached'
    BY <1>10, SameKeeps DEF NativeResume, Calls, Returns
  <1>11. ASSUME NativeStop PROVE Detached'
    BY <1>11, SameKeeps DEF NativeStop, Calls, Returns
  <1>12. ASSUME JoinMain PROVE Detached'
    BY <1>12, SameKeeps DEF JoinMain, Calls
  <1>13. ASSUME Teardown PROVE Detached'
    BY <1>13, LostKeeps, SameKeeps DEF Teardown, Calls, Returns
  <1>14. ASSUME BootBegins PROVE Detached'
    <2>1. ~gfx
      BY <1>14 DEF BootBegins, SessionIsWhole
    <2> QED
      BY <1>14, <2>1, SameKeeps DEF BootBegins
  <1>15. ASSUME BootFails PROVE Detached'
    BY <1>15, SameKeeps DEF BootFails
  <1>16. ASSUME BootSucceeds PROVE Detached'
    BY <1>16, SameKeeps DEF BootSucceeds
  <1>17. ASSUME BootAttaches PROVE Detached'
    BY <1>17, SameKeeps DEF BootAttaches, Attach
  <1>18. ASSUME BootExits PROVE Detached'
    BY <1>18, ExitKeeps, SameKeeps DEF BootExits
  <1>19. ASSUME AudioStarts PROVE Detached'
    BY <1>19, SameKeeps DEF AudioStarts
  <1>20. ASSUME GuestEnds PROVE Detached'
    BY <1>20, SameKeeps DEF GuestEnds
  <1>21. ASSUME DriverTests PROVE Detached'
    BY <1>21, ExitKeeps, SameKeeps DEF DriverTests
  <1>22. ASSUME DriverPresents PROVE Detached'
    BY <1>22, BeginKeeps, SameKeeps DEF DriverPresents, CannotPresent
  <1>23. ASSUME MainEnds PROVE Detached'
    BY <1>23, SameKeeps DEF MainEnds
  <1>24. ASSUME CpLoadsBackend PROVE Detached'
    BY <1>24, SameKeeps DEF CpLoadsBackend
  <1>25. ASSUME CpPresents PROVE Detached'
    BY <1>25, BeginKeeps, SameKeeps DEF CpPresents, CannotPresent
  <1>26. ASSUME PresentEnds PROVE Detached'
    BY <1>26, EndKeeps DEF PresentEnds
  <1> QED
    BY <1>1, <1>2, <1>3, <1>4, <1>5, <1>6, <1>7, <1>8, <1>9, <1>10, <1>11, <1>12, <1>13,
       <1>14, <1>15, <1>16, <1>17, <1>18, <1>19, <1>20, <1>21, <1>22, <1>23, <1>24, <1>25, <1>26
    DEF Next, Native, Runtime, BootThread, GuestStops

\* Without a backend, or while a boot creates it, nothing is attached.
LEMMA DetachedMeans == Detached /\ (~gfx \/ boot = "booting") => Attached = NoWindow
  BY DEF Detached, Attached

\* Every action keeps what is attached alive, if the surface outlives the boot.
LEMMA AliveStep ==
  ASSUME ~LossDuringBoot, IInv, Alive, Next
  PROVE  Alive'
  <1> USE Sentinels, ThreadsAreNamed
      DEF IInv, Types, SessionTypeOK, Whole, SessionIsWhole, Alive,
          LifecycleFree, ThreadNames, java, state, frames
  <1>1. ASSUME SurfaceCreated PROVE Alive'
    <2>1. Attached' = NoWindow
      BY <1>1, SameKeeps DEF SurfaceCreated, Letting
    <2> QED
      BY <1>1, <2>1 DEF SurfaceCreated
  <1>2. ASSUME SurfaceChanged PROVE Alive'
    BY <1>2, SameKeeps DEF SurfaceChanged, Handler, Letting
  <1>3. ASSUME SurfaceDestroyed PROVE Alive'
    BY <1>3, SameKeeps DEF SurfaceDestroyed, Handler, Letting
  <1>4. ASSUME OnPause PROVE Alive'
    BY <1>4, SameKeeps DEF OnPause, Handler, Letting
  <1>5. ASSUME OnResume PROVE Alive'
    BY <1>5, SameKeeps DEF OnResume, Handler, Letting
  <1>6. ASSUME OnBackPressed PROVE Alive'
    BY <1>6, SameKeeps DEF OnBackPressed, Handler, Letting
  <1>7. ASSUME OnDestroy PROVE Alive'
    BY <1>7, SameKeeps DEF OnDestroy, Letting
  <1>8. ASSUME NativeSetSurface PROVE Alive'
    <2>1. \/ Attached' = Attached
          \/ Head(ui).window # NoWindow /\ Attached' \in {Attached, Head(ui).window, NoWindow}
      BY <1>8, AtSurface, AvailableKeeps, SameKeeps DEF NativeSetSurface, Attach
    <2>2. ui' = Tail(ui) /\ Calls("surface") /\ UNCHANGED <<holder, boot, given>>
      BY <1>8 DEF NativeSetSurface, Returns
    <2> QED
      BY <2>1, <2>2, AtSurface DEF Letting, Giving, Set
  <1>9. ASSUME NativePause PROVE Alive'
    <2>1. Attached' = NoWindow /\ UNCHANGED <<holder, boot, given>>
      BY <1>9, LostKeeps, SameKeeps, DetachedMeans DEF NativePause, egl
    <2> QED
      BY <2>1
  <1>10. ASSUME NativeResume PROVE Alive'
    <2>1. /\ Attached' = Attached /\ UNCHANGED <<holder, boot, given>>
          /\ Calls("resume")
      BY <1>10, SameKeeps DEF NativeResume
    <2>2. ui = <<Call("resume")>>
      BY <2>1, AtCall
    <2>3. ui \notin Letting
      BY <2>2 DEF Letting, Set, Call
    <2> QED
      BY <2>1, <2>3
  <1>11. ASSUME NativeStop PROVE Alive'
    <2>1. /\ Attached' = Attached /\ UNCHANGED <<holder, boot, given>>
          /\ Calls("stop")
      BY <1>11, SameKeeps DEF NativeStop
    <2>2. ui = <<Call("stop")>>
      BY <2>1, AtCall
    <2>3. ui \notin Letting
      BY <2>2 DEF Letting, Set, Call
    <2> QED
      BY <2>1, <2>3
  <1>12. ASSUME JoinMain PROVE Alive'
    <2>1. /\ Attached' = Attached /\ UNCHANGED <<holder, boot, given>>
          /\ Calls("join")
      BY <1>12, SameKeeps DEF JoinMain
    <2>2. ui = <<Call("join")>>
      BY <2>1, AtCall
    <2>3. ui \notin Letting
      BY <2>2 DEF Letting, Set, Call
    <2> QED
      BY <2>1, <2>3
  <1>13. ASSUME Teardown PROVE Alive'
    <2>1. /\ Attached' = NoWindow /\ UNCHANGED <<holder, boot, given>>
          /\ Calls("teardown")
      BY <1>13, LostKeeps, SameKeeps DEF Teardown
    <2>2. ui = <<Call("teardown")>>
      BY <2>1, AtCall
    <2>3. ui \notin Letting
      BY <2>2 DEF Letting, Set, Call
    <2> QED
      BY <2>1, <2>3
  <1>14. ASSUME BootBegins PROVE Alive'
    <2>1. Attached' = Attached /\ UNCHANGED <<ui, holder, given>>
      BY <1>14, SameKeeps DEF BootBegins
    <2> QED
      BY <1>14, <2>1 DEF BootBegins
  <1>15. ASSUME BootFails PROVE Alive'
    <2>1. Attached' = Attached /\ UNCHANGED <<ui, holder, given>>
      BY <1>15, SameKeeps DEF BootFails
    <2> QED
      BY <1>15, <2>1 DEF BootFails
  <1>16. ASSUME BootSucceeds PROVE Alive'
    <2>1. Attached' = Attached /\ UNCHANGED <<ui, holder, given>>
      BY <1>16, SameKeeps DEF BootSucceeds
    <2> QED
      BY <1>16, <2>1 DEF BootSucceeds
  <1>17. ASSUME BootAttaches PROVE Alive'
    <2>1. given = holder /\ UNCHANGED <<ui, holder, given>> /\ boot' = "exit"
      BY <1>17 DEF BootAttaches
    <2>2. Attached' \in {Attached, holder, NoWindow}
      BY <1>17, <2>1, AvailableKeeps, SameKeeps DEF BootAttaches, Attach
    <2> QED
      BY <2>1, <2>2
  <1>18. ASSUME BootExits PROVE Alive'
    <2>1. Attached' = Attached /\ UNCHANGED <<ui, holder, given>>
      BY <1>18, ExitKeeps, SameKeeps DEF BootExits
    <2> QED
      BY <1>18, <2>1 DEF BootExits
  <1>19. ASSUME AudioStarts PROVE Alive'
    <2>1. Attached' = Attached /\ UNCHANGED <<ui, holder, given>>
      BY <1>19, SameKeeps DEF AudioStarts
    <2> QED
      BY <1>19, <2>1 DEF AudioStarts
  <1>20. ASSUME GuestEnds PROVE Alive'
    <2>1. Attached' = Attached /\ UNCHANGED <<ui, holder, given>>
      BY <1>20, SameKeeps DEF GuestEnds
    <2> QED
      BY <1>20, <2>1 DEF GuestEnds
  <1>21. ASSUME DriverTests PROVE Alive'
    <2>1. Attached' = Attached /\ UNCHANGED <<ui, holder, given>>
      BY <1>21, ExitKeeps, SameKeeps DEF DriverTests
    <2> QED
      BY <1>21, <2>1 DEF DriverTests
  <1>22. ASSUME DriverPresents PROVE Alive'
    <2>1. Attached' = Attached /\ UNCHANGED <<ui, holder, given>>
      BY <1>22, BeginKeeps, SameKeeps DEF DriverPresents, CannotPresent
    <2> QED
      BY <1>22, <2>1 DEF DriverPresents
  <1>23. ASSUME MainEnds PROVE Alive'
    <2>1. Attached' = Attached /\ UNCHANGED <<ui, holder, given>>
      BY <1>23, SameKeeps DEF MainEnds
    <2> QED
      BY <1>23, <2>1 DEF MainEnds
  <1>24. ASSUME CpLoadsBackend PROVE Alive'
    <2>1. Attached' = Attached /\ UNCHANGED <<ui, holder, given>>
      BY <1>24, SameKeeps DEF CpLoadsBackend
    <2> QED
      BY <1>24, <2>1 DEF CpLoadsBackend
  <1>25. ASSUME CpPresents PROVE Alive'
    <2>1. Attached' = Attached /\ UNCHANGED <<ui, holder, given>>
      BY <1>25, BeginKeeps, SameKeeps DEF CpPresents, CannotPresent
    <2> QED
      BY <1>25, <2>1 DEF CpPresents
  <1>26. ASSUME PresentEnds PROVE Alive'
    <2>1. Attached' \in {Attached, NoWindow} /\ UNCHANGED <<ui, holder, given>>
      BY <1>26, EndKeeps DEF PresentEnds
    <2> QED
      BY <1>26, <2>1 DEF PresentEnds
  <1> QED
    BY <1>1, <1>2, <1>3, <1>4, <1>5, <1>6, <1>7, <1>8, <1>9, <1>10, <1>11, <1>12, <1>13,
       <1>14, <1>15, <1>16, <1>17, <1>18, <1>19, <1>20, <1>21, <1>22, <1>23, <1>24, <1>25, <1>26
    DEF Next, Native, Runtime, BootThread, GuestStops

-----------------------------------------------------------------------------
(* What the operations of the backend are to the promise of graphics_backend.h *)

LEMMA KeptIsAStutter ==
  ASSUME Attached' = Attached, user' = user
  PROVE  [Promise!Next]_(Promise!vars)
  BY DEF Promise!vars

LEMMA AvailablePromises ==
  ASSUME Egl, NEW t \in Threads, NEW w \in Windows, OnSurfaceAvailable(t, w)
  PROVE  [Promise!Next]_(Promise!vars)
  <1>1. user = NoThread /\ user' = NoThread
    BY DEF OnSurfaceAvailable
  <1>2. CASE Attached' \in {w, NoWindow}
    <2>1. Promise!Available(w)
      BY <1>1, <1>2 DEF Promise!Available
    <2> QED
      BY <2>1 DEF Promise!Next
  <1> QED
    BY <1>1, <1>2, AvailableKeeps, KeptIsAStutter

LEMMA LostPromises ==
  ASSUME Egl, OnSurfaceLost
  PROVE  [Promise!Next]_(Promise!vars)
  <1>1. Promise!Lost
    BY LostKeeps DEF OnSurfaceLost, Promise!Lost
  <1> QED
    BY <1>1 DEF Promise!Next

LEMMA BeginPromises ==
  ASSUME Egl, NEW t \in Threads, BeginPresent(t)
  PROVE  [Promise!Next]_(Promise!vars)
  <1>1. Attached # NoWindow
    BY DEF BeginPresent, Presentable, Attached
  <1>2. user = NoThread /\ user' # NoThread
    BY Sentinels DEF BeginPresent
  <1>3. Promise!Begin
    BY <1>1, <1>2, BeginKeeps DEF Promise!Begin
  <1> QED
    BY <1>3 DEF Promise!Next

LEMMA EndPromises ==
  ASSUME Egl, NEW t \in Threads, EndPresent(t)
  PROVE  [Promise!Next]_(Promise!vars)
  <1>1. user # NoThread /\ user' = NoThread
    BY Sentinels DEF EndPresent
  <1>2. Promise!End
    BY <1>1, EndKeeps DEF Promise!End
  <1> QED
    BY <1>2 DEF Promise!Next

LEMMA ExitPromises ==
  ASSUME Egl, NEW t, ThreadExits(t)
  PROVE  [Promise!Next]_(Promise!vars)
  BY ExitKeeps, KeptIsAStutter DEF ThreadExits

LEMMA SamePromises ==
  ASSUME Egl, UNCHANGED egl
  PROVE  [Promise!Next]_(Promise!vars)
  BY SameKeeps, KeptIsAStutter DEF egl

\* Every action is a step of the promise, or none.
LEMMA PromiseStep ==
  ASSUME Egl, SessionTypeOK, Script, Next
  PROVE  [Promise!Next]_(Promise!vars)
  <1> USE ThreadsAreNamed DEF ThreadNames, SessionTypeOK
  <1>1. ASSUME SurfaceCreated PROVE [Promise!Next]_(Promise!vars)
    BY <1>1, SamePromises DEF SurfaceCreated
  <1>2. ASSUME SurfaceChanged PROVE [Promise!Next]_(Promise!vars)
    BY <1>2, SamePromises DEF SurfaceChanged, Handler
  <1>3. ASSUME SurfaceDestroyed PROVE [Promise!Next]_(Promise!vars)
    BY <1>3, SamePromises DEF SurfaceDestroyed, Handler
  <1>4. ASSUME OnPause PROVE [Promise!Next]_(Promise!vars)
    BY <1>4, SamePromises DEF OnPause, Handler
  <1>5. ASSUME OnResume PROVE [Promise!Next]_(Promise!vars)
    BY <1>5, SamePromises DEF OnResume, Handler
  <1>6. ASSUME OnBackPressed PROVE [Promise!Next]_(Promise!vars)
    BY <1>6, SamePromises DEF OnBackPressed, Handler
  <1>7. ASSUME OnDestroy PROVE [Promise!Next]_(Promise!vars)
    BY <1>7, SamePromises DEF OnDestroy
  <1>8. ASSUME NativeSetSurface PROVE [Promise!Next]_(Promise!vars)
    BY <1>8, AtSurface, AvailablePromises, SamePromises DEF NativeSetSurface, Attach
  <1>9. ASSUME NativePause PROVE [Promise!Next]_(Promise!vars)
    BY <1>9, LostPromises, SamePromises DEF NativePause, egl
  <1>10. ASSUME NativeResume PROVE [Promise!Next]_(Promise!vars)
    BY <1>10, SamePromises DEF NativeResume, Calls, Returns
  <1>11. ASSUME NativeStop PROVE [Promise!Next]_(Promise!vars)
    BY <1>11, SamePromises DEF NativeStop, Calls, Returns
  <1>12. ASSUME JoinMain PROVE [Promise!Next]_(Promise!vars)
    BY <1>12, SamePromises DEF JoinMain, Calls
  <1>13. ASSUME Teardown PROVE [Promise!Next]_(Promise!vars)
    BY <1>13, LostPromises DEF Teardown
  <1>14. ASSUME BootBegins PROVE [Promise!Next]_(Promise!vars)
    BY <1>14, SamePromises DEF BootBegins
  <1>15. ASSUME BootFails PROVE [Promise!Next]_(Promise!vars)
    BY <1>15, SamePromises DEF BootFails
  <1>16. ASSUME BootSucceeds PROVE [Promise!Next]_(Promise!vars)
    BY <1>16, SamePromises DEF BootSucceeds
  <1>17. ASSUME BootAttaches PROVE [Promise!Next]_(Promise!vars)
    BY <1>17, AvailablePromises, SamePromises DEF BootAttaches, Attach
  <1>18. ASSUME BootExits PROVE [Promise!Next]_(Promise!vars)
    BY <1>18, ExitPromises, SamePromises DEF BootExits
  <1>19. ASSUME AudioStarts PROVE [Promise!Next]_(Promise!vars)
    BY <1>19, SamePromises DEF AudioStarts
  <1>20. ASSUME GuestEnds PROVE [Promise!Next]_(Promise!vars)
    BY <1>20, SamePromises DEF GuestEnds
  <1>21. ASSUME DriverTests PROVE [Promise!Next]_(Promise!vars)
    BY <1>21, ExitPromises, SamePromises DEF DriverTests
  <1>22. ASSUME DriverPresents PROVE [Promise!Next]_(Promise!vars)
    BY <1>22, BeginPromises, SamePromises DEF DriverPresents, CannotPresent
  <1>23. ASSUME MainEnds PROVE [Promise!Next]_(Promise!vars)
    BY <1>23, SamePromises DEF MainEnds
  <1>24. ASSUME CpLoadsBackend PROVE [Promise!Next]_(Promise!vars)
    BY <1>24, SamePromises DEF CpLoadsBackend
  <1>25. ASSUME CpPresents PROVE [Promise!Next]_(Promise!vars)
    BY <1>25, BeginPromises, SamePromises DEF CpPresents, CannotPresent
  <1>26. ASSUME PresentEnds PROVE [Promise!Next]_(Promise!vars)
    BY <1>26, EndPromises DEF PresentEnds
  <1> QED
    BY <1>1, <1>2, <1>3, <1>4, <1>5, <1>6, <1>7, <1>8, <1>9, <1>10, <1>11, <1>12, <1>13,
       <1>14, <1>15, <1>16, <1>17, <1>18, <1>19, <1>20, <1>21, <1>22, <1>23, <1>24, <1>25, <1>26
    DEF Next, Native, Runtime, BootThread, GuestStops

-----------------------------------------------------------------------------
LEMMA InitIInv == Init => IInv /\ Alive
  <1> SUFFICES ASSUME Init PROVE IInv /\ Alive
    OBVIOUS
  <1> USE DEF Init
  <1>1. Egl
    BY DEF EglInit, Egl, EglTypeOK
  <1>2. SessionTypeOK
    <2>1. 0 \in 0..MaxEvents
      BY BoundIsNat
    <2> QED
      BY <2>1 DEF SessionTypeOK
  <1>3. Script
    BY DEF Script, Others
  <1>4. Whole
    BY DEF Whole, SessionIsWhole
  <1>5. Detached /\ Alive
    BY DEF EglInit, Detached, Alive, Attached
  <1> QED
    BY <1>1, <1>2, <1>3, <1>4, <1>5 DEF IInv, Types

LEMMA Stutter == UNCHANGED vars => (IInv => IInv') /\ (Alive => Alive')
  BY DEF vars, egl, java, state, frames, IInv, Types, Egl, SessionTypeOK, EglTypeOK, Script, Letting,
         Giving, Others, Set, Call, Detached, Whole, SessionIsWhole, LifecycleFree, Alive, Attached

LEMMA Invariance == Spec => []IInv
  <1>1. IInv /\ [Next]_vars => IInv'
    BY WholeStep, ScriptStep, SessionTypesStep, EglStep, DetachedStep, Stutter DEF IInv, Types
  <1> QED
    BY <1>1, InitIInv, PTL DEF Spec

\* The variables of the session and of its backend keep their types.
THEOREM TypeCorrect == Spec => []TypeOK
  <1>1. IInv => TypeOK
    BY DEF IInv, Types, Egl, TypeOK
  <1> QED
    BY <1>1, Invariance, PTL

\* Whoever takes lifecycleMutex finds all the parts of a session or none, for any number of events.
THEOREM SessionAlwaysWhole == Spec => []SessionIsWhole
  <1>1. IInv => SessionIsWhole
    BY DEF IInv, Whole
  <1> QED
    BY <1>1, Invariance, PTL

\* Between two handlers the backend presents to no surface but the one that lives, provided no
\* surface dies before the boot thread has given it.
THEOREM AttachedAlwaysAlive == ~LossDuringBoot /\ Spec => []AttachedIsAlive
  <1> SUFFICES ASSUME ~LossDuringBoot PROVE Spec => []AttachedIsAlive
    OBVIOUS
  <1>1. IInv /\ Alive /\ [Next]_vars => Alive'
    BY AliveStep, Stutter
  <1>2. Alive => AttachedIsAlive
    BY DEF Alive, AttachedIsAlive, Letting
  <1> QED
    BY <1>1, <1>2, InitIInv, Invariance, PTL DEF Spec

\* The backend keeps the safety part of its interface's promise in every session: no thread presents
\* to a window other than the last one given, and the surface never changes under a present.
THEOREM KeepsPromise == Spec => Promise!Init /\ [][Promise!Next]_(Promise!vars)
  <1>1. Init => Promise!Init
    BY DEF Init, EglInit, Promise!Init, Attached
  <1>2. IInv /\ [Next]_vars => [Promise!Next]_(Promise!vars)
    <2>1. CASE UNCHANGED vars
      BY <2>1, KeptIsAStutter DEF vars, egl, Attached
    <2> QED
      BY <2>1, PromiseStep DEF IInv, Types
  <1> QED
    BY <1>1, <1>2, Invariance, PTL DEF Spec

=============================================================================
