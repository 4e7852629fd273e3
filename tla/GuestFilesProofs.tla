-------------------------- MODULE GuestFilesProofs --------------------------
(***************************************************************************)
(* Proofs about GuestFiles: first who closes a descriptor, then what the   *)
(* cells of a read are, which rests on the first: what a descriptor is     *)
(* open on does not change under the handle or the call that has it.       *)
(***************************************************************************)
EXTENDS GuestFiles, FiniteSetTheorems, NaturalsInduction, SequenceTheorems, TLAPS

(***************************************************************************)
(* The descriptor a call in progress has, and the facts about shapes that  *)
(* make it one: a record keeps its other fields when one is assigned.      *)
(***************************************************************************)
FdOf(o) ==
  IF o.pc \in {"stat", "loadingFd", "closing"} THEN o.fd
  ELSE IF o.pc = "opened" THEN o.file.fd ELSE NoFd
IsFile(f) == "fd" \in DOMAIN f /\ f.fd \in Fds \union {NoFd}
Shaped(o) ==
  /\ o.pc \in {"stat", "loadingFd", "closing"} => o.fd \in Fds
  /\ o.pc = "opened" => IsFile(o.file)
  /\ o.pc = "copying" => "pc" \in DOMAIN o
Shapes ==
  /\ DOMAIN fds = Fds /\ DOMAIN op = Threads
  /\ iso \in Fds \union {Untried, Failed}
  /\ nextHandle \in Nat \ {0} /\ DOMAIN files \subseteq 1..nextHandle - 1
  /\ \A h \in DOMAIN files : IsFile(files[h])
  /\ \A t \in Threads : Shaped(op[t])

(***************************************************************************)
(* An owned descriptor is open, two owners never share one, and an open    *)
(* one has an owner.                                                       *)
(***************************************************************************)
OwnedIsOpen ==
  /\ \A h \in DOMAIN files : files[h].fd \in Fds => fds[files[h].fd] # Closed
  /\ \A t \in Threads : FdOf(op[t]) \in Fds => fds[FdOf(op[t])] # Closed
  /\ iso \in Fds => fds[iso] # Closed
Apart ==
  /\ \A h, k \in DOMAIN files : files[h].fd = files[k].fd => h = k \/ files[h].fd = NoFd
  /\ \A t, u \in Threads : FdOf(op[t]) = FdOf(op[u]) => t = u \/ FdOf(op[t]) = NoFd
  /\ \A h \in DOMAIN files, t \in Threads : files[h].fd = FdOf(op[t]) => files[h].fd = NoFd
  /\ \A h \in DOMAIN files : files[h].fd # iso
  /\ \A t \in Threads : FdOf(op[t]) # iso
OpenIsOwned ==
  \A f \in Fds : fds[f] # Closed =>
    \/ \E h \in DOMAIN files : files[h].fd = f
    \/ \E t \in Threads : FdOf(op[t]) = f
    \/ iso = f
Owned == OwnedIsOpen /\ Apart /\ OpenIsOwned
IInv == Shapes /\ Owned

-----------------------------------------------------------------------------
(* Numbers and cardinalities *)

LEMMA Numbers == NoFd \notin Fds /\ Untried \notin Fds /\ Failed \notin Fds /\ Fds \subseteq Nat
                 /\ NoFd \notin {Untried, Failed}
  BY BoundsAssumption DEF NoFd, Untried, Failed, Fds

LEMMA NothingIsClosed ==
  ASSUME NEW n PROVE OnTree(n) # Closed /\ OnLocal(n) # Closed /\ OnImage # Closed
  BY DEF OnTree, OnLocal, OnImage, Closed

\* The lowest free number exists and is free.
LEMMA NewFdIsFree ==
  ASSUME FreeFds # {}
  PROVE  NewFd \in Fds /\ fds[NewFd] = Closed
<1> DEFINE LT == {ss \in Nat \X Nat : ss[1] < ss[2]}
<1>1. IsWellFoundedOn(LT, Nat)
  BY NatLessThanWellFounded DEF OpToRel
<1>2. FreeFds \subseteq Nat
  BY Numbers DEF FreeFds
<1>3. PICK x \in FreeFds : \A y \in FreeFds : <<y, x>> \notin LT
  <2> HIDE DEF LT
  <2> QED
    BY <1>1, <1>2, WFMin
<1>4. \A y \in FreeFds : x <= y
  <2>1. ASSUME NEW y \in FreeFds, y < x PROVE FALSE
    <3>1. <<y, x>> \in LT
      BY <1>2, <2>1
    <3> QED
      BY <1>3, <2>1, <3>1
  <2>2. \A y \in FreeFds : y \in Nat /\ x \in Nat
    BY <1>2
  <2> QED
    BY <2>1, <2>2
<1>5. NewFd \in FreeFds
  BY <1>3, <1>4 DEF NewFd, Min
<1> QED
  BY <1>5 DEF FreeFds

\* The invariant says what the property says with a cardinality.
LEMMA OwnedMeans == IInv => FdsAreOwned
<1> SUFFICES ASSUME IInv, NEW f \in Fds
             PROVE  Cardinality(Owners(f)) = IF fds[f] = Closed THEN 0 ELSE 1
  BY DEF FdsAreOwned
<1> DEFINE H == {k \in DOMAIN files : files[k].fd = f}
           P == {u \in Threads : FdOf(op[u]) = f}
<1>1. P = {u \in Threads :
             \/ op[u].pc \in {"stat", "loadingFd", "closing"} /\ op[u].fd = f
             \/ op[u].pc = "opened" /\ op[u].file.fd = f}
  BY Numbers DEF FdOf
<1>2. Owners(f) = {<<"handle", h>> : h \in H} \union {<<"op", t>> : t \in P}
                    \union {<<"iso", i>> : i \in {iso} \intersect {f}}
  BY <1>1 DEF Owners
<1> HIDE DEF P
<1>3. CASE fds[f] = Closed
  <2>1. H = {} /\ P = {} /\ {iso} \intersect {f} = {}
    BY <1>3 DEF IInv, Owned, OwnedIsOpen, P
  <2>2. Owners(f) = {}
    BY <1>2, <2>1
  <2> QED
    BY <1>3, <2>2, FS_EmptySet
<1>4. CASE fds[f] # Closed
  <2>1. \E x : Owners(f) = {x}
    <3>1. ASSUME NEW h \in DOMAIN files, files[h].fd = f PROVE Owners(f) = {<<"handle", h>>}
      <4>1. H = {h} /\ P = {} /\ {iso} \intersect {f} = {}
        BY <3>1, Numbers DEF IInv, Owned, Apart, P
      <4> QED
        BY <1>2, <4>1
    <3>2. ASSUME NEW t \in Threads, FdOf(op[t]) = f PROVE Owners(f) = {<<"op", t>>}
      <4>1. H = {} /\ P = {t} /\ {iso} \intersect {f} = {}
        BY <3>2, Numbers DEF IInv, Owned, Apart, P
      <4> QED
        BY <1>2, <4>1
    <3>3. ASSUME iso = f PROVE Owners(f) = {<<"iso", f>>}
      <4>1. H = {} /\ P = {} /\ {iso} \intersect {f} = {f}
        BY <3>3 DEF IInv, Owned, Apart, P
      <4> QED
        BY <1>2, <4>1
    <3> QED
      BY <1>4, <3>1, <3>2, <3>3 DEF IInv, Owned, OpenIsOwned
  <2> QED
    BY <1>4, <2>1, FS_Singleton
<1> QED
  BY <1>3, <1>4

-----------------------------------------------------------------------------
(* What a step does to the owners *)

\* Files that keep their descriptors.
SameHandles ==
  /\ DOMAIN files' = DOMAIN files
  /\ \A h \in DOMAIN files : "fd" \in DOMAIN files'[h] /\ files'[h].fd = files[h].fd

LEMMA ShapedHas == ASSUME NEW o, Shaped(o) PROVE FdOf(o) \in Fds \union {NoFd}
  BY DEF Shaped, FdOf, IsFile

LEMMA UnchangedHandles ==
  ASSUME IInv, UNCHANGED files PROVE SameHandles
  BY DEF IInv, Shapes, IsFile, SameHandles

\* A call goes on with the descriptor it had, if any.
LEMMA Keeps ==
  ASSUME IInv, NEW t \in Threads, NEW o, Becomes(t, o), Shaped(o), FdOf(o) = FdOf(op[t]),
         SameHandles, UNCHANGED <<fds, iso, nextHandle>>
  PROVE  IInv'
<1>1. Shapes'
  BY DEF IInv, Shapes, Becomes, SameHandles, IsFile, Shaped
<1>2. \A u \in Threads : FdOf(op'[u]) = FdOf(op[u])
  BY DEF IInv, Shapes, Becomes
<1>3. Owned'
  BY <1>2 DEF IInv, Owned, OwnedIsOpen, Apart, OpenIsOwned, SameHandles
<1> QED
  BY <1>1, <1>3 DEF IInv

\* A call that has none opens one.
LEMMA Acquires ==
  ASSUME IInv, NEW t \in Threads, NEW o, NEW what, Becomes(t, o), Shaped(o),
         FdOf(op[t]) = NoFd, FdOf(o) = NewFd,
         OpenOn(what), what # Closed, UNCHANGED <<iso, guestVars>>
  PROVE  IInv'
<1>1. Shapes'
  BY DEF IInv, Shapes, Becomes, OpenOn, IsFile, Shaped, guestVars
<1>2. FdOf(op'[t]) = NewFd /\ \A u \in Threads \ {t} : FdOf(op'[u]) = FdOf(op[u])
  BY DEF IInv, Shapes, Becomes
<1>3. /\ NewFd \in Fds /\ fds[NewFd] = Closed /\ fds'[NewFd] # Closed
      /\ \A f \in Fds \ {NewFd} : fds'[f] = fds[f]
  BY NewFdIsFree DEF OpenOn, IInv, Shapes
<1>4. OwnedIsOpen'
  BY <1>2, <1>3 DEF IInv, Owned, OwnedIsOpen, guestVars
<1>5. Apart'
  <2>1. /\ \A h \in DOMAIN files : files[h].fd # NewFd
        /\ \A u \in Threads : FdOf(op[u]) # NewFd
        /\ iso # NewFd
    BY <1>3 DEF IInv, Owned, OwnedIsOpen
  <2> QED
    BY <1>2, <1>3, <2>1, Numbers DEF IInv, Owned, Apart, guestVars
<1>6. OpenIsOwned'
  BY <1>2, <1>3, Numbers DEF IInv, Owned, OpenIsOwned, guestVars
<1> QED
  BY <1>1, <1>4, <1>5, <1>6 DEF IInv, Owned

\* A call that has one closes it.
LEMMA Releases ==
  ASSUME IInv, NEW t \in Threads, NEW o, Becomes(t, o), Shaped(o),
         FdOf(op[t]) \in Fds, FdOf(o) = NoFd,
         CloseFd(FdOf(op[t])), UNCHANGED <<iso, guestVars>>
  PROVE  IInv'
<1> DEFINE g == FdOf(op[t])
<1>1. Shapes'
  BY DEF IInv, Shapes, Becomes, CloseFd, IsFile, Shaped, guestVars
<1>2. FdOf(op'[t]) = NoFd /\ \A u \in Threads \ {t} : FdOf(op'[u]) = FdOf(op[u])
  BY DEF IInv, Shapes, Becomes
<1>3. fds'[g] = Closed /\ \A f \in Fds \ {g} : fds'[f] = fds[f]
  BY DEF CloseFd, IInv, Shapes
<1>4. /\ \A h \in DOMAIN files : files[h].fd # g
      /\ \A u \in Threads \ {t} : FdOf(op[u]) # g
      /\ iso # g
  BY Numbers DEF IInv, Owned, Apart
<1> HIDE DEF g
<1>5. OwnedIsOpen'
  BY <1>2, <1>3, <1>4, Numbers DEF IInv, Owned, OwnedIsOpen, guestVars
<1>6. Apart'
  BY <1>2, Numbers DEF IInv, Shapes, Owned, Apart, guestVars
<1>7. OpenIsOwned'
  <2> SUFFICES ASSUME NEW f \in Fds, fds'[f] # Closed
               PROVE  \/ \E h \in DOMAIN files' : files'[h].fd = f
                      \/ \E u \in Threads : FdOf(op'[u]) = f
                      \/ iso' = f
    BY DEF OpenIsOwned
  <2>1. f # g /\ fds[f] # Closed
    BY <1>3
  <2>2. CASE \E h \in DOMAIN files : files[h].fd = f
    BY <2>2 DEF guestVars
  <2>3. CASE \E u \in Threads : FdOf(op[u]) = f
    BY <1>2, <2>1, <2>3 DEF g
  <2>4. CASE iso = f
    BY <2>4
  <2> QED
    BY <2>1, <2>2, <2>3, <2>4 DEF IInv, Owned, OpenIsOwned
<1> QED
  BY <1>1, <1>5, <1>6, <1>7 DEF IInv, Owned

-----------------------------------------------------------------------------
(* One lemma for each kind of action *)

LEMMA FreeHasNone == ASSUME NEW t, Free(t) PROVE FdOf(op[t]) = NoFd
  BY DEF Free, FdOf

LEMMA OpenStepKeeps ==
  ASSUME IInv, NEW t \in Threads, OpenStep(t)
  PROVE  IInv'
<1>0. FdOf(op[t]) = NoFd
  BY FreeHasNone DEF OpenStep, Open, OpenWrite, Load, OpenBlockDevice, OpenRawDevice, OpenDir, Starts
<1>1. ASSUME NEW n, Open(t, n) \/ Load(t, n) PROVE IInv'
  <2>1. CASE Open(t, n)
    BY <1>0, <2>1, Keeps, UnchangedHandles DEF Open, Shaped, FdOf, hostVars, guestVars
  <2>2. CASE Load(t, n)
    BY <1>0, <2>2, Keeps, UnchangedHandles DEF Load, Shaped, FdOf, hostVars, guestVars
  <2> QED
    BY <1>1, <2>1, <2>2
<1>2. ASSUME NEW n, OpenWrite(t, n) PROVE IInv'
  <2> DEFINE o == [pc |-> "opened", file |-> FileAt(n, "file", NewFd, 0, 0, TRUE)]
  <2>1. Shaped(o) /\ FdOf(o) = NewFd
    BY <1>2, NewFdIsFree DEF OpenWrite, OpenOn, Shaped, FdOf, IsFile, FileAt
  <2>2. Becomes(t, o) /\ OpenOn(OnLocal(n)) /\ UNCHANGED <<iso, guestVars>>
    BY <1>2 DEF OpenWrite
  <2> QED
    BY <1>0, <2>1, <2>2, Acquires, NothingIsClosed
<1>3. ASSUME OpenBlockDevice(t) PROVE IInv'
  <2> DEFINE o == [pc |-> "opened", file |-> FileAt(Device, "device", NewFd, MaxLen, 0, TRUE)]
  <2>1. Shaped(o) /\ FdOf(o) = NewFd
    BY <1>3, NewFdIsFree DEF OpenBlockDevice, OpenOn, Shaped, FdOf, IsFile, FileAt
  <2>2. Becomes(t, o) /\ OpenOn(OnLocal(Device)) /\ UNCHANGED <<iso, guestVars>>
    BY <1>3 DEF OpenBlockDevice
  <2> QED
    BY <1>0, <2>1, <2>2, Acquires, NothingIsClosed
<1>4. ASSUME OpenRawDevice(t) PROVE IInv'
  <2>1. CASE assetsIsIso /\ iso # Failed
    <3> DEFINE o == [pc |-> "opened", file |-> FileAt(Volume, "disc", NewFd, Total, 0, FALSE)]
    <3>1. Becomes(t, o) /\ OpenOn(OnImage) /\ UNCHANGED <<iso, guestVars>>
      BY <1>4, <2>1 DEF OpenRawDevice
    <3>2. Shaped(o) /\ FdOf(o) = NewFd
      BY <3>1, NewFdIsFree DEF OpenOn, Shaped, FdOf, IsFile, FileAt
    <3> QED
      BY <1>0, <3>1, <3>2, Acquires, NothingIsClosed
  <2>2. CASE ~(assetsIsIso /\ iso # Failed)
    <3> DEFINE o == [pc |-> "opened", file |-> FileAt(Volume, "disc", NoFd, MaxLen, 0, FALSE)]
    <3>1. Becomes(t, o) /\ UNCHANGED <<fds, iso, guestVars>>
      BY <1>4, <2>2 DEF OpenRawDevice
    <3>2. Shaped(o) /\ FdOf(o) = NoFd
      BY DEF Shaped, FdOf, IsFile, FileAt
    <3> QED
      BY <1>0, <3>1, <3>2, Keeps, UnchangedHandles DEF guestVars
  <2> QED
    BY <2>1, <2>2
<1>5. ASSUME OpenDir(t) PROVE IInv'
  <2> DEFINE o == [pc |-> "opened", file |-> FileAt(Volume, "dir", NoFd, 0, 0, FALSE)]
  <2>1. Becomes(t, o) /\ UNCHANGED <<fds, iso, guestVars>>
    BY <1>5 DEF OpenDir, hostVars
  <2>2. Shaped(o) /\ FdOf(o) = NoFd
    BY DEF Shaped, FdOf, IsFile, FileAt
  <2> QED
    BY <1>0, <2>1, <2>2, Keeps, UnchangedHandles DEF guestVars
<1> QED
  BY <1>1, <1>2, <1>3, <1>4, <1>5 DEF OpenStep

\* EnsureIso: the image becomes an owner, whoever opens it.
LEMMA EnsureIsoKeeps ==
  ASSUME IInv, NEW t \in Threads, EnsureIso(t)
  PROVE  IInv'
<1>1. /\ NewFd \in Fds /\ fds[NewFd] = Closed /\ fds'[NewFd] # Closed /\ iso' = NewFd
      /\ \A f \in Fds \ {NewFd} : fds'[f] = fds[f]
  BY NewFdIsFree, NothingIsClosed DEF EnsureIso, OpenOn, IInv, Shapes
<1>2. UNCHANGED <<files, nextHandle, op>> /\ iso = Untried
  BY DEF EnsureIso, guestVars
<1>3. Shapes'
  BY <1>1, <1>2 DEF EnsureIso, OpenOn, IInv, Shapes, IsFile, Shaped
<1>4. \A u \in Threads : FdOf(op'[u]) = FdOf(op[u])
  BY <1>2
<1>5. OwnedIsOpen'
  BY <1>1, <1>2, <1>4 DEF IInv, Owned, OwnedIsOpen
<1>6. Apart'
  BY <1>1, <1>2, <1>4 DEF IInv, Owned, Apart, OwnedIsOpen
<1>7. OpenIsOwned'
  BY <1>1, <1>2, <1>4, Numbers DEF IInv, Owned, OpenIsOwned
<1> QED
  BY <1>3, <1>5, <1>6, <1>7 DEF IInv, Owned

LEMMA EnsureIsoFailsKeeps ==
  ASSUME IInv, NEW t \in Threads, EnsureIsoFails(t)
  PROVE  IInv'
<1>1. UNCHANGED <<fds, files, nextHandle, op>> /\ iso = Untried /\ iso' = Failed
  BY DEF EnsureIsoFails, guestVars
<1>2. Shapes'
  BY <1>1 DEF IInv, Shapes, IsFile, Shaped
<1>3. \A u \in Threads : FdOf(op'[u]) = FdOf(op[u]) /\ FdOf(op[u]) # Failed
  BY <1>1, ShapedHas, Numbers DEF IInv, Shapes
<1>4. \A h \in DOMAIN files : files[h].fd # Failed
  BY Numbers DEF IInv, Shapes, IsFile
<1>5. Owned'
  BY <1>1, <1>3, <1>4, Numbers DEF IInv, Owned, OwnedIsOpen, Apart, OpenIsOwned
<1> QED
  BY <1>2, <1>5 DEF IInv

\* fileOpen's registration: the descriptor passes from the call to the handle.
LEMMA RegisterKeeps ==
  ASSUME IInv, NEW t \in Threads, Register(t)
  PROVE  IInv'
<1> DEFINE f == op[t].file
<1>1. /\ op[t].pc = "opened" /\ IsFile(f) /\ FdOf(op[t]) = f.fd
      /\ nextHandle \in Nat \ {0} /\ nextHandle \notin DOMAIN files
  BY DEF Register, IInv, Shapes, Shaped, FdOf
<1>2. /\ DOMAIN files' = DOMAIN files \union {nextHandle}
      /\ files'[nextHandle] = f /\ \A h \in DOMAIN files : files'[h] = files[h]
  BY <1>1 DEF Register, With
<1>3. FdOf(Idle) = NoFd /\ Shaped(Idle)
  BY DEF FdOf, Idle, Shaped
<1>4. FdOf(op'[t]) = NoFd /\ \A u \in Threads \ {t} : op'[u] = op[u]
  BY <1>3 DEF Register, Becomes, IInv, Shapes
<1>5. UNCHANGED <<fds, iso>> /\ nextHandle' = nextHandle + 1
  BY DEF Register, hostVars
<1>6. Shapes'
  <2>1. DOMAIN files' \subseteq 1..nextHandle' - 1
    BY <1>1, <1>2, <1>5 DEF IInv, Shapes
  <2>2. \A h \in DOMAIN files' : IsFile(files'[h])
    BY <1>1, <1>2 DEF IInv, Shapes
  <2>3. DOMAIN op' = Threads /\ \A u \in Threads : Shaped(op'[u])
    BY <1>3 DEF Register, Becomes, IInv, Shapes
  <2> QED
    BY <1>1, <1>5, <2>1, <2>2, <2>3 DEF IInv, Shapes, IsFile, Shaped
<1> HIDE DEF f
<1>7. OwnedIsOpen'
  BY <1>1, <1>2, <1>4, <1>5, Numbers DEF IInv, Owned, OwnedIsOpen
<1>8. Apart'
  <2>1. /\ \A h \in DOMAIN files : files[h].fd = f.fd => f.fd = NoFd
        /\ \A u \in Threads \ {t} : FdOf(op[u]) = f.fd => f.fd = NoFd
        /\ f.fd # iso /\ NoFd # iso
    BY <1>1, Numbers DEF IInv, Shapes, Owned, Apart
  <2> QED
    BY <1>2, <1>4, <1>5, <2>1 DEF IInv, Owned, Apart
<1>9. OpenIsOwned'
  BY <1>1, <1>2, <1>4, <1>5 DEF IInv, Owned, OpenIsOwned
<1> QED
  BY <1>6, <1>7, <1>8, <1>9 DEF IInv, Owned

LEMMA FindStepKeeps ==
  ASSUME IInv, NEW t \in Threads, FindStep(t)
  PROVE  IInv'
<1>1. ASSUME FindInIso(t) PROVE IInv'
  <2>1. FdOf(op[t]) = NoFd
    BY <1>1 DEF FindInIso, FdOf
  <2>2. CASE NotFound(t) /\ UNCHANGED <<iso, guestVars>>
    <3> DEFINE o == [pc |-> "missing", name |-> op[t].name]
    <3>1. Becomes(t, o) /\ UNCHANGED fds
      BY <2>2 DEF NotFound
    <3>2. Shaped(o) /\ FdOf(o) = NoFd
      BY DEF Shaped, FdOf
    <3> QED
      BY <2>1, <2>2, <3>1, <3>2, Keeps, UnchangedHandles DEF guestVars
  <2>3. ASSUME NEW e, OpenOn(OnImage), UNCHANGED <<iso, guestVars>>,
               Becomes(t, [pc |-> "opened",
                 file |-> FileAt(op[t].name, "file", NewFd, e.length, e.sector, FALSE)])
        PROVE  IInv'
    <3> DEFINE o == [pc |-> "opened",
                 file |-> FileAt(op[t].name, "file", NewFd, e.length, e.sector, FALSE)]
    <3>1. Shaped(o) /\ FdOf(o) = NewFd
      BY <2>3, NewFdIsFree DEF OpenOn, Shaped, FdOf, IsFile, FileAt
    <3> QED
      BY <2>1, <2>3, <3>1, Acquires, NothingIsClosed
  <2> QED
    BY <1>1, <2>2, <2>3 DEF FindInIso
<1>2. ASSUME FindInTree(t) PROVE IInv'
  <2>1. FdOf(op[t]) = NoFd /\ UNCHANGED <<iso, guestVars>>
    BY <1>2 DEF FindInTree, FdOf
  <2>2. CASE op[t].name \in Game
    <3> DEFINE o == [pc |-> "stat", name |-> op[t].name, fd |-> NewFd]
    <3>1. Becomes(t, o) /\ OpenOn(OnTree(op[t].name))
      BY <1>2, <2>2 DEF FindInTree
    <3>2. Shaped(o) /\ FdOf(o) = NewFd
      BY <3>1, NewFdIsFree DEF OpenOn, Shaped, FdOf
    <3> QED
      BY <2>1, <3>1, <3>2, Acquires, NothingIsClosed
  <2>3. CASE op[t].name \notin Game
    <3> DEFINE o == [pc |-> "local", name |-> op[t].name]
    <3>1. Becomes(t, o) /\ UNCHANGED fds
      BY <1>2, <2>3 DEF FindInTree
    <3>2. Shaped(o) /\ FdOf(o) = NoFd
      BY DEF Shaped, FdOf
    <3> QED
      BY <2>1, <3>1, <3>2, Keeps, UnchangedHandles DEF guestVars
  <2> QED
    BY <2>2, <2>3
<1>3. ASSUME Stat(t) PROVE IInv'
  <2>1. FdOf(op[t]) = op[t].fd /\ op[t].fd \in Fds /\ UNCHANGED <<iso, guestVars>>
    BY <1>3 DEF Stat, FdOf, IInv, Shapes, Shaped
  <2>2. CASE op[t].name \in Virtual
    <3> DEFINE o == [pc |-> "local", name |-> op[t].name]
    <3>1. Becomes(t, o) /\ CloseFd(op[t].fd)
      BY <1>3, <2>2 DEF Stat, NotRegular
    <3>2. Shaped(o) /\ FdOf(o) = NoFd
      BY DEF Shaped, FdOf
    <3> QED
      BY <2>1, <3>1, <3>2, Releases
  <2>3. CASE op[t].name \notin Virtual
    <3> DEFINE o == [pc |-> "opened", file |-> FileAt(op[t].name, "file", op[t].fd,
                                                     Len(Content[op[t].name]), 0, FALSE)]
    <3>1. Becomes(t, o) /\ UNCHANGED fds
      BY <1>3, <2>3 DEF Stat
    <3>2. Shaped(o) /\ FdOf(o) = op[t].fd
      BY <2>1 DEF Shaped, FdOf, IsFile, FileAt
    <3> QED
      BY <2>1, <3>1, <3>2, Keeps, UnchangedHandles DEF guestVars
  <2> QED
    BY <2>2, <2>3
<1>4. ASSUME FindLocally(t) PROVE IInv'
  <2> DEFINE n == op[t].name
  <2>1. FdOf(op[t]) = NoFd /\ UNCHANGED <<iso, guestVars>>
    BY <1>4 DEF FindLocally, FdOf
  <2>2. CASE OpenOn(OnLocal(n)) /\ Becomes(t, [pc |-> "opened",
                 file |-> FileAt(n, "file", NewFd, Len(local[n]), 0, FALSE)])
    <3> DEFINE o == [pc |-> "opened", file |-> FileAt(n, "file", NewFd, Len(local[n]), 0, FALSE)]
    <3>1. Shaped(o) /\ FdOf(o) = NewFd
      BY <2>2, NewFdIsFree DEF OpenOn, Shaped, FdOf, IsFile, FileAt
    <3> QED
      BY <2>1, <2>2, <3>1, Acquires, NothingIsClosed
  <2>3. ASSUME NEW c \in {"copy", "missing"}, Becomes(t, [pc |-> c, name |-> n]), UNCHANGED fds
        PROVE  IInv'
    <3>1. Shaped([pc |-> c, name |-> n]) /\ FdOf([pc |-> c, name |-> n]) = NoFd
      BY DEF Shaped, FdOf
    <3> QED
      BY <2>1, <2>3, <3>1, Keeps, UnchangedHandles DEF guestVars
  <2> QED
    BY <1>4, <2>2, <2>3 DEF FindLocally, NotFound
<1>5. ASSUME CopyBegins(t) \/ Copy(t) \/ CopyFails(t) PROVE IInv'
  <2>1. FdOf(op[t]) = NoFd /\ UNCHANGED <<fds, iso, guestVars>>
    BY <1>5 DEF CopyBegins, Copy, CopyFails, FdOf, hostVars
  <2>2. \E o : Becomes(t, o) /\ Shaped(o) /\ FdOf(o) = NoFd
    <3>1. CASE CopyBegins(t)
      BY <3>1 DEF CopyBegins, Shaped, FdOf
    <3>2. CASE Copy(t)
      <4>1. op[t].pc = "copying" /\ "pc" \in DOMAIN op[t]
        BY <3>2 DEF Copy, IInv, Shapes, Shaped
      <4>2. \A i : Shaped([op[t] EXCEPT !.at = i]) /\ FdOf([op[t] EXCEPT !.at = i]) = NoFd
        BY <4>1 DEF Shaped, FdOf
      <4>3. \A n, c : c \in {"missing", "reopening"} =>
              Shaped([pc |-> c, name |-> n]) /\ FdOf([pc |-> c, name |-> n]) = NoFd
        BY DEF Shaped, FdOf
      <4> QED
        BY <3>2, <4>2, <4>3 DEF Copy
    <3>3. CASE CopyFails(t)
      BY <3>3 DEF CopyFails, Shaped, FdOf
    <3> QED
      BY <1>5, <3>1, <3>2, <3>3
  <2> QED
    BY <2>1, <2>2, Keeps, UnchangedHandles DEF guestVars
<1>6. ASSUME LoadFromIso(t) PROVE IInv'
  <2>1. FdOf(op[t]) = NoFd /\ UNCHANGED <<fds, iso, guestVars>>
    BY <1>6 DEF LoadFromIso, FdOf, hostVars
  <2>2. \E o : Becomes(t, o) /\ Shaped(o) /\ FdOf(o) = NoFd
    <3>1. \A n, d, r : /\ Shaped(Result(n, "file", 0, d, r, FALSE))
                       /\ FdOf(Result(n, "file", 0, d, r, FALSE)) = NoFd
      BY DEF Result, Shaped, FdOf
    <3>2. \A n : Shaped([pc |-> "missing", name |-> n]) /\ FdOf([pc |-> "missing", name |-> n]) = NoFd
      BY DEF Shaped, FdOf
    <3> QED
      BY <1>6, <3>1, <3>2 DEF LoadFromIso
  <2> QED
    BY <2>1, <2>2, Keeps, UnchangedHandles DEF guestVars
<1>7. ASSUME LoadFromTree(t) PROVE IInv'
  <2> DEFINE o == [pc |-> "loadingFd", name |-> op[t].name, fd |-> NewFd]
  <2>1. FdOf(op[t]) = NoFd /\ UNCHANGED <<iso, guestVars>>
    BY <1>7 DEF LoadFromTree, FdOf
  <2>2. Becomes(t, o) /\ OpenOn(OnTree(op[t].name))
    BY <1>7 DEF LoadFromTree
  <2>3. Shaped(o) /\ FdOf(o) = NewFd
    BY <2>2, NewFdIsFree DEF OpenOn, Shaped, FdOf
  <2> QED
    BY <2>1, <2>2, <2>3, Acquires, NothingIsClosed
<1>8. ASSUME ReadFdFully(t) PROVE IInv'
  <2> DEFINE n == op[t].name
             o == Result(n, "file", 0, CellsOf(fds[op[t].fd]), Content[n], FALSE)
  <2>1. /\ FdOf(op[t]) = op[t].fd /\ op[t].fd \in Fds
        /\ UNCHANGED <<iso, guestVars>> /\ CloseFd(op[t].fd) /\ Becomes(t, o)
    BY <1>8 DEF ReadFdFully, FdOf, IInv, Shapes, Shaped
  <2>2. Shaped(o) /\ FdOf(o) = NoFd
    BY DEF Result, Shaped, FdOf
  <2> QED
    BY <2>1, <2>2, Releases
<1> QED
  BY <1>1, <1>2, <1>3, <1>4, <1>5, <1>6, <1>7, <1>8, EnsureIsoKeeps, EnsureIsoFailsKeeps, RegisterKeeps
  DEF FindStep

\* fileClose: the descriptor passes from the handle to the call, which closes it.
LEMMA CloseKeeps ==
  ASSUME IInv, NEW t \in Threads, NEW h, Close(t, h)
  PROVE  IInv'
<1> DEFINE g == files[h].fd
           o == IF g = NoFd THEN Idle ELSE [pc |-> "closing", fd |-> g]
<1>1. h \in DOMAIN files /\ g \in Fds \union {NoFd} /\ FdOf(op[t]) = NoFd
  BY FreeHasNone DEF Close, Starts, IInv, Shapes, IsFile
<1>2. Becomes(t, o) /\ files' = Without(h) /\ UNCHANGED <<fds, iso, nextHandle>>
  BY DEF Close, Erase
<1>3. FdOf(o) = g /\ Shaped(o)
  BY <1>1 DEF FdOf, Shaped, Idle
<1>4. /\ DOMAIN files' = DOMAIN files \ {h}
      /\ \A k \in DOMAIN files' : files'[k] = files[k]
  BY <1>2 DEF Without
<1> HIDE DEF o
<1>5. FdOf(op'[t]) = g /\ \A u \in Threads \ {t} : FdOf(op'[u]) = FdOf(op[u])
  BY <1>2, <1>3 DEF Becomes, IInv, Shapes
<1>6. Shapes'
  <2>1. \A k \in DOMAIN files' : IsFile(files'[k])
    BY <1>4 DEF IInv, Shapes
  <2>2. DOMAIN op' = Threads /\ \A u \in Threads : Shaped(op'[u])
    BY <1>2, <1>3 DEF Becomes, IInv, Shapes
  <2> QED
    BY <1>2, <1>4, <2>1, <2>2 DEF IInv, Shapes, IsFile, Shaped
<1>7. OwnedIsOpen'
  BY <1>1, <1>2, <1>4, <1>5 DEF IInv, Owned, OwnedIsOpen
<1>8. Apart'
  <2>1. /\ \A k \in DOMAIN files \ {h} : files[k].fd = g => g = NoFd
        /\ \A u \in Threads : FdOf(op[u]) = g => g = NoFd
        /\ g # iso
    BY <1>1 DEF IInv, Owned, Apart
  <2> QED
    BY <1>2, <1>4, <1>5, <2>1 DEF IInv, Owned, Apart
<1>9. OpenIsOwned'
  BY <1>1, <1>2, <1>4, <1>5, Numbers DEF IInv, Owned, OpenIsOwned
<1> QED
  BY <1>6, <1>7, <1>8, <1>9 DEF IInv, Owned

\* A transfer moves the position or the size of a file, not its descriptor.
LEMMA DeliversKeeps ==
  ASSUME IInv, NEW t \in Threads, NEW got, NEW failed, op[t].pc = "reading", Delivers(t, got, failed)
  PROVE  IInv'
<1>1. FdOf(op[t]) = NoFd /\ UNCHANGED <<fds, iso, nextHandle>>
  BY DEF Delivers, FdOf, hostVars
<1>2. \E o : Becomes(t, o) /\ Shaped(o) /\ FdOf(o) = NoFd
  BY DEF Delivers, Result, Shaped, FdOf
<1>3. SameHandles
  <2>1. \E h, p : files' = [files EXCEPT ![h].pos = p]
    BY DEF Delivers
  <2> QED
    BY <2>1 DEF SameHandles, IInv, Shapes, IsFile
<1> QED
  BY <1>1, <1>2, <1>3, Keeps

LEMMA FileStepKeeps ==
  ASSUME IInv, NEW t \in Threads, FileStep(t)
  PROVE  IInv'
<1>1. ASSUME NEW h, NEW off, ReadFile(t, h, off, 2) \/ WriteFile(t, h, off) PROVE IInv'
  <2>1. FdOf(op[t]) = NoFd /\ UNCHANGED <<fds, iso, guestVars>>
    BY <1>1, FreeHasNone DEF ReadFile, WriteFile, Starts, hostVars
  <2>2. \E o : Becomes(t, o) /\ Shaped(o) /\ FdOf(o) = NoFd
    BY <1>1 DEF ReadFile, WriteFile, Shaped, FdOf
  <2> QED
    BY <2>1, <2>2, Keeps, UnchangedHandles DEF guestVars
<1>2. ASSUME Pread(t) \/ PreadFails(t) PROVE IInv'
  BY <1>2, DeliversKeeps DEF Pread, PreadFails
<1>3. ASSUME Pwrite(t) PROVE IInv'
  <2>1. FdOf(op[t]) = NoFd /\ UNCHANGED <<fds, iso, nextHandle>>
    BY <1>3 DEF Pwrite, FdOf
  <2>2. Becomes(t, Idle) /\ Shaped(Idle) /\ FdOf(Idle) = NoFd
    BY <1>3 DEF Pwrite, Idle, Shaped, FdOf
  <2>3. SameHandles
    <3>1. \E h, s, p : files' = [files EXCEPT ![h].size = s, ![h].pos = p]
      BY <1>3 DEF Pwrite
    <3> QED
      BY <3>1 DEF SameHandles, IInv, Shapes, IsFile
  <2> QED
    BY <2>1, <2>2, <2>3, Keeps
<1>4. ASSUME PwriteFails(t) PROVE IInv'
  <2>1. FdOf(op[t]) = NoFd /\ UNCHANGED <<fds, iso, guestVars>>
    BY <1>4 DEF PwriteFails, FdOf, hostVars
  <2>2. Becomes(t, Idle) /\ Shaped(Idle) /\ FdOf(Idle) = NoFd
    BY <1>4 DEF PwriteFails, Idle, Shaped, FdOf
  <2> QED
    BY <2>1, <2>2, Keeps, UnchangedHandles DEF guestVars
<1>5. ASSUME CloseEnds(t) PROVE IInv'
  <2>1. /\ FdOf(op[t]) = op[t].fd /\ op[t].fd \in Fds
        /\ UNCHANGED <<iso, guestVars>> /\ CloseFd(op[t].fd) /\ Becomes(t, Idle)
    BY <1>5 DEF CloseEnds, FdOf, IInv, Shapes, Shaped
  <2>2. Shaped(Idle) /\ FdOf(Idle) = NoFd
    BY DEF Idle, Shaped, FdOf
  <2> QED
    BY <2>1, <2>2, Releases
<1> QED
  BY <1>1, <1>2, <1>3, <1>4, <1>5, CloseKeeps DEF FileStep

\* filesCloseAll closes what the handles have; no call has anything, since none is under way.
LEMMA FilesCloseAllKeeps ==
  ASSUME IInv, FilesCloseAll
  PROVE  IInv'
<1> DEFINE mine == {files[h].fd : h \in DOMAIN files}
<1>1. /\ fds' = [f \in Fds |-> IF f \in mine THEN Closed ELSE fds[f]]
      /\ files' = <<>> /\ op' = [t \in Threads |-> Idle] /\ UNCHANGED <<iso, nextHandle>>
  BY DEF FilesCloseAll
<1>2. DOMAIN files' = {}
  BY <1>1
<1>3. Shaped(Idle) /\ FdOf(Idle) = NoFd
  BY DEF Idle, Shaped, FdOf
<1>4. \A t \in Threads : FdOf(op[t]) = NoFd
  BY FreeHasNone DEF FilesCloseAll
<1>5. Shapes'
  BY <1>1, <1>2, <1>3 DEF IInv, Shapes
<1>6. iso \notin mine
  BY DEF IInv, Owned, Apart
<1>7. OwnedIsOpen'
  BY <1>1, <1>2, <1>3, <1>6, Numbers DEF IInv, Owned, OwnedIsOpen
<1>8. Apart'
  BY <1>1, <1>2, <1>3, Numbers DEF IInv, Shapes, Apart
<1>9. OpenIsOwned'
  BY <1>1, <1>2, <1>4, Numbers DEF IInv, Owned, OpenIsOwned
<1> QED
  BY <1>5, <1>7, <1>8, <1>9 DEF IInv, Owned

\* A new process owns nothing.
NothingOpen ==
  /\ fds = [f \in Fds |-> Closed] /\ iso = Untried
  /\ files = <<>> /\ nextHandle = 1 /\ op = [t \in Threads |-> Idle]
LEMMA NothingOwned == NothingOpen => IInv
<1> SUFFICES ASSUME NothingOpen PROVE IInv
  OBVIOUS
<1> USE DEF NothingOpen
<1>1. DOMAIN files = {} /\ Shaped(Idle) /\ FdOf(Idle) = NoFd
  BY DEF Idle, Shaped, FdOf
<1>2. Shapes
  BY <1>1 DEF Shapes
<1>3. Owned
  BY <1>1, Numbers DEF Owned, OwnedIsOpen, Apart, OpenIsOwned
<1> QED
  BY <1>2, <1>3 DEF IInv

-----------------------------------------------------------------------------
LEMMA StepKeeps == IInv /\ [Next]_vars => IInv'
<1> SUFFICES ASSUME IInv, [Next]_vars PROVE IInv'
  OBVIOUS
<1>1. CASE UNCHANGED vars
  BY <1>1 DEF vars, hostVars, guestVars, IInv, Shapes, Shaped, FdOf, IsFile,
              Owned, OwnedIsOpen, Apart, OpenIsOwned
<1>2. CASE Restart
  <2>1. NothingOpen'
    BY <1>2 DEF Restart, NothingOpen
  <2>2. NothingOpen' => IInv'
    BY NothingOwned, PTL
  <2> QED
    BY <2>1, <2>2
<1> QED
  BY <1>1, <1>2, OpenStepKeeps, FindStepKeeps, FileStepKeeps, FilesCloseAllKeeps DEF Next

\* No descriptor leaks and none is closed twice, for any threads, files, images and failures.
THEOREM FdsAlwaysOwned == Spec => []FdsAreOwned
<1>1. Init => IInv
  BY NothingOwned DEF Init, NothingOpen
<1> QED
  BY <1>1, StepKeeps, OwnedMeans, PTL DEF Spec

-----------------------------------------------------------------------------
(* Sequences of cells *)

LEMMA Extremes ==
  ASSUME NEW a \in Int, NEW b \in Int
  PROVE  /\ Max({a, b}) = (IF a >= b THEN a ELSE b)
         /\ Min({a, b}) = (IF a <= b THEN a ELSE b)
<1>1. ASSUME NEW m \in {a, b}, m >= a, m >= b PROVE Max({a, b}) = m
  <2>1. \A x \in {a, b} : (\A y \in {a, b} : x >= y) <=> x = m
    BY <1>1
  <2> QED
    BY <2>1 DEF Max
<1>2. ASSUME NEW m \in {a, b}, m <= a, m <= b PROVE Min({a, b}) = m
  <2>1. \A x \in {a, b} : (\A y \in {a, b} : x <= y) <=> x = m
    BY <1>2
  <2> QED
    BY <2>1 DEF Min
<1> QED
  BY <1>1, <1>2

LEMMA Sizes ==
  /\ Len(Image) \in Nat /\ MaxCells \in Nat /\ MaxLen <= MaxCells /\ Len(Image) <= MaxCells
  /\ \A n \in Game : Len(Content[n]) \in 0..MaxLen
  /\ Zero \in Cells /\ \A n \in (Names \ Game) \union {Device} : <<n, 1>> \in Cells
<1>1. Len(Image) \in Nat /\ \A n \in Game : Len(Content[n]) \in 0..MaxLen
  BY ContentAssumption, LenProperties
<1>2. Zero \in Cells /\ \A n \in (Names \ Game) \union {Device} : <<n, 1>> \in Cells
  <2> DEFINE disc == (UNION {ToSet(Content[n]) : n \in Game}) \union ToSet(Image)
             own == {<<n, 1>> : n \in (Names \ Game) \union {Device}}
  <2>1. Cells = disc \union own \union {Zero}
    BY DEF Cells
  <2>2. \A n \in (Names \ Game) \union {Device} : <<n, 1>> \in own
    OBVIOUS
  <2> HIDE DEF disc, own
  <2> QED
    BY <2>1, <2>2
<1> QED
  BY <1>1, <1>2, Extremes, BoundsAssumption DEF MaxCells

\* Nothing that is stored is the mark of a file that is not there.
LEMMA StoredIsThere ==
  ASSUME NEW cells \in Seq(Cells) PROVE cells # Absent
<1> SUFFICES ASSUME cells = Absent PROVE FALSE
  OBVIOUS
<1>1. Len(cells) = 1 /\ 1 \in 1..Len(cells)
  BY DEF Absent
<1>2. cells[1] \in Cells
  BY <1>1, ElementOfSeq
<1> QED
  BY <1>2, ContentAssumption

\* What a slice of some cells is: those from the offset on, as many as there are.
LEMMA SliceIs ==
  ASSUME NEW cells \in Seq(Cells), NEW off \in Nat, NEW n \in Nat
  PROVE  /\ Slice(cells, off, n) \in Seq(Cells)
         /\ Len(Slice(cells, off, n)) = IF off >= Len(cells) THEN 0
                                        ELSE IF off + n <= Len(cells) THEN n ELSE Len(cells) - off
         /\ Len(Slice(cells, off, n)) \in 0..n
         /\ \A i \in 1..Len(Slice(cells, off, n)) : Slice(cells, off, n)[i] = cells[off + i]
<1> DEFINE last == Min({off + n, Len(cells)})
<1>1. Len(cells) \in Nat /\ \A i \in 1..Len(cells) : cells[i] \in Cells
  BY LenProperties, ElementOfSeq
<1>2. last = (IF off + n <= Len(cells) THEN off + n ELSE Len(cells)) /\ last \in Nat
  <2>1. off + n \in Int /\ Len(cells) \in Int
    BY <1>1
  <2>2. last = IF off + n <= Len(cells) THEN off + n ELSE Len(cells)
    BY <2>1, Extremes
  <2> HIDE DEF last
  <2> QED
    BY <1>1, <2>1, <2>2
<1>3. \A i \in off + 1..last : cells[i] \in Cells
  BY <1>1, <1>2
<1> HIDE DEF last
<1>4. /\ SubSeq(cells, off + 1, last) \in Seq(Cells)
      /\ Len(SubSeq(cells, off + 1, last)) = IF off + 1 <= last THEN last - (off + 1) + 1 ELSE 0
      /\ \A i \in 1..last - (off + 1) + 1 : SubSeq(cells, off + 1, last)[i] = cells[off + 1 + i - 1]
  BY <1>2, <1>3, SubSeqProperties
<1>5. Slice(cells, off, n) = SubSeq(cells, off + 1, last)
  BY DEF Slice, last
<1> QED
  BY <1>1, <1>2, <1>4, <1>5

LEMMA WholeSlice == ASSUME NEW cells \in Seq(Cells) PROVE Slice(cells, 0, Len(cells)) = cells
<1> DEFINE s == Slice(cells, 0, Len(cells))
<1>1. Len(cells) \in Nat
  BY LenProperties
<1>2. s \in Seq(Cells) /\ Len(s) = Len(cells) /\ \A i \in 1..Len(s) : s[i] = cells[0 + i]
  <2>1. /\ s \in Seq(Cells)
        /\ Len(s) = IF 0 >= Len(cells) THEN 0
                    ELSE IF 0 + Len(cells) <= Len(cells) THEN Len(cells) ELSE Len(cells) - 0
        /\ \A i \in 1..Len(s) : s[i] = cells[0 + i]
    BY <1>1, SliceIs
  <2> QED
    BY <1>1, <2>1
<1> HIDE DEF s
<1>3. \A i \in 1..Len(s) : s[i] = cells[i]
  BY <1>1, <1>2
<1>4. s = cells
  BY <1>2, <1>3, SeqEqual
<1> QED
  BY <1>4 DEF s

\* A slice of a slice is a slice of the whole.
LEMMA SliceOfSlice ==
  ASSUME NEW cells \in Seq(Cells), NEW base \in Nat, NEW size \in Nat, base + size <= Len(cells),
         NEW off \in Nat, NEW n \in Nat, n = 0 \/ off + n <= size
  PROVE  Slice(Slice(cells, base, size), off, n) = Slice(cells, base + off, n)
<1> DEFINE part == Slice(cells, base, size)
           s == Slice(part, off, n)
           t == Slice(cells, base + off, n)
<1>0. Len(cells) \in Nat
  BY LenProperties
<1>1. part \in Seq(Cells) /\ Len(part) = size /\ \A i \in 1..size : part[i] = cells[base + i]
  <2>1. /\ part \in Seq(Cells)
        /\ Len(part) = IF base >= Len(cells) THEN 0
                    ELSE IF base + size <= Len(cells) THEN size ELSE Len(cells) - (base)
        /\ \A i \in 1..Len(part) : part[i] = cells[base + i]
    BY <1>0, SliceIs
  <2> HIDE DEF part
  <2> QED
    BY <1>0, <2>1
<1> HIDE DEF part
<1>2. s \in Seq(Cells) /\ Len(s) = n /\ \A i \in 1..n : s[i] = part[off + i]
  <2>1. /\ s \in Seq(Cells)
        /\ Len(s) = IF off >= Len(part) THEN 0
                    ELSE IF off + n <= Len(part) THEN n ELSE Len(part) - (off)
        /\ \A i \in 1..Len(s) : s[i] = part[off + i]
    BY <1>1, SliceIs
  <2> HIDE DEF s
  <2> QED
    BY <1>1, <2>1
<1>3. t \in Seq(Cells) /\ Len(t) = n /\ \A i \in 1..n : t[i] = cells[base + off + i]
  <2>1. base + off \in Nat
    OBVIOUS
  <2>2. /\ t \in Seq(Cells)
        /\ Len(t) = IF base + off >= Len(cells) THEN 0
                    ELSE IF base + off + n <= Len(cells) THEN n ELSE Len(cells) - (base + off)
        /\ \A i \in 1..Len(t) : t[i] = cells[base + off + i]
    BY <1>0, <2>1, SliceIs
  <2> HIDE DEF t
  <2> QED
    BY <1>0, <2>1, <2>2
<1> HIDE DEF s, t
<1>4. \A i \in 1..n : s[i] = t[i]
  <2> SUFFICES ASSUME NEW i \in 1..n PROVE s[i] = t[i]
    OBVIOUS
  <2>1. off + i \in 1..size /\ base + (off + i) = base + off + i
    OBVIOUS
  <2> QED
    BY <1>1, <1>2, <1>3, <2>1
<1>5. s = t
  BY <1>2, <1>3, <1>4, SeqEqual
<1> QED
  BY <1>5 DEF s, t, part

\* A write of one cell leaves the others, and zeros in a hole before it.
LEMMA PutIs ==
  ASSUME NEW cells \in Seq(Cells), NEW off \in Nat, NEW c \in Cells
  PROVE  /\ Put(cells, off, c) \in Seq(Cells)
         /\ Len(Put(cells, off, c)) = IF Len(cells) >= off + 1 THEN Len(cells) ELSE off + 1
         /\ \A i \in 1..Len(Put(cells, off, c)) :
              Put(cells, off, c)[i] = IF i = off + 1 THEN c
                                      ELSE IF i <= Len(cells) THEN cells[i] ELSE Zero
<1> DEFINE top == Max({Len(cells), off + 1})
           e(i) == IF i = off + 1 THEN c ELSE IF i <= Len(cells) THEN cells[i] ELSE Zero
<1>1. Len(cells) \in Nat /\ \A i \in 1..Len(cells) : cells[i] \in Cells
  BY LenProperties, ElementOfSeq
<1>2. top = (IF Len(cells) >= off + 1 THEN Len(cells) ELSE off + 1) /\ top \in Nat
  BY <1>1, Extremes
<1> HIDE DEF top
<1>3. Put(cells, off, c) = [i \in 1..top |-> e(i)]
  BY DEF Put, top
<1>4. [i \in 1..top |-> e(i)] \in [1..top -> Cells]
  BY <1>1, <1>2, Sizes
<1>5. Put(cells, off, c) \in Seq(Cells)
  BY <1>2, <1>3, <1>4, SeqDef
<1>6. DOMAIN Put(cells, off, c) = 1..top /\ DOMAIN Put(cells, off, c) = 1..Len(Put(cells, off, c))
  BY <1>3, <1>5, LenProperties
<1>7. Len(Put(cells, off, c)) = top
  BY <1>2, <1>5, <1>6, LenProperties
<1> QED
  BY <1>2, <1>3, <1>5, <1>7

\* What a device delivers has the length that was asked for, zeros after what was read.
LEMMA PaddedIs ==
  ASSUME NEW got \in Seq(Cells), NEW want \in Nat, Len(got) <= want
  PROVE  /\ got \o Zeros(want - Len(got)) \in Seq(Cells)
         /\ Len(got \o Zeros(want - Len(got))) = want
         /\ \A i \in 1..want : (got \o Zeros(want - Len(got)))[i] =
                                 IF i <= Len(got) THEN got[i] ELSE Zero
<1> DEFINE z == want - Len(got)
<1>1. Len(got) \in Nat /\ z \in Nat
  BY LenProperties
<1> HIDE DEF z
<1>2. Zeros(z) \in [1..z -> Cells]
  BY Sizes DEF Zeros
<1>3. Zeros(z) \in Seq(Cells)
  BY <1>1, <1>2, SeqDef
<1>4. DOMAIN Zeros(z) = 1..z /\ DOMAIN Zeros(z) = 1..Len(Zeros(z)) /\ Len(Zeros(z)) \in Nat
  BY <1>2, <1>3, LenProperties
<1>5. Len(Zeros(z)) = z
  BY <1>1, <1>4
<1>6. \A i \in 1..z : Zeros(z)[i] = Zero
  BY DEF Zeros
<1>7. /\ got \o Zeros(z) \in Seq(Cells)
      /\ Len(got \o Zeros(z)) = Len(got) + Len(Zeros(z))
      /\ \A i \in 1..Len(got) + Len(Zeros(z)) : (got \o Zeros(z))[i] =
           IF i <= Len(got) THEN got[i] ELSE Zeros(z)[i - Len(got)]
  BY <1>3, ConcatProperties
<1>8. Len(got) + z = want
  BY <1>1 DEF z
<1> QED
  BY <1>1, <1>5, <1>6, <1>7, <1>8 DEF z

-----------------------------------------------------------------------------
(* What a file is of, and what a call in progress may rely on.             *)

\* The part of what its descriptor is open on that a file is.
Backed(f, what) ==
  \/ /\ f.kind = "file" /\ f.name \in Game \ Virtual /\ ~f.write
     /\ what = OnTree(f.name) /\ f.base = 0 /\ f.size = Len(Content[f.name])
  \/ /\ f.kind = "file" /\ f.name \in Game /\ ~f.write
     /\ what = OnImage /\ f.base + f.size <= Total /\ Slice(Image, f.base, f.size) = Content[f.name]
  \/ /\ f.kind = "file" /\ f.name \in (Names \ Game) \union Virtual /\ (f.write => f.name \notin Game)
     /\ what = OnLocal(f.name) /\ f.base = 0 /\ f.size <= MaxLen
  \/ /\ f.kind = "device" /\ f.name = Device
     /\ what = OnLocal(Device) /\ f.base = 0 /\ f.size = MaxLen
  \/ /\ f.kind = "disc" /\ f.name = Volume /\ ~f.write
     /\ what = OnImage /\ f.base = 0 /\ f.size = Total
FileOk(f) ==
  /\ f \in GuestFile /\ (f.kind # "disc" => f.pos <= MaxLen)
  /\ IF f.fd = NoFd THEN f.kind \in {"dir", "disc"} /\ ~f.write ELSE Backed(f, fds[f.fd])
FilesOk == \A h \in DOMAIN files : FileOk(files[h])

\* A transfer in progress has its file, and what it reads lies inside it.
TransferOk(o) ==
  /\ o.h \in DOMAIN files /\ files[o.h].kind # "dir"
  /\ o.pc = "reading" => o.want = 0 \/ o.off + o.want <= files[o.h].size
  /\ o.pc = "writing" => files[o.h].write /\ files[o.h].fd # NoFd /\ o.off < MaxLen
\* Cells of a file of the disc from an offset on, or holes of a copy.
CopyOf(n, cells, off) ==
  \A i \in 1..Len(cells) : cells[i] \in {Content[n][off + i], Zero}
ResultOk(o) ==
  /\ o.kind = "file" /\ o.name \in Game =>
       IF o.name \in Virtual THEN CopyOf(o.name, o.data, o.off) ELSE o.io \/ o.data = o.ref
  /\ o.kind = "device" /\ ~o.io => o.data = o.ref
\* A name is looked for in the app's own storage when it is not a regular file of the disc.
Rest(o) ==
  /\ o.pc \in {"local", "copy", "copying", "reopening"} => o.name \notin Game \ Virtual
  /\ o.pc \in {"copy", "copying", "loading"} => o.name \in Game
  /\ o.pc \in {"stat", "loadingFd"} => fds[o.fd] = OnTree(o.name)
  /\ o.pc = "copying" => local[o.name] # Absent /\ o.at <= Len(Content[o.name])
  /\ o.pc = "opened" => FileOk(o.file)
  /\ o.pc \in {"reading", "writing"} => TransferOk(o)
  /\ o.pc = "read" => ResultOk(o)
OpsOk == \A t \in Threads : op[t] \in Ops /\ Rest(op[t])

CellsOk(n, cells) ==
  /\ cells \in Seq(Cells) /\ Len(cells) <= MaxLen
  /\ n \in Game => Len(cells) <= Len(Content[n]) /\ CopyOf(n, cells, 0)
Stored == Names \union {Device}
LocalOk ==
  /\ DOMAIN local = Stored
  /\ \A n \in Stored : local[n] = Absent \/ CellsOk(n, local[n])
  /\ \A g \in Fds, n \in Stored : fds[g] = OnLocal(n) => local[n] # Absent
\* The backing file is what was written to the disk, zeros after its end.
DiskOk ==
  /\ disk \in [1..MaxLen -> Cells]
  /\ \A i \in 1..MaxLen :
       disk[i] = IF local[Device] # Absent /\ i <= Len(local[Device]) THEN local[Device][i] ELSE Zero

\* Every handle was a call, and so is every one to come from a call in progress.
ToRegister == {"finding", "local", "copy", "copying", "reopening", "stat", "opened"}
Opening == {t \in Threads : op[t].pc \in ToRegister}
Counted == calls \in 0..MaxCalls /\ nextHandle - 1 + Cardinality(Opening) <= calls
Hosts == fds \in [Fds -> HostFiles \union {Closed}] /\ assetsIsIso \in BOOLEAN
Data == Hosts /\ LocalOk /\ DiskOk /\ Counted /\ FilesOk /\ OpsOk
Inv == IInv /\ Data

-----------------------------------------------------------------------------
(* What the properties need *)

LEMMA TypedMeans == Inv => TypeOK
<1> SUFFICES ASSUME Inv PROVE TypeOK
  OBVIOUS
<1>1. Hosts /\ \A n \in Names \union {Device} :
        local[n] = Absent \/ (Len(local[n]) <= MaxLen /\ local[n] \in Seq(Cells))
  BY DEF Inv, Data, LocalOk, CellsOk, Stored
<1>2. iso \in Fds \union {Untried, Failed} /\ nextHandle \in Nat \ {0} /\ DOMAIN files \subseteq 1..nextHandle - 1
  BY DEF Inv, IInv, Shapes
<1>3. nextHandle <= MaxCalls + 1
  <2>1. Cardinality(Opening) \in Nat
    <3>1. IsFiniteSet(Opening)
      BY ThreadsAreFinite, FS_Subset DEF Opening
    <3> QED
      BY <3>1, FS_CardinalityType
  <2> QED
    BY <1>2, <2>1, BoundsAssumption DEF Inv, Data, Counted
<1>4. \A h \in DOMAIN files : files[h] \in GuestFile /\ (files[h].kind # "disc" => files[h].pos <= MaxLen)
  BY DEF Inv, Data, FilesOk, FileOk
<1>5. \A t \in Threads : op[t] \in Ops
  BY DEF Inv, Data, OpsOk
<1> QED
  BY <1>1, <1>2, <1>3, <1>4, <1>5, BoundsAssumption DEF TypeOK, Hosts

LEMMA ReadsMean == Inv => ReadsOwnBytes /\ DeviceReadsBack
  BY DEF Inv, Data, OpsOk, Rest, ResultOk, CopyOf, ReadsOwnBytes, DeviceReadsBack

-----------------------------------------------------------------------------
(* What a read gives *)

LEMMA CellsBehind ==
  /\ \A n : CellsOf(OnTree(n)) = Content[n] /\ CellsOf(OnLocal(n)) = local[n]
  /\ CellsOf(OnImage) = Image
  BY DEF CellsOf, OnTree, OnLocal, OnImage

\* The disk is as long as its backing file may get.
LEMMA DiskIs == ASSUME DiskOk PROVE disk \in Seq(Cells) /\ Len(disk) = MaxLen
<1>1. disk \in Seq(Cells)
  BY SeqDef, BoundsAssumption DEF DiskOk
<1>2. DOMAIN disk = 1..MaxLen /\ DOMAIN disk = 1..Len(disk) /\ Len(disk) \in Nat
  BY <1>1, LenProperties DEF DiskOk
<1> QED
  BY <1>1, <1>2, BoundsAssumption

\* What was stored is there, and is what the name may hold.
LEMMA StoredIs ==
  ASSUME LocalOk, NEW g \in Fds, NEW n \in Stored, fds[g] = OnLocal(n)
  PROVE  local[n] # Absent /\ CellsOk(n, local[n])
  BY DEF LocalOk

\* A slice of a copy is a copy from there on.
LEMMA SliceOfCopy ==
  ASSUME NEW n \in Game, NEW cells, CellsOk(n, cells), NEW off \in Nat, NEW want \in Nat
  PROVE  CopyOf(n, Slice(cells, off, want), off)
<1> DEFINE s == Slice(cells, off, want)
<1>1. cells \in Seq(Cells) /\ Len(cells) \in Nat
  BY LenProperties DEF CellsOk
<1>2. /\ Len(s) = IF off >= Len(cells) THEN 0
                  ELSE IF off + want <= Len(cells) THEN want ELSE Len(cells) - off
      /\ \A i \in 1..Len(s) : s[i] = cells[off + i]
  BY <1>1, SliceIs
<1> HIDE DEF s
<1>3. \A i \in 1..Len(s) : off + i \in 1..Len(cells)
  BY <1>1, <1>2
<1>4. \A i \in 1..Len(cells) : cells[i] \in {Content[n][i], Zero}
  <2>1. \A i \in 1..Len(cells) : 0 + i = i
    BY <1>1
  <2> QED
    BY <2>1 DEF CellsOk, CopyOf
<1>5. \A i \in 1..Len(s) : s[i] \in {Content[n][off + i], Zero}
  BY <1>2, <1>3, <1>4
<1> QED
  BY <1>5 DEF CopyOf, s

\* The hard disk reads as it was written, whatever the length of its backing file.
LEMMA DeviceReads ==
  ASSUME DiskOk, NEW cells, local[Device] = cells, cells # Absent, cells \in Seq(Cells),
         NEW off \in Nat, NEW want \in Nat, want = 0 \/ off + want <= MaxLen
  PROVE  LET got == Slice(cells, off, want) IN
         got \o Zeros(want - Len(got)) = Slice(disk, off, want)
<1> DEFINE got == Slice(cells, off, want)
           data == got \o Zeros(want - Len(got))
           ref == Slice(disk, off, want)
<1>1. Len(cells) \in Nat /\ disk \in Seq(Cells) /\ Len(disk) = MaxLen
  BY LenProperties, DiskIs
<1>2. /\ got \in Seq(Cells) /\ Len(got) \in 0..want
      /\ Len(got) = IF off >= Len(cells) THEN 0
                    ELSE IF off + want <= Len(cells) THEN want ELSE Len(cells) - off
      /\ \A i \in 1..Len(got) : got[i] = cells[off + i]
  BY SliceIs
<1>3. ref \in Seq(Cells) /\ Len(ref) = want /\ \A i \in 1..Len(ref) : ref[i] = disk[off + i]
  <2>1. /\ ref \in Seq(Cells) /\ Len(ref) \in 0..want
        /\ Len(ref) = IF off >= Len(disk) THEN 0
                      ELSE IF off + want <= Len(disk) THEN want ELSE Len(disk) - off
        /\ \A i \in 1..Len(ref) : ref[i] = disk[off + i]
    BY <1>1, SliceIs
  <2> HIDE DEF ref
  <2> QED
    BY <1>1, <2>1, BoundsAssumption
<1> HIDE DEF got, ref
<1>4. /\ data \in Seq(Cells) /\ Len(data) = want
      /\ \A i \in 1..want : data[i] = IF i <= Len(got) THEN got[i] ELSE Zero
  <2>1. Len(got) <= want
    BY <1>2
  <2> QED
    BY <1>2, <2>1, PaddedIs
<1> HIDE DEF data
<1>5. \A i \in 1..want : data[i] = ref[i]
  <2> SUFFICES ASSUME NEW i \in 1..want PROVE data[i] = ref[i]
    OBVIOUS
  <2>1. off + i \in 1..MaxLen /\ (i <= Len(got) <=> off + i <= Len(cells))
    BY <1>1, <1>2, BoundsAssumption
  <2>2. disk[off + i] = IF off + i <= Len(cells) THEN cells[off + i] ELSE Zero
    BY <2>1 DEF DiskOk
  <2>3. i \in 1..Len(ref) /\ ref[i] = disk[off + i]
    BY <1>3
  <2>4. i <= Len(got) => got[i] = cells[off + i]
    BY <1>2
  <2> QED
    BY <1>4, <2>1, <2>2, <2>3, <2>4
<1>6. data = ref
  BY <1>3, <1>4, <1>5, SeqEqual
<1> QED
  BY <1>6 DEF got, data, ref

LEMMA AvailableIs ==
  ASSUME LocalOk, DiskOk, NEW f, FileOk(f), f.kind # "dir",
         NEW off \in Nat, NEW want \in Nat, want = 0 \/ off + want <= f.size
  PROVE  LET got == Available(f, off, want) IN
         /\ got \in Seq(Cells) /\ Len(got) \in 0..want
         /\ f.kind = "file" /\ f.name \in Game \ Virtual => got = Slice(Content[f.name], off, want)
         /\ f.kind = "file" /\ f.name \in Virtual => CopyOf(f.name, got, off)
         /\ f.kind = "device" => got \o Zeros(want - Len(got)) = Slice(disk, off, want)
<1> DEFINE got == Available(f, off, want)
           g == f.fd
<1>0. /\ g \in Fds \union {NoFd} /\ f.base \in Nat /\ f.size \in Nat
      /\ off + 0 = off /\ 0 + off = off
  BY Sizes DEF FileOk, GuestFile
<1>1. CASE g = NoFd
  <2>1. got = <<>> /\ f.kind = "disc"
    BY <1>1 DEF Available, FileOk
  <2>2. <<>> \in Seq(Cells) /\ Len(<<>>) = 0
    BY EmptySeq
  <2> QED
    BY <2>1, <2>2
<1>2. CASE g # NoFd
  <2>1. Backed(f, fds[g]) /\ got = Slice(CellsOf(fds[g]), f.base + off, want) /\ g \in Fds
    BY <1>0, <1>2 DEF FileOk, Available
  <2>2. CASE f.kind = "file" /\ fds[g] = OnTree(f.name) /\ f.name \in Game \ Virtual /\ f.base = 0
    <3>1. got = Slice(Content[f.name], off, want) /\ Content[f.name] \in Seq(Cells)
      BY <1>0, <2>1, <2>2, CellsBehind, ContentAssumption
    <3>2. got \in Seq(Cells) /\ Len(got) \in 0..want
      BY <3>1, SliceIs
    <3> QED
      BY <2>2, <3>1, <3>2
  <2>3. CASE /\ f.kind = "file" /\ fds[g] = OnImage /\ f.name \in Game
             /\ f.base + f.size <= Total /\ Slice(Image, f.base, f.size) = Content[f.name]
    <3>1. got = Slice(Image, f.base + off, want) /\ Image \in Seq(Cells)
      BY <2>1, <2>3, CellsBehind, ContentAssumption
    <3>2. got = Slice(Content[f.name], off, want)
      <4>1. Slice(Slice(Image, f.base, f.size), off, want) = Slice(Image, f.base + off, want)
        BY <1>0, <2>3, <3>1, SliceOfSlice DEF Total
      <4> QED
        BY <2>3, <3>1, <4>1
    <3>3. Content[f.name] \in Seq(Cells)
      BY <2>3, ContentAssumption
    <3>4. /\ got \in Seq(Cells) /\ Len(got) \in 0..want
          /\ \A i \in 1..Len(got) : got[i] = Content[f.name][off + i]
      <4> DEFINE s == Slice(Content[f.name], off, want)
      <4>1. s \in Seq(Cells) /\ Len(s) \in 0..want /\ \A i \in 1..Len(s) : s[i] = Content[f.name][off + i]
        BY <3>3, SliceIs
      <4>2. got = s
        BY <3>2
      <4> HIDE DEF got, s
      <4> QED
        BY <4>1, <4>2
    <3> QED
      BY <2>3, <3>2, <3>4 DEF CopyOf
  <2>4. CASE /\ f.kind = "file" /\ fds[g] = OnLocal(f.name)
             /\ f.name \in (Names \ Game) \union Virtual /\ f.base = 0
    <3>1. CellsOk(f.name, local[f.name])
      BY <2>1, <2>4, StoredIs, NamesAssumption DEF Stored
    <3>2. got = Slice(local[f.name], off, want) /\ local[f.name] \in Seq(Cells)
      BY <1>0, <2>1, <2>4, <3>1, CellsBehind DEF CellsOk
    <3>3. got \in Seq(Cells) /\ Len(got) \in 0..want
      BY <3>2, SliceIs
    <3>4. f.name \in Virtual => CopyOf(f.name, got, off)
      BY <3>1, <3>2, SliceOfCopy, NamesAssumption
    <3> QED
      BY <2>4, <3>3, <3>4, NamesAssumption
  <2>5. CASE f.kind = "device" /\ fds[g] = OnLocal(Device) /\ f.base = 0 /\ f.size = MaxLen
    <3>0. PICK stored : stored = local[Device]
      OBVIOUS
    <3>1. stored # Absent /\ stored \in Seq(Cells)
      BY <2>1, <2>5, <3>0, StoredIs DEF Stored, CellsOk
    <3>2. got = Slice(stored, off, want) /\ (want = 0 \/ off + want <= MaxLen)
      BY <1>0, <2>1, <2>5, <3>0, CellsBehind
    <3>3. got \in Seq(Cells) /\ Len(got) \in 0..want
      BY <3>1, <3>2, SliceIs
    <3>4. LET s == Slice(stored, off, want) IN s \o Zeros(want - Len(s)) = Slice(disk, off, want)
      BY <3>0, <3>1, <3>2, DeviceReads
    <3> QED
      BY <2>5, <3>2, <3>3, <3>4
  <2>6. CASE f.kind = "disc" /\ fds[g] = OnImage /\ f.base = 0
    <3>1. got = Slice(Image, off, want) /\ Image \in Seq(Cells)
      BY <1>0, <2>1, <2>6, CellsBehind, ContentAssumption
    <3>2. got \in Seq(Cells) /\ Len(got) \in 0..want
      BY <3>1, SliceIs
    <3> QED
      BY <2>6, <3>2
  <2> QED
    BY <2>1, <2>2, <2>3, <2>4, <2>5, <2>6 DEF Backed
<1> QED
  BY <1>1, <1>2

-----------------------------------------------------------------------------
(* What a step leaves to the others *)

Steps(t, o) == op'[t] = o /\ \A u \in Threads \ {t} : op'[u] = op[u]
FdsSafe(t) == \A g \in Fds : fds[g] = Closed \/ g = FdOf(op[t]) \/ fds'[g] = fds[g]
Grows == \A n \in Stored : local[n] # Absent => local'[n] # Absent
FilesGrow(t) ==
  \A h \in DOMAIN files :
    IF h \in DOMAIN files'
    THEN /\ files'[h].kind = files[h].kind /\ files'[h].fd = files[h].fd
         /\ files'[h].write = files[h].write
         /\ files'[h].size \in Nat /\ files'[h].size >= files[h].size
    ELSE \A u \in Threads \ {t} : op[u].pc \in {"reading", "writing"} => op[u].h # h

LEMMA FileHas ==
  ASSUME Inv, NEW h \in DOMAIN files
  PROVE  /\ FileOk(files[h]) /\ files[h] \in GuestFile
         /\ files[h].size \in Nat /\ files[h].pos \in Nat /\ files[h].base \in Nat
  BY Sizes DEF Inv, Data, FilesOk, FileOk, GuestFile

LEMMA OpHas ==
  ASSUME Inv, NEW t \in Threads
  PROVE  op[t] \in Ops /\ Rest(op[t]) /\ Shaped(op[t])
  BY DEF Inv, Data, OpsOk, IInv, Shapes

\* What a file is does not change while its descriptor does not.
LEMMA FileKept ==
  ASSUME NEW f, FileOk(f), f.fd = NoFd \/ fds'[f.fd] = fds[f.fd]
  PROVE  FileOk(f)'
  BY DEF FileOk

LEMMA HandleKept ==
  ASSUME Inv, NEW t \in Threads, FdsSafe(t), NEW h \in DOMAIN files
  PROVE  files[h].fd = NoFd \/ fds'[files[h].fd] = fds[files[h].fd]
<1>1. files[h].fd \in Fds \union {NoFd}
  BY FileHas DEF GuestFile
<1>2. files[h].fd \in Fds => fds[files[h].fd] # Closed /\ files[h].fd # FdOf(op[t])
  BY Numbers DEF Inv, IInv, Owned, OwnedIsOpen, Apart
<1> QED
  BY <1>1, <1>2 DEF FdsSafe

LEMMA RestKept ==
  ASSUME Inv, NEW t \in Threads, NEW u \in Threads \ {t}, NEW o, o = op[u],
         FdsSafe(t), Grows, FilesGrow(t)
  PROVE  Rest(o)'
<1>1. o \in Ops /\ Rest(o) /\ Shaped(o)
  BY OpHas
<1>2. FdOf(o) \in Fds => fds'[FdOf(o)] = fds[FdOf(o)]
  BY Numbers DEF Inv, IInv, Owned, OwnedIsOpen, Apart, FdsSafe
<1>3. o.pc \in {"stat", "loadingFd"} => fds'[o.fd] = OnTree(o.name)
  BY <1>1, <1>2 DEF Rest, Shaped, FdOf
<1>4. o.pc = "copying" => local'[o.name] # Absent
  <2>1. o.pc = "copying" => o.name \in Stored
    BY <1>1, NamesAssumption DEF Ops, Stored, Idle
  <2> QED
    BY <1>1, <2>1 DEF Rest, Grows
<1>5. o.pc = "opened" => FileOk(o.file)'
  <2>1. o.pc = "opened" => FileOk(o.file) /\ FdOf(o) = o.file.fd /\ o.file.fd \in Fds \union {NoFd}
    BY <1>1 DEF Rest, Shaped, FdOf, IsFile
  <2> QED
    BY <1>2, <2>1, FileKept
<1>6. ASSUME o.pc \in {"reading", "writing"} PROVE TransferOk(o)'
  <2> DEFINE h == o.h
  <2>1. TransferOk(o) /\ h \in DOMAIN files /\ files[h].size \in Nat
    BY <1>1, <1>6, FileHas DEF Rest, TransferOk
  <2>2. h \in DOMAIN files'
    BY <1>6, <2>1 DEF FilesGrow
  <2>3. /\ files'[h].kind = files[h].kind /\ files'[h].fd = files[h].fd
        /\ files'[h].write = files[h].write
        /\ files'[h].size \in Nat /\ files'[h].size >= files[h].size
    BY <2>1, <2>2 DEF FilesGrow
  <2>4. o.off \in Nat /\ o.want \in Nat
    BY <1>1, <1>6, Sizes, BoundsAssumption DEF Ops, Idle
  <2> QED
    BY <2>1, <2>2, <2>3, <2>4 DEF TransferOk
<1> QED
  BY <1>1, <1>3, <1>4, <1>5, <1>6 DEF Rest

-----------------------------------------------------------------------------
(* Counting the handles to come *)

LEMMA OpeningIsFinite ==
  IsFiniteSet(Opening) /\ Cardinality(Opening) \in Nat
<1>1. IsFiniteSet(Opening)
  BY ThreadsAreFinite, FS_Subset DEF Opening
<1> QED
  BY <1>1, FS_CardinalityType

Counts(t, o) ==
  /\ UNCHANGED nextHandle
  /\ \/ calls < MaxCalls /\ calls' = calls + 1
     \/ calls' = calls /\ (o.pc \in ToRegister => op[t].pc \in ToRegister)
LEMMA CountsKeep ==
  ASSUME Inv, NEW t \in Threads, NEW o, Steps(t, o), Counts(t, o)
  PROVE  Counted'
<1> DEFINE O == Opening
           P == {u \in Threads : op'[u].pc \in ToRegister}
<1>1. P \subseteq O \union {t} /\ (calls' = calls => P \subseteq O)
  BY BoundsAssumption DEF Steps, Counts, Opening, Inv, Data, Counted
<1>2. IsFiniteSet(O) /\ Cardinality(O) \in Nat
  BY OpeningIsFinite
<1>3. nextHandle \in Nat /\ calls \in 0..MaxCalls /\ nextHandle - 1 + Cardinality(O) <= calls
  BY DEF Inv, IInv, Shapes, Data, Counted
<1> HIDE DEF O, P
<1>4. /\ IsFiniteSet(O \union {t}) /\ Cardinality(O \union {t}) <= Cardinality(O) + 1
      /\ Cardinality(O \union {t}) \in Nat
  <2>1. /\ IsFiniteSet(O \union {t})
        /\ Cardinality(O \union {t}) = IF t \in O THEN Cardinality(O) ELSE Cardinality(O) + 1
    BY <1>2, FS_AddElement
  <2> QED
    BY <1>2, <2>1
<1>5. Cardinality(P) \in Nat /\ Cardinality(P) <= Cardinality(O \union {t})
      /\ (P \subseteq O => Cardinality(P) <= Cardinality(O))
  BY <1>1, <1>2, <1>4, FS_Subset, FS_CardinalityType
<1>6. calls' \in 0..MaxCalls /\ nextHandle' - 1 + Cardinality(P) <= calls'
  BY <1>1, <1>2, <1>3, <1>4, <1>5, BoundsAssumption DEF Counts
<1> QED
  BY <1>6 DEF Counted, Opening, P

-----------------------------------------------------------------------------
(* Steps put together *)

LEMMA Composes ==
  ASSUME Inv, IInv', NEW t \in Threads, NEW o, Steps(t, o), o \in Ops, Rest(o)',
         FdsSafe(t), Grows, FilesGrow(t),
         Hosts', LocalOk', DiskOk', Counted', FilesOk'
  PROVE  Inv'
<1>1. ASSUME NEW u \in Threads PROVE op'[u] \in Ops /\ Rest(op[u])'
  <2>1. CASE u = t
    BY <2>1 DEF Steps
  <2>2. CASE u # t
    <3>1. op'[u] = op[u] /\ op[u] \in Ops
      BY <2>2, OpHas DEF Steps
    <3>2. \A p : p = op[u] => Rest(p)'
      BY <2>2, RestKept
    <3> QED
      BY <3>1, <3>2
  <2> QED
    BY <2>1, <2>2
<1>2. OpsOk'
  BY <1>1 DEF OpsOk
<1> QED
  BY <1>2 DEF Inv, Data

LEMMA Moves == ASSUME IInv, NEW t \in Threads, NEW o, Becomes(t, o) PROVE Steps(t, o)
  BY DEF IInv, Shapes, Becomes, Steps

\* What a step may do to the descriptors: nothing, open one, close the one the call has.
Hosting(t) ==
  \/ UNCHANGED fds
  \/ FdOf(op[t]) \in Fds /\ CloseFd(FdOf(op[t]))
  \/ \E what \in HostFiles : OpenOn(what)
LEMMA HostingKeeps ==
  ASSUME Inv, NEW t \in Threads, Hosting(t), assetsIsIso' \in BOOLEAN
  PROVE  FdsSafe(t) /\ Hosts'
<1>1. fds \in [Fds -> HostFiles \union {Closed}]
  BY DEF Inv, Data, Hosts
<1>2. CASE UNCHANGED fds
  BY <1>1, <1>2 DEF FdsSafe, Hosts
<1>3. CASE FdOf(op[t]) \in Fds /\ CloseFd(FdOf(op[t]))
  BY <1>1, <1>3 DEF FdsSafe, Hosts, CloseFd
<1>4. ASSUME NEW what \in HostFiles, OpenOn(what) PROVE FdsSafe(t) /\ Hosts'
  BY <1>1, <1>4, NewFdIsFree DEF FdsSafe, Hosts, OpenOn
<1> QED
  BY <1>2, <1>3, <1>4 DEF Hosting

LEMMA FilesStay ==
  ASSUME Inv, NEW t \in Threads, FdsSafe(t), UNCHANGED files
  PROVE  FilesOk' /\ FilesGrow(t)
<1>1. FilesGrow(t)
  BY FileHas DEF FilesGrow
<1>2. ASSUME NEW h \in DOMAIN files' PROVE FileOk(files[h])'
  <2>1. \A f : f = files[h] => FileOk(f)'
    BY FileHas, HandleKept, FileKept
  <2> QED
    BY <2>1
<1> QED
  BY <1>1, <1>2 DEF FilesOk

\* A step that stores nothing and leaves the handles.
LEMMA Aside ==
  ASSUME Inv, IInv', NEW t \in Threads, NEW o, Steps(t, o), o \in Ops, Rest(o)', Counts(t, o),
         Hosting(t), \A n \in Stored : OpenOn(OnLocal(n)) => local[n] # Absent,
         UNCHANGED <<local, assetsIsIso, files, disk>>
  PROVE  Inv'
<1>1. FdsSafe(t) /\ Hosts'
  BY HostingKeeps DEF Inv, Data, Hosts
<1>2. Grows
  BY DEF Grows
<1>3. FilesOk' /\ FilesGrow(t)
  BY <1>1, FilesStay
<1>4. DiskOk'
  BY DEF Inv, Data, DiskOk
<1>5. LocalOk'
  <2>1. ASSUME NEW g \in Fds, NEW n \in Stored, fds'[g] = OnLocal(n) PROVE local[n] # Absent
    <3>1. CASE fds'[g] = fds[g]
      BY <2>1, <3>1 DEF Inv, Data, LocalOk
    <3>2. CASE fds'[g] # fds[g]
      <4>1. \E what : OpenOn(what) /\ fds'[g] = what
        BY <2>1, <3>2, NothingIsClosed, NewFdIsFree DEF Hosting, CloseFd, OpenOn, Inv, Data, Hosts
      <4> QED
        BY <2>1, <4>1
    <3> QED
      BY <3>1, <3>2
  <2> QED
    BY <2>1 DEF Inv, Data, LocalOk
<1>6. Counted'
  BY CountsKeep
<1> QED
  BY <1>1, <1>2, <1>3, <1>4, <1>5, <1>6, Composes

LEMMA OpensOne ==
  ASSUME Inv, NEW what, NEW other, OpenOn(what), OpenOn(other) PROVE what = other
  BY NewFdIsFree DEF OpenOn, Inv, Data, Hosts

LEMMA OpensNone ==
  ASSUME Inv, NEW n, UNCHANGED fds \/ \E g \in Fds : CloseFd(g)
  PROVE  ~OpenOn(OnLocal(n))
  BY NewFdIsFree, NothingIsClosed DEF OpenOn, CloseFd, Inv, Data, Hosts

LEMMA AsideQuietly ==
  ASSUME Inv, IInv', NEW t \in Threads, NEW o, Steps(t, o), o \in Ops, Rest(o)', Counts(t, o),
         UNCHANGED <<fds, local, assetsIsIso, files, disk>>
  PROVE  Inv'
  BY OpensNone, Aside DEF Hosting

LEMMA AsideCloses ==
  ASSUME Inv, IInv', NEW t \in Threads, NEW o, Steps(t, o), o \in Ops, Rest(o)', Counts(t, o),
         FdOf(op[t]) \in Fds, CloseFd(FdOf(op[t])), UNCHANGED <<local, assetsIsIso, files, disk>>
  PROVE  Inv'
  BY OpensNone, Aside DEF Hosting

LEMMA AsideOpens ==
  ASSUME Inv, IInv', NEW t \in Threads, NEW o, Steps(t, o), o \in Ops, Rest(o)', Counts(t, o),
         NEW what \in HostFiles, OpenOn(what), \A n \in Stored : what = OnLocal(n) => local[n] # Absent,
         UNCHANGED <<local, assetsIsIso, files, disk>>
  PROVE  Inv'
<1>1. \A n \in Stored : OpenOn(OnLocal(n)) => local[n] # Absent
  BY OpensOne
<1> QED
  BY <1>1, Aside DEF Hosting

\* The file of a descriptor that was just opened.
LEMMA OpensFile ==
  ASSUME Inv, NEW what, OpenOn(what), NEW f \in GuestFile, f.fd = NewFd, Backed(f, what),
         f.kind # "disc" => f.pos <= MaxLen
  PROVE  FileOk(f)' /\ [pc |-> "opened", file |-> f] \in Ops /\ Rest([pc |-> "opened", file |-> f])'
<1>1. fds'[NewFd] = what /\ NewFd \in Fds
  BY NewFdIsFree DEF OpenOn, Inv, Data, Hosts
<1>2. FileOk(f)'
  BY <1>1, Numbers DEF FileOk
<1> QED
  BY <1>2 DEF Ops, Rest

\* The first steps, and the last ones, that have nothing to rely on.
LEMMA NamedIs ==
  ASSUME NEW n \in Names, NEW c \in {"finding", "missing", "local", "copy", "reopening", "loading"},
         c \in {"local", "copy", "reopening"} => n \notin Game \ Virtual,
         c \in {"copy", "loading"} => n \in Game
  PROVE  [pc |-> c, name |-> n] \in Ops /\ Rest([pc |-> c, name |-> n])'
  BY DEF Ops, Rest
LEMMA IdleIs == Idle \in Ops /\ Rest(Idle)'
  BY DEF Idle, Ops, Rest

LEMMA NewCall ==
  ASSUME NEW t, NEW o, Starts(t), UNCHANGED nextHandle
  PROVE  Counts(t, o) /\ Free(t)
  BY DEF Starts, Counts

-----------------------------------------------------------------------------
(* Opening *)

LEMMA OpenKeepsData ==
  ASSUME Inv, IInv', NEW t \in Threads, NEW n \in Names, Open(t, n) \/ Load(t, n)
  PROVE  Inv'
<1>1. PICK c \in {"finding", "loading"} :
        Becomes(t, [pc |-> c, name |-> n]) /\ (c = "loading" => n \in Game)
  BY DEF Open, Load
<1>2. Starts(t) /\ UNCHANGED <<fds, local, assetsIsIso, files, nextHandle, disk>>
  BY DEF Open, Load, hostVars, guestVars
<1> DEFINE o == [pc |-> c, name |-> n]
<1>3. o \in Ops /\ Rest(o)'
  BY <1>1, NamedIs
<1>4. Steps(t, o) /\ Counts(t, o)
  BY <1>1, <1>2, Moves, NewCall DEF Inv
<1> QED
  BY <1>2, <1>3, <1>4, AsideQuietly

LEMMA OpenRawDeviceKeepsData ==
  ASSUME Inv, IInv', NEW t \in Threads, OpenRawDevice(t)
  PROVE  Inv'
<1>0. Starts(t) /\ UNCHANGED <<local, assetsIsIso, files, nextHandle, disk>>
  BY DEF OpenRawDevice, guestVars
<1>1. CASE assetsIsIso /\ iso # Failed
  <2> PICK f : f = FileAt(Volume, "disc", NewFd, Total, 0, FALSE)
    OBVIOUS
  <2> DEFINE o == [pc |-> "opened", file |-> f]
  <2>1. Becomes(t, o) /\ OpenOn(OnImage)
    BY <1>1 DEF OpenRawDevice
  <2>2. /\ f \in GuestFile /\ f.name = Volume /\ f.kind = "disc" /\ f.fd = NewFd
        /\ f.size = Total /\ f.base = 0 /\ f.write = FALSE /\ f.pos = 0
    <3>1. NewFd \in Fds /\ Total \in 0..MaxCells /\ 0 \in 0..Total /\ 0 \in 0..MaxCells
      BY <2>1, NewFdIsFree, Sizes DEF OpenOn, Total
    <3> QED
      BY <3>1 DEF FileAt, GuestFile, Total
  <2>3. Backed(f, OnImage)
    BY <2>2 DEF Backed
  <2>4. o \in Ops /\ Rest(o)'
    BY <2>1, <2>2, <2>3, OpensFile
  <2>5. Steps(t, o) /\ Counts(t, o)
    BY <1>0, <2>1, Moves, NewCall DEF Inv
  <2>6. OnImage \in HostFiles /\ \A n \in Stored : OnImage # OnLocal(n)
    BY DEF HostFiles, OnImage, OnLocal
  <2> QED
    BY <1>0, <2>1, <2>4, <2>5, <2>6, AsideOpens
<1>2. CASE ~(assetsIsIso /\ iso # Failed)
  <2> PICK f : f = FileAt(Volume, "disc", NoFd, MaxLen, 0, FALSE)
    OBVIOUS
  <2> DEFINE o == [pc |-> "opened", file |-> f]
  <2>1. Becomes(t, o) /\ UNCHANGED fds
    BY <1>2 DEF OpenRawDevice
  <2>2. f \in GuestFile /\ f.kind = "disc" /\ f.fd = NoFd /\ f.write = FALSE
    <3>1. MaxLen \in 0..MaxCells /\ 0 \in 0..Total /\ 0 \in 0..MaxCells
      BY Sizes, BoundsAssumption DEF Total
    <3> QED
      BY <3>1 DEF FileAt, GuestFile, Total
  <2>3. o \in Ops /\ Rest(o)'
    BY <2>2 DEF Ops, Rest, FileOk
  <2>4. Steps(t, o) /\ Counts(t, o)
    BY <1>0, <2>1, Moves, NewCall DEF Inv
  <2> QED
    BY <1>0, <2>1, <2>3, <2>4, AsideQuietly
<1> QED
  BY <1>1, <1>2

LEMMA OpenDirKeepsData ==
  ASSUME Inv, IInv', NEW t \in Threads, OpenDir(t)
  PROVE  Inv'
<1> PICK f : f = FileAt(Volume, "dir", NoFd, 0, 0, FALSE)
  OBVIOUS
<1> DEFINE o == [pc |-> "opened", file |-> f]
<1>1. Starts(t) /\ Becomes(t, o) /\ UNCHANGED <<fds, local, assetsIsIso, files, nextHandle, disk>>
  BY DEF OpenDir, hostVars, guestVars
<1>2. f \in GuestFile /\ f.kind = "dir" /\ f.fd = NoFd /\ f.write = FALSE /\ f.pos = 0
  <2>1. 0 \in 0..MaxCells /\ 0 \in 0..Total
    BY Sizes DEF Total
  <2> QED
    BY <2>1 DEF FileAt, GuestFile, Total
<1>3. o \in Ops /\ Rest(o)'
  <2>1. FileOk(f)'
    <3>1. f.pos = 0 /\ 0 <= MaxLen
      <4>1. 0 <= MaxLen
        BY BoundsAssumption
      <4>2. f.pos = 0
        BY <1>2
      <4> QED
        BY <4>1, <4>2
    <3> QED
      BY <1>2, <3>1 DEF FileOk
  <2> QED
    BY <1>2, <2>1 DEF Ops, Rest
<1>4. Steps(t, o) /\ Counts(t, o)
  BY <1>1, Moves, NewCall DEF Inv
<1> QED
  BY <1>1, <1>3, <1>4, AsideQuietly

-----------------------------------------------------------------------------
(* Finding *)

\* A call that goes on with a name alone.
LEMMA GoesOn ==
  ASSUME Inv, IInv', NEW t \in Threads, NEW n \in Names,
         NEW c \in {"finding", "missing", "local", "copy", "reopening", "loading"},
         c \in {"local", "copy", "reopening"} => n \notin Game \ Virtual,
         c \in {"copy", "loading"} => n \in Game,
         c \in ToRegister => op[t].pc \in ToRegister,
         Becomes(t, [pc |-> c, name |-> n]),
         UNCHANGED <<fds, local, assetsIsIso, files, nextHandle, disk, calls>>
  PROVE  Inv'
<1> DEFINE o == [pc |-> c, name |-> n]
<1>1. o \in Ops /\ Rest(o)'
  BY NamedIs
<1>2. Steps(t, o) /\ Counts(t, o)
  BY Moves DEF Inv, Counts
<1> QED
  BY <1>1, <1>2, AsideQuietly

LEMMA EnsureIsoKeepsData ==
  ASSUME Inv, IInv', NEW t \in Threads, EnsureIso(t) \/ EnsureIsoFails(t)
  PROVE  Inv'
<1>0. PICK o : o = op[t]
  OBVIOUS
<1>1. /\ UNCHANGED <<local, assetsIsIso, files, nextHandle, op, disk, calls>>
      /\ UNCHANGED fds \/ OpenOn(OnImage)
  BY DEF EnsureIso, EnsureIsoFails, guestVars, bounds
<1>2. OnImage \in HostFiles /\ \A n \in Stored : OnImage # OnLocal(n)
  BY DEF HostFiles, OnImage, OnLocal
<1>3. Steps(t, o) /\ Counts(t, o)
  BY <1>0, <1>1 DEF Steps, Counts
<1>4. o \in Ops /\ Rest(o) /\ Shaped(o)
  BY <1>0, OpHas
<1>5. Rest(o)'
  <2>1. \A g \in Fds : fds[g] = Closed \/ fds'[g] = fds[g]
    BY <1>1, NewFdIsFree DEF OpenOn, Inv, Data, Hosts
  <2>2. FdOf(o) \in Fds => fds'[FdOf(o)] = fds[FdOf(o)]
    BY <1>0, <2>1 DEF Inv, IInv, Owned, OwnedIsOpen
  <2>3. o.pc \in {"stat", "loadingFd"} => fds'[o.fd] = OnTree(o.name)
    BY <1>4, <2>2 DEF Rest, Shaped, FdOf
  <2>4. o.pc = "opened" => FileOk(o.file)'
    <3>1. o.pc = "opened" => FileOk(o.file) /\ FdOf(o) = o.file.fd /\ o.file.fd \in Fds \union {NoFd}
      BY <1>4 DEF Rest, Shaped, FdOf, IsFile
    <3> QED
      BY <2>2, <3>1, FileKept
  <2> QED
    BY <1>1, <1>4, <2>3, <2>4 DEF Rest, TransferOk
<1> QED
  BY <1>1, <1>2, <1>3, <1>4, <1>5, AsideQuietly, AsideOpens

\* What an entry of the image's directory stands for.
LEMMA EntryIs ==
  ASSUME NEW n \in Names, NEW e \in Lookup(n)
  PROVE  /\ n \in Game /\ e.sector \in Nat /\ e.length \in Nat /\ e.sector + e.length <= Total
         /\ Slice(Image, e.sector, e.length) = Content[n]
<1>1. PICK x \in Words : e = EntryAt(x)
  BY DEF Lookup, ParseTree, Visited
<1>2. e.sector \in Nat /\ e.length \in Nat
  BY <1>1, DiscAssumption
<1>3. e.sector + e.length <= Total
  BY DEF Lookup, Kept
<1> QED
  BY <1>2, <1>3, DiscAssumption

LEMMA FindInIsoKeepsData ==
  ASSUME Inv, IInv', NEW t \in Threads, FindInIso(t)
  PROVE  Inv'
<1>0. PICK n : n = op[t].name
  OBVIOUS
<1>1. /\ op[t].pc = "finding" /\ n \in Names
      /\ UNCHANGED <<assetsIsIso, files, nextHandle, disk, calls>>
  <2>1. op[t].pc = "finding" /\ UNCHANGED <<assetsIsIso, files, nextHandle, disk, calls>>
    BY DEF FindInIso, guestVars, bounds
  <2> QED
    BY <1>0, <2>1, OpHas DEF Ops, Idle
<1>2. CASE NotFound(t)
  <2>1. Becomes(t, [pc |-> "missing", name |-> n]) /\ UNCHANGED <<fds, local>>
    BY <1>0, <1>2 DEF NotFound
  <2> QED
    BY <1>1, <2>1, GoesOn DEF ToRegister
<1>3. ASSUME NEW e \in Lookup(n), OpenOn(OnImage), UNCHANGED local,
             Becomes(t, [pc |-> "opened", file |-> FileAt(n, "file", NewFd, e.length, e.sector, FALSE)])
      PROVE  Inv'
  <2> PICK f : f = FileAt(n, "file", NewFd, e.length, e.sector, FALSE)
    OBVIOUS
  <2> DEFINE o == [pc |-> "opened", file |-> f]
  <2>1. /\ n \in Game /\ e.sector \in 0..Total /\ e.length \in 0..MaxCells
        /\ e.sector + e.length <= Total /\ Slice(Image, e.sector, e.length) = Content[n]
    BY <1>1, EntryIs, Sizes DEF Total
  <2>2. /\ f \in GuestFile /\ f.name = n /\ f.kind = "file" /\ f.fd = NewFd
        /\ f.size = e.length /\ f.base = e.sector /\ f.write = FALSE /\ f.pos = 0
    <3>1. NewFd \in Fds /\ 0 \in 0..MaxCells
      BY <1>3, NewFdIsFree, Sizes DEF OpenOn
    <3> QED
      BY <1>1, <2>1, <3>1 DEF FileAt, GuestFile, Total
  <2>3. Backed(f, OnImage)
    BY <2>1, <2>2 DEF Backed
  <2>4. f.pos <= MaxLen
    <3>1. 0 <= MaxLen
      BY BoundsAssumption
    <3>2. f.pos = 0
      BY <2>2
    <3> QED
      BY <3>1, <3>2
  <2>5. o \in Ops /\ Rest(o)'
    BY <1>3, <2>2, <2>3, <2>4, OpensFile
  <2>6. Steps(t, o) /\ Counts(t, o)
    BY <1>1, <1>3, Moves DEF Inv, Counts, ToRegister
  <2>7. OnImage \in HostFiles /\ \A m \in Stored : OnImage # OnLocal(m)
    BY DEF HostFiles, OnImage, OnLocal
  <2> QED
    BY <1>1, <1>3, <2>5, <2>6, <2>7, AsideOpens
<1> QED
  BY <1>0, <1>2, <1>3 DEF FindInIso

LEMMA FindInTreeKeepsData ==
  ASSUME Inv, IInv', NEW t \in Threads, FindInTree(t) \/ LoadFromTree(t)
  PROVE  Inv'
<1>0. PICK n : n = op[t].name
  OBVIOUS
<1>1. /\ op[t].pc \in {"finding", "loading"} /\ n \in Names
      /\ (op[t].pc = "loading" => n \in Game)
      /\ UNCHANGED <<local, assetsIsIso, files, nextHandle, disk, calls>>
  <2>1. op[t].pc \in {"finding", "loading"} /\ UNCHANGED <<local, assetsIsIso, files, nextHandle, disk, calls>>
    BY DEF FindInTree, LoadFromTree, guestVars, bounds
  <2> QED
    BY <1>0, <2>1, OpHas DEF Ops, Idle, Rest
<1>2. ASSUME NEW c \in {"stat", "loadingFd"}, n \in Game, OpenOn(OnTree(n)),
             Becomes(t, [pc |-> c, name |-> n, fd |-> NewFd]),
             c \in ToRegister => op[t].pc \in ToRegister
      PROVE  Inv'
  <2> PICK o : o = [pc |-> c, name |-> n, fd |-> NewFd]
    OBVIOUS
  <2>1. NewFd \in Fds /\ fds'[NewFd] = OnTree(n)
    BY <1>2, NewFdIsFree DEF OpenOn, Inv, Data, Hosts
  <2>2. o \in Ops /\ Rest(o)'
    BY <1>2, <2>1 DEF Ops, Rest
  <2>3. Steps(t, o) /\ Counts(t, o)
    BY <1>1, <1>2, Moves DEF Inv, Counts
  <2>4. OnTree(n) \in HostFiles /\ \A m \in Stored : OnTree(n) # OnLocal(m)
    BY <1>2 DEF HostFiles, OnTree, OnLocal
  <2> QED
    BY <1>1, <1>2, <2>2, <2>3, <2>4, AsideOpens
<1>3. ASSUME n \notin Game, Becomes(t, [pc |-> "local", name |-> n]), UNCHANGED fds,
             op[t].pc = "finding"
      PROVE  Inv'
  BY <1>1, <1>3, GoesOn DEF ToRegister
<1>4. CASE FindInTree(t)
  <2>1. op[t].pc = "finding" /\ op[t].pc \in ToRegister
    BY <1>4 DEF FindInTree, ToRegister
  <2> QED
    BY <1>0, <1>2, <1>3, <1>4, <2>1 DEF FindInTree
<1>5. CASE LoadFromTree(t)
  <2>1. n \in Game /\ "loadingFd" \notin ToRegister
    BY <1>1, <1>5 DEF LoadFromTree, ToRegister
  <2> QED
    BY <1>0, <1>2, <1>5, <2>1 DEF LoadFromTree
<1> QED
  BY <1>4, <1>5

LEMMA StatKeepsData ==
  ASSUME Inv, IInv', NEW t \in Threads, Stat(t)
  PROVE  Inv'
<1>0. PICK n, g : n = op[t].name /\ g = op[t].fd
  OBVIOUS
<1>1. /\ op[t].pc = "stat" /\ UNCHANGED <<local, assetsIsIso, files, nextHandle, disk, calls>>
      /\ FdOf(op[t]) = g
  BY <1>0 DEF Stat, guestVars, bounds, FdOf
<1>2. n \in Game /\ g \in Fds /\ fds[g] = OnTree(n) /\ op[t].pc \in ToRegister
  BY <1>0, <1>1, OpHas DEF Ops, Idle, Rest, ToRegister
<1>3. CASE n \in Virtual
  <2> DEFINE o == [pc |-> "local", name |-> n]
  <2>1. Becomes(t, o) /\ CloseFd(g)
    BY <1>0, <1>3 DEF Stat, NotRegular
  <2>2. o \in Ops /\ Rest(o)'
    BY <1>2, <1>3, NamedIs, NamesAssumption
  <2>3. Steps(t, o) /\ Counts(t, o)
    BY <1>1, <1>2, <2>1, Moves DEF Inv, Counts
  <2> QED
    BY <1>1, <1>2, <2>1, <2>2, <2>3, AsideCloses
<1>4. CASE n \notin Virtual
  <2> PICK f : f = FileAt(n, "file", g, Len(Content[n]), 0, FALSE)
    OBVIOUS
  <2> DEFINE o == [pc |-> "opened", file |-> f]
  <2>1. Becomes(t, o) /\ UNCHANGED fds
    BY <1>0, <1>4 DEF Stat
  <2>2. /\ f \in GuestFile /\ f.name = n /\ f.kind = "file" /\ f.fd = g
        /\ f.size = Len(Content[n]) /\ f.base = 0 /\ f.write = FALSE /\ f.pos = 0
    <3>1. Len(Content[n]) \in 0..MaxCells /\ 0 \in 0..MaxCells /\ 0 \in 0..Total /\ n \in Names
      BY <1>2, Sizes, NamesAssumption, BoundsAssumption DEF Total
    <3> QED
      BY <1>2, <3>1 DEF FileAt, GuestFile, Total
  <2>3. Backed(f, OnTree(n))
    BY <1>2, <1>4, <2>2 DEF Backed
  <2>4. f.pos <= MaxLen
    <3>1. 0 <= MaxLen
      BY BoundsAssumption
    <3>2. f.pos = 0
      BY <2>2
    <3> QED
      BY <3>1, <3>2
  <2>5. FileOk(f)'
    BY <1>2, <2>1, <2>2, <2>3, <2>4, Numbers DEF FileOk
  <2>6. o \in Ops /\ Rest(o)'
    BY <2>2, <2>5 DEF Ops, Rest
  <2>7. Steps(t, o) /\ Counts(t, o)
    BY <1>1, <1>2, <2>1, Moves DEF Inv, Counts
  <2> QED
    BY <1>1, <2>1, <2>6, <2>7, AsideQuietly
<1> QED
  BY <1>3, <1>4

LEMMA FindLocallyKeepsData ==
  ASSUME Inv, IInv', NEW t \in Threads, FindLocally(t)
  PROVE  Inv'
<1>0. PICK n : n = op[t].name
  OBVIOUS
<1>1. /\ op[t].pc \in {"local", "reopening"}
      /\ UNCHANGED <<assetsIsIso, files, nextHandle, disk, calls>>
  BY DEF FindLocally, guestVars, bounds
<1>2. n \in Names /\ n \notin Game \ Virtual /\ op[t].pc \in ToRegister
  BY <1>0, <1>1, OpHas DEF Ops, Idle, Rest, ToRegister
<1>3. ASSUME local[n] # Absent, OpenOn(OnLocal(n)), UNCHANGED local,
             Becomes(t, [pc |-> "opened", file |-> FileAt(n, "file", NewFd, Len(local[n]), 0, FALSE)])
      PROVE  Inv'
  <2> PICK f : f = FileAt(n, "file", NewFd, Len(local[n]), 0, FALSE)
    OBVIOUS
  <2> DEFINE o == [pc |-> "opened", file |-> f]
  <2>1. n \in Stored /\ Len(local[n]) \in 0..MaxLen
    <3>1. n \in Stored /\ CellsOk(n, local[n])
      BY <1>2, <1>3 DEF Inv, Data, LocalOk, Stored
    <3> QED
      BY <3>1, LenProperties DEF CellsOk
  <2>2. /\ f \in GuestFile /\ f.name = n /\ f.kind = "file" /\ f.fd = NewFd
        /\ f.size = Len(local[n]) /\ f.base = 0 /\ f.write = FALSE /\ f.pos = 0
    <3>1. /\ NewFd \in Fds /\ Len(local[n]) \in 0..MaxCells
          /\ 0 \in 0..MaxCells /\ 0 \in 0..Total
      BY <1>3, <2>1, NewFdIsFree, Sizes, BoundsAssumption DEF OpenOn, Total
    <3> QED
      BY <1>2, <3>1 DEF FileAt, GuestFile, Total
  <2>3. Backed(f, OnLocal(n))
    <3>1. f.size <= MaxLen
      <4>1. f.size = Len(local[n])
        BY <2>2
      <4>2. Len(local[n]) <= MaxLen
        BY <2>1, BoundsAssumption
      <4> QED
        BY <4>1, <4>2
    <3> QED
      BY <1>2, <2>2, <3>1 DEF Backed
  <2>4. f.pos <= MaxLen
    <3>1. 0 <= MaxLen
      BY BoundsAssumption
    <3>2. f.pos = 0
      BY <2>2
    <3> QED
      BY <3>1, <3>2
  <2>5. o \in Ops /\ Rest(o)'
    BY <1>3, <2>2, <2>3, <2>4, OpensFile
  <2>6. Steps(t, o) /\ Counts(t, o)
    BY <1>1, <1>2, <1>3, Moves DEF Inv, Counts
  <2>7. OnLocal(n) \in HostFiles /\ \A m \in Stored : OnLocal(n) = OnLocal(m) => local[m] # Absent
    BY <1>2, <1>3 DEF HostFiles, OnLocal
  <2> QED
    BY <1>1, <1>3, <2>5, <2>6, <2>7, AsideOpens
<1>4. ASSUME n \in Game, Becomes(t, [pc |-> "copy", name |-> n]), UNCHANGED <<fds, local>>
      PROVE  Inv'
  BY <1>1, <1>2, <1>4, GoesOn
<1>5. ASSUME NotFound(t) PROVE Inv'
  <2>1. Becomes(t, [pc |-> "missing", name |-> n]) /\ UNCHANGED <<fds, local>>
    BY <1>0, <1>5 DEF NotFound
  <2> QED
    BY <1>1, <1>2, <2>1, GoesOn
<1> QED
  BY <1>0, <1>3, <1>4, <1>5 DEF FindLocally

LEMMA CopyFailsKeepsData ==
  ASSUME Inv, IInv', NEW t \in Threads, CopyFails(t)
  PROVE  Inv'
<1>0. PICK n : n = op[t].name
  OBVIOUS
<1>1. /\ op[t].pc = "copying" /\ Becomes(t, [pc |-> "missing", name |-> n])
      /\ UNCHANGED <<fds, local, assetsIsIso, files, nextHandle, disk, calls>>
  BY <1>0 DEF CopyFails, hostVars, guestVars
<1>2. n \in Names
  BY <1>0, <1>1, OpHas, NamesAssumption DEF Ops, Idle
<1> QED
  BY <1>1, <1>2, GoesOn DEF ToRegister

-----------------------------------------------------------------------------
(* Loading whole files *)

\* A file of the disc read whole is what the disc holds.
LEMMA WholeFileIs ==
  ASSUME NEW n \in Game, NEW o, o = Result(n, "file", 0, Content[n], Content[n], FALSE)
  PROVE  o \in Ops /\ Rest(o)'
<1>1. Content[n] \in Seq(Cells) /\ n \in Names /\ 0 \in 0..MaxLen
  BY ContentAssumption, NamesAssumption, BoundsAssumption
<1>2. o \in Ops
  BY <1>1 DEF Result, Ops
<1>3. CopyOf(n, Content[n], 0)
  <2>1. \A i \in 1..Len(Content[n]) : 0 + i = i
    BY <1>1, LenProperties
  <2> QED
    BY <2>1 DEF CopyOf
<1>4. o.pc = "read" /\ o.kind = "file" /\ o.name = n /\ o.data = Content[n] /\ o.ref = Content[n] /\ o.off = 0
  BY DEF Result
<1>5. ResultOk(o)
  BY <1>3, <1>4 DEF ResultOk
<1> QED
  BY <1>2, <1>4, <1>5 DEF Rest

LEMMA LoadFromIsoKeepsData ==
  ASSUME Inv, IInv', NEW t \in Threads, LoadFromIso(t)
  PROVE  Inv'
<1>0. PICK n : n = op[t].name
  OBVIOUS
<1>1. /\ op[t].pc = "loading"
      /\ UNCHANGED <<fds, local, assetsIsIso, files, nextHandle, disk, calls>>
  BY DEF LoadFromIso, hostVars, guestVars, bounds
<1>2. n \in Names
  BY <1>0, <1>1, OpHas DEF Ops, Idle
<1>3. CASE Becomes(t, [pc |-> "missing", name |-> n])
  BY <1>1, <1>2, <1>3, GoesOn DEF ToRegister
<1>4. ASSUME NEW e \in Lookup(n),
             Becomes(t, Result(n, "file", 0, Slice(Image, e.sector, e.length), Content[n], FALSE))
      PROVE  Inv'
  <2> PICK o : o = Result(n, "file", 0, Content[n], Content[n], FALSE)
    OBVIOUS
  <2>1. n \in Game /\ Becomes(t, o)
    BY <1>2, <1>4, EntryIs
  <2>2. o \in Ops /\ Rest(o)'
    BY <2>1, WholeFileIs
  <2>3. Steps(t, o) /\ Counts(t, o)
    BY <1>1, <2>1, Moves DEF Inv, Counts, Result, ToRegister
  <2> QED
    BY <1>1, <2>2, <2>3, AsideQuietly
<1> QED
  BY <1>0, <1>3, <1>4 DEF LoadFromIso

LEMMA ReadFdFullyKeepsData ==
  ASSUME Inv, IInv', NEW t \in Threads, ReadFdFully(t)
  PROVE  Inv'
<1>0. PICK n, g : n = op[t].name /\ g = op[t].fd
  OBVIOUS
<1>1. /\ op[t].pc = "loadingFd" /\ FdOf(op[t]) = g /\ CloseFd(g)
      /\ UNCHANGED <<local, assetsIsIso, files, nextHandle, disk, calls>>
      /\ Becomes(t, Result(n, "file", 0, CellsOf(fds[g]), Content[n], FALSE))
  BY <1>0 DEF ReadFdFully, guestVars, bounds, FdOf
<1>2. n \in Game /\ g \in Fds /\ fds[g] = OnTree(n)
  BY <1>0, <1>1, OpHas DEF Ops, Idle, Rest
<1> PICK o : o = Result(n, "file", 0, Content[n], Content[n], FALSE)
  OBVIOUS
<1>3. Becomes(t, o)
  BY <1>1, <1>2, CellsBehind
<1>4. o \in Ops /\ Rest(o)'
  BY <1>2, WholeFileIs
<1>5. Steps(t, o) /\ Counts(t, o)
  BY <1>1, <1>3, Moves DEF Inv, Counts, Result, ToRegister
<1> QED
  BY <1>1, <1>2, <1>4, <1>5, AsideCloses

-----------------------------------------------------------------------------
(* Reading *)

LEMMA HandlesAreFew ==
  ASSUME Inv, NEW h \in DOMAIN files PROVE h \in 1..MaxCalls
<1>1. nextHandle - 1 <= MaxCalls /\ nextHandle \in Nat
  BY OpeningIsFinite, BoundsAssumption DEF Inv, IInv, Shapes, Data, Counted
<1> QED
  BY <1>1, BoundsAssumption DEF Inv, IInv, Shapes

\* No file but the disc itself is longer than a file may be.
LEMMA FileIsShort ==
  ASSUME NEW f, FileOk(f), f.kind \in {"file", "device"} PROVE f.size <= MaxLen
<1>1. f.fd # NoFd /\ Backed(f, fds[f.fd]) /\ f.base \in Nat /\ f.size \in Nat
  BY Sizes DEF FileOk, GuestFile
<1>2. CASE /\ f.name \in Game /\ f.base + f.size <= Total
           /\ Slice(Image, f.base, f.size) = Content[f.name]
  <2>1. Len(Slice(Image, f.base, f.size)) = f.size
    <3>1. Image \in Seq(Cells) /\ Len(Image) \in Nat
      BY ContentAssumption, Sizes
    <3>2. Len(Slice(Image, f.base, f.size)) = IF f.base >= Len(Image) THEN 0
            ELSE IF f.base + f.size <= Len(Image) THEN f.size ELSE Len(Image) - f.base
      BY <1>1, <3>1, SliceIs
    <3> QED
      BY <1>1, <1>2, <3>1, <3>2 DEF Total
  <2> QED
    BY <1>2, <2>1, Sizes
<1>3. CASE f.name \in Game /\ f.size = Len(Content[f.name])
  BY <1>3, Sizes
<1> QED
  BY <1>1, <1>2, <1>3, BoundsAssumption DEF Backed

LEMMA ReadFileKeepsData ==
  ASSUME Inv, IInv', NEW t \in Threads, NEW h, NEW off, ReadFile(t, h, off, 2) \/ WriteFile(t, h, off)
  PROVE  Inv'
<1>1. /\ Starts(t) /\ h \in DOMAIN files /\ off \in 0..MaxLen
      /\ UNCHANGED <<fds, local, assetsIsIso, files, nextHandle, disk>>
  BY BoundsAssumption DEF ReadFile, WriteFile, hostVars, guestVars
<1>2. h \in 1..MaxCalls /\ files[h].size \in 0..MaxCells /\ FileOk(files[h])
  BY <1>1, HandlesAreFew, FileHas DEF GuestFile
<1>3. ASSUME NEW o, Becomes(t, o), o \in Ops, Rest(o)' PROVE Inv'
  <2>1. Steps(t, o) /\ Counts(t, o)
    BY <1>1, <1>3, Moves, NewCall DEF Inv
  <2> QED
    BY <1>1, <1>3, <2>1, AsideQuietly
<1>4. CASE ReadFile(t, h, off, 2)
  <2> PICK want : want = Wanted(files[h], off, 2)
    OBVIOUS
  <2> DEFINE o == [pc |-> "reading", h |-> h, off |-> off, want |-> want]
  <2>1. want \in 0..MaxCells /\ (want = 0 \/ off + want <= files[h].size)
    <3>1. CASE off >= files[h].size
      BY <3>1, Sizes DEF Wanted
    <3>2. CASE off < files[h].size
      <4> DEFINE left == files[h].size - off
      <4>1. left \in Int /\ left > 0 /\ left <= MaxCells /\ MaxCells \in Nat
        BY <1>1, <1>2, <3>2, Sizes, BoundsAssumption
      <4>2. Min({2, left}) = (IF 2 <= left THEN 2 ELSE left)
        <5> HIDE DEF left
        <5> QED
          BY <4>1, Extremes
      <4>3. want = IF 2 <= left THEN 2 ELSE left
        BY <1>1, <1>2, <3>2, <4>2, Sizes, BoundsAssumption DEF Wanted
      <4>4. off + left = files[h].size
        BY <1>1, <1>2, Sizes, BoundsAssumption
      <4> HIDE DEF left
      <4> QED
        BY <1>1, <4>1, <4>3, <4>4, BoundsAssumption
    <3> QED
      BY <1>1, <1>2, <3>1, <3>2, Sizes, BoundsAssumption
  <2>2. Becomes(t, o) /\ files[h].kind # "dir"
    BY <1>4 DEF ReadFile
  <2>3. o \in Ops
    BY <1>1, <1>2, <2>1 DEF Ops
  <2>4. Rest(o)'
    BY <1>1, <2>1, <2>2 DEF Rest, TransferOk
  <2> QED
    BY <1>3, <2>2, <2>3, <2>4
<1>5. CASE WriteFile(t, h, off)
  <2> DEFINE o == [pc |-> "writing", h |-> h, off |-> off, want |-> 1]
  <2>1. /\ Becomes(t, o) /\ files[h].write /\ files[h].fd # NoFd /\ off \in 0..MaxLen - 1
    BY <1>5 DEF WriteFile
  <2>2. 1 \in 0..MaxCells /\ off < MaxLen
    BY <2>1, Sizes, BoundsAssumption
  <2>3. files[h].kind # "dir"
    BY <1>2, <2>1 DEF FileOk, Backed
  <2>4. o \in Ops
    BY <1>1, <1>2, <2>2 DEF Ops
  <2>5. Rest(o)'
    BY <1>1, <2>1, <2>2, <2>3 DEF Rest, TransferOk
  <2> QED
    BY <1>3, <2>1, <2>4, <2>5
<1> QED
  BY <1>1, <1>4, <1>5 DEF ReadFile, WriteFile

\* What a transfer hands over, and where it leaves the position.
LEMMA HandedOver ==
  ASSUME LocalOk, DiskOk, NEW f, FileOk(f), f.kind # "dir",
         NEW off \in 0..MaxLen, NEW want \in 0..MaxCells, want = 0 \/ off + want <= f.size,
         NEW got, NEW failed \in BOOLEAN,
         got = IF failed THEN <<>> ELSE Available(f, off, want)
  PROVE  LET data == Delivered(f, off, want, got)
             o == Result(f.name, f.kind, off, data, Reference(f, off, want), failed) IN
         /\ o \in Ops /\ ResultOk(o) /\ Len(data) \in 0..want
<1> DEFINE data == Delivered(f, off, want, got)
           ref == Reference(f, off, want)
           had == Available(f, off, want)
<1>1. off \in Nat /\ want \in Nat
  BY Sizes, BoundsAssumption
<1>2. /\ had \in Seq(Cells) /\ Len(had) \in 0..want
      /\ f.kind = "file" /\ f.name \in Game \ Virtual => had = Slice(Content[f.name], off, want)
      /\ f.kind = "file" /\ f.name \in Virtual => CopyOf(f.name, had, off)
      /\ f.kind = "device" => had \o Zeros(want - Len(had)) = Slice(disk, off, want)
  BY <1>1, AvailableIs
<1>3. got \in Seq(Cells) /\ Len(got) \in 0..want /\ (~failed => got = had)
  <2>1. <<>> \in Seq(Cells) /\ Len(<<>>) = 0 /\ 0 \in 0..want
    BY <1>1, EmptySeq
  <2>2. CASE failed
    BY <2>1, <2>2
  <2>3. CASE ~failed
    BY <1>2, <2>3
  <2> QED
    BY <2>2, <2>3
<1>4. f.kind \in {"file", "device", "disc"} /\ f.name \in Names \union {Device, Volume}
  BY DEF FileOk, GuestFile
<1>5. data \in Seq(Cells) /\ Len(data) \in 0..want
  <2>1. CASE f.kind = "file"
    BY <1>3, <2>1 DEF Delivered
  <2>2. CASE f.kind # "file"
    <3>1. data = got \o Zeros(want - Len(got))
      BY <2>2 DEF Delivered
    <3>2. Len(got) <= want
      BY <1>1, <1>3
    <3>3. data \in Seq(Cells) /\ Len(data) = want
      <4> DEFINE padded == got \o Zeros(want - Len(got))
      <4>1. padded \in Seq(Cells) /\ Len(padded) = want
        BY <1>1, <1>3, <3>2, PaddedIs
      <4>2. data = padded
        BY <3>1
      <4> HIDE DEF data, padded
      <4> QED
        BY <4>1, <4>2
    <3> QED
      BY <1>1, <3>3
  <2> QED
    BY <2>1, <2>2
<1>6. ref \in Seq(Cells)
  <2>1. CASE f.kind = "device"
    <3>1. ref = Slice(disk, off, want) /\ disk \in Seq(Cells)
      BY <2>1, DiskIs DEF Reference
    <3> QED
      BY <1>1, <3>1, SliceIs
  <2>2. CASE f.kind = "file" /\ f.name \in Game
    <3>1. ref = Slice(Content[f.name], off, want) /\ Content[f.name] \in Seq(Cells)
      BY <2>2, ContentAssumption DEF Reference
    <3> QED
      BY <1>1, <3>1, SliceIs
  <2>3. CASE f.kind # "device" /\ ~(f.kind = "file" /\ f.name \in Game)
    <3>1. ref = <<>>
      BY <2>3 DEF Reference
    <3> QED
      BY <3>1, EmptySeq
  <2> QED
    BY <2>1, <2>2, <2>3
<1>7. f.kind = "file" /\ f.name \in Game =>
        IF f.name \in Virtual THEN CopyOf(f.name, data, off) ELSE failed \/ data = ref
  <2> SUFFICES ASSUME f.kind = "file", f.name \in Game
               PROVE  IF f.name \in Virtual THEN CopyOf(f.name, data, off) ELSE failed \/ data = ref
    OBVIOUS
  <2>1. data = got /\ ref = Slice(Content[f.name], off, want)
    BY DEF Delivered, Reference
  <2>2. CASE failed
    <3>1. got = <<>> /\ Len(<<>>) = 0
      BY <2>2
    <3>2. CopyOf(f.name, got, off)
      BY <3>1 DEF CopyOf
    <3> QED
      BY <2>1, <2>2, <3>2
  <2>3. CASE ~failed
    BY <1>2, <1>3, <2>1, <2>3
  <2> QED
    BY <2>2, <2>3
<1>8. f.kind = "device" /\ ~failed => data = ref
  <2> SUFFICES ASSUME f.kind = "device", ~failed PROVE data = ref
    OBVIOUS
  <2>1. data = had \o Zeros(want - Len(had))
    BY <1>3 DEF Delivered
  <2>2. ref = Slice(disk, off, want)
    BY DEF Reference
  <2> QED
    BY <1>2, <2>1, <2>2
<1> HIDE DEF data, ref, had
<1>9. ResultOk(Result(f.name, f.kind, off, data, ref, failed))
  BY <1>7, <1>8 DEF ResultOk, Result
<1>10. Result(f.name, f.kind, off, data, ref, failed) \in Ops
  BY <1>4, <1>5, <1>6 DEF Result, Ops
<1> QED
  BY <1>5, <1>9, <1>10 DEF data, ref

LEMMA DeliversKeepsData ==
  ASSUME Inv, IInv', NEW t \in Threads, NEW got, NEW failed \in BOOLEAN, op[t].pc = "reading",
         got = IF failed THEN <<>> ELSE Available(files[op[t].h], op[t].off, op[t].want),
         Delivers(t, got, failed)
  PROVE  Inv'
<1>0. PICK h, off, want, f : h = op[t].h /\ off = op[t].off /\ want = op[t].want /\ f = files[h]
  OBVIOUS
<1>1. /\ h \in DOMAIN files /\ f.kind # "dir" /\ FileOk(f) /\ f \in GuestFile
      /\ off \in 0..MaxLen /\ want \in 0..MaxCells /\ (want = 0 \/ off + want <= f.size)
  <2>1. /\ h \in DOMAIN files /\ f.kind # "dir" /\ (want = 0 \/ off + want <= f.size)
        /\ off \in 0..MaxLen /\ want \in 0..MaxCells
    BY <1>0, OpHas DEF Rest, TransferOk, Ops, Idle
  <2> QED
    BY <1>0, <2>1, FileHas
<1>2. PICK data, o : /\ data = Delivered(f, off, want, got)
                     /\ o = Result(f.name, f.kind, off, data, Reference(f, off, want), failed)
  OBVIOUS
<1>3. o \in Ops /\ ResultOk(o) /\ Len(data) \in 0..want
  <2>1. LocalOk /\ DiskOk /\ got = IF failed THEN <<>> ELSE Available(f, off, want)
    BY <1>0 DEF Inv, Data
  <2> QED
    BY <1>1, <1>2, <2>1, HandedOver
<1>4. PICK p : p = IF want = 0 /\ f.kind # "file" THEN f.pos ELSE off + Len(data)
  OBVIOUS
<1>5. /\ Becomes(t, o) /\ files' = [files EXCEPT ![h].pos = p]
      /\ UNCHANGED <<fds, local, assetsIsIso, nextHandle, disk, calls>>
  BY <1>0, <1>2, <1>4 DEF Delivers, Position, hostVars
<1>6. p \in 0..MaxCells /\ (f.kind # "disc" => p <= MaxLen)
  <2>1. /\ f.size \in Nat /\ f.size <= MaxCells /\ f.pos \in 0..MaxCells
        /\ (f.kind # "disc" => f.pos <= MaxLen) /\ f.kind \in {"file", "device", "disc"}
    BY <1>1, Sizes DEF FileOk, GuestFile
  <2>2. f.kind # "disc" => f.size <= MaxLen
    BY <1>1, <2>1, FileIsShort
  <2>3. want = 0 => Len(data) = 0
    BY <1>3
  <2>4. off \in Nat /\ want \in Nat /\ Len(data) \in Nat /\ Len(data) <= want /\ off <= MaxLen
        /\ MaxLen \in Nat /\ MaxCells \in Nat /\ MaxLen <= MaxCells
    BY <1>1, <1>3, Sizes, BoundsAssumption
  <2>5. CASE want = 0
    BY <1>4, <2>1, <2>3, <2>4, <2>5
  <2>6. CASE want # 0
    <3>1. p = off + Len(data) /\ p <= f.size
      BY <1>1, <1>4, <2>1, <2>4, <2>6
    <3> QED
      BY <2>1, <2>2, <2>4, <3>1
  <2> QED
    BY <2>5, <2>6
<1>7. /\ DOMAIN files' = DOMAIN files /\ files'[h] = [f EXCEPT !.pos = p]
      /\ \A k \in DOMAIN files \ {h} : files'[k] = files[k]
  BY <1>0, <1>1, <1>5
<1>8. PICK e : e = [f EXCEPT !.pos = p]
  OBVIOUS
<1>9. /\ e \in GuestFile /\ e.kind = f.kind /\ e.fd = f.fd /\ e.size = f.size /\ e.pos = p
      /\ e.name = f.name /\ e.base = f.base /\ e.write = f.write
  BY <1>1, <1>6, <1>8 DEF GuestFile
<1>10. FileOk(e)'
  <2>1. Backed(f, fds[f.fd]) => Backed(e, fds[f.fd])
    BY <1>9 DEF Backed
  <2> QED
    BY <1>1, <1>5, <1>6, <1>9, <2>1 DEF FileOk
<1>11. FdsSafe(t) /\ Grows
  BY <1>5 DEF FdsSafe, Grows
<1>12. FilesOk'
  <2>1. ASSUME NEW k \in DOMAIN files' PROVE FileOk(files[k])'
    <3>1. CASE k = h
      BY <1>7, <1>8, <1>10, <3>1
    <3>2. CASE k # h
      <4>1. \A x : x = files[k] => FileOk(x)'
        BY <1>5, <1>7, <3>2, FileHas, FileKept
      <4> QED
        BY <1>7, <3>2, <4>1
    <3> QED
      BY <3>1, <3>2
  <2> QED
    BY <2>1 DEF FilesOk
<1>13. FilesGrow(t)
  <2>1. ASSUME NEW k \in DOMAIN files
        PROVE  /\ k \in DOMAIN files' /\ files'[k].kind = files[k].kind /\ files'[k].fd = files[k].fd
               /\ files'[k].write = files[k].write /\ files'[k].size = files[k].size
               /\ files[k].size \in Nat
    BY <1>0, <1>7, <1>8, <1>9, FileHas
  <2>2. ASSUME NEW k \in DOMAIN files PROVE files'[k].size \in Nat /\ files'[k].size >= files[k].size
    BY <2>1
  <2> QED
    BY <2>1, <2>2 DEF FilesGrow
<1>14. Hosts' /\ LocalOk' /\ DiskOk'
  BY <1>5 DEF Inv, Data, Hosts, LocalOk, DiskOk
<1>15. Steps(t, o) /\ o.pc = "read" /\ Rest(o)'
  <2>1. o.pc = "read"
    BY <1>2 DEF Result
  <2> QED
    BY <1>3, <1>5, <2>1, Moves DEF Inv, Rest
<1>16. Counted'
  BY <1>5, <1>15, CountsKeep DEF Counts, ToRegister
<1> QED
  BY <1>3, <1>11, <1>12, <1>13, <1>14, <1>15, <1>16, Composes

-----------------------------------------------------------------------------
(* Storing *)

LEMMA LocalStored ==
  ASSUME Inv, NEW n \in Stored, NEW cells, CellsOk(n, cells), local' = [local EXCEPT ![n] = cells],
         UNCHANGED fds \/ OpenOn(OnLocal(n))
  PROVE  LocalOk' /\ Grows /\ local'[n] = cells /\ \A m \in Stored \ {n} : local'[m] = local[m]
<1>1. LocalOk
  BY DEF Inv, Data
<1>2. /\ DOMAIN local' = Stored /\ local'[n] = cells
      /\ \A m \in Stored \ {n} : local'[m] = local[m]
  BY <1>1 DEF LocalOk
<1>3. cells # Absent
  BY StoredIsThere DEF CellsOk
<1>4. ASSUME NEW m \in Stored PROVE local'[m] = Absent \/ CellsOk(m, local'[m])
  BY <1>1, <1>2 DEF LocalOk
<1>5. Grows
  BY <1>2, <1>3 DEF Grows
<1>6. ASSUME NEW g \in Fds, NEW m \in Stored, fds'[g] = OnLocal(m) PROVE local'[m] # Absent
  <2>1. CASE m = n
    BY <1>2, <1>3, <2>1
  <2>2. CASE m # n
    <3>1. fds[g] = OnLocal(m)
      BY <1>6, <2>2, NewFdIsFree DEF OpenOn, OnLocal, Inv, Data, Hosts
    <3> QED
      BY <1>1, <1>2, <2>2, <3>1 DEF LocalOk
  <2> QED
    BY <2>1, <2>2
<1>7. \A m \in Stored : local'[m] = Absent \/ CellsOk(m, local'[m])
  BY <1>4
<1>8. LocalOk'
  BY <1>2, <1>6, <1>7 DEF LocalOk
<1> QED
  BY <1>2, <1>5, <1>8

\* A step that stores cells under a name and leaves the handles.
LEMMA Stores ==
  ASSUME Inv, IInv', NEW t \in Threads, NEW o, Steps(t, o), o \in Ops, Rest(o)', Counts(t, o),
         NEW n \in Stored, NEW cells, CellsOk(n, cells), local' = [local EXCEPT ![n] = cells],
         UNCHANGED fds \/ OpenOn(OnLocal(n)), DiskOk', UNCHANGED <<assetsIsIso, files>>
  PROVE  Inv'
<1>1. Hosting(t) /\ assetsIsIso' \in BOOLEAN
  BY DEF Hosting, HostFiles, Inv, Data, Hosts, Stored
<1>2. FdsSafe(t) /\ Hosts'
  BY <1>1, HostingKeeps
<1>3. LocalOk' /\ Grows
  BY LocalStored
<1>4. FilesOk' /\ FilesGrow(t)
  BY <1>2, FilesStay
<1>5. Counted'
  BY CountsKeep
<1> QED
  BY <1>2, <1>3, <1>4, <1>5, Composes

LEMMA DiskSame ==
  ASSUME Inv, UNCHANGED disk, local'[Device] = local[Device] PROVE DiskOk'
  BY DEF Inv, Data, DiskOk

LEMMA NothingStored ==
  ASSUME NEW n \in Stored PROVE CellsOk(n, <<>>)
<1>1. <<>> \in Seq(Cells) /\ Len(<<>>) = 0
  BY EmptySeq
<1> QED
  BY <1>1, Sizes, BoundsAssumption DEF CellsOk, CopyOf

LEMMA OpenWriteKeepsData ==
  ASSUME Inv, IInv', NEW t \in Threads, NEW n \in Names, OpenWrite(t, n)
  PROVE  Inv'
<1> PICK f : f = FileAt(n, "file", NewFd, 0, 0, TRUE)
  OBVIOUS
<1> DEFINE o == [pc |-> "opened", file |-> f]
<1>1. /\ Starts(t) /\ n \notin Game /\ OpenOn(OnLocal(n)) /\ local' = [local EXCEPT ![n] = <<>>]
      /\ Becomes(t, o) /\ UNCHANGED <<assetsIsIso, files, nextHandle, disk>>
  BY DEF OpenWrite, guestVars
<1>2. /\ f \in GuestFile /\ f.name = n /\ f.kind = "file" /\ f.fd = NewFd
      /\ f.size = 0 /\ f.base = 0 /\ f.pos = 0
  <2>1. NewFd \in Fds /\ 0 \in 0..MaxCells /\ 0 \in 0..Total
    BY <1>1, NewFdIsFree, Sizes DEF OpenOn, Total
  <2> QED
    BY <2>1 DEF FileAt, GuestFile, Total
<1>3. f.size <= MaxLen /\ f.pos <= MaxLen
  <2>1. 0 <= MaxLen
    BY BoundsAssumption
  <2>2. f.size = 0 /\ f.pos = 0
    BY <1>2
  <2> QED
    BY <2>1, <2>2
<1>4. Backed(f, OnLocal(n))
  BY <1>1, <1>2, <1>3 DEF Backed
<1>5. o \in Ops /\ Rest(o)'
  BY <1>1, <1>2, <1>3, <1>4, OpensFile
<1>6. Steps(t, o) /\ Counts(t, o)
  BY <1>1, Moves, NewCall DEF Inv
<1>7. DiskOk'
  BY <1>1, NamesAssumption, DiskSame DEF Inv, Data, LocalOk, Stored
<1>8. n \in Stored /\ CellsOk(n, <<>>)
  BY NothingStored DEF Stored
<1> QED
  BY <1>1, <1>5, <1>6, <1>7, <1>8, Stores

\* Opening the hard disk keeps what its backing file has.
LEMMA OpenBlockDeviceKeepsData ==
  ASSUME Inv, IInv', NEW t \in Threads, OpenBlockDevice(t)
  PROVE  Inv'
<1> PICK f, cells : /\ f = FileAt(Device, "device", NewFd, MaxLen, 0, TRUE)
                    /\ cells = IF local[Device] = Absent THEN <<>> ELSE local[Device]
  OBVIOUS
<1> DEFINE o == [pc |-> "opened", file |-> f]
<1>0. Device \in Stored
  BY DEF Stored
<1>1. /\ Starts(t) /\ OpenOn(OnLocal(Device)) /\ local' = [local EXCEPT ![Device] = cells]
      /\ Becomes(t, o) /\ UNCHANGED <<assetsIsIso, files, nextHandle, disk>>
  <2>1. local' = [local EXCEPT ![Device] = cells]
    BY <1>0 DEF OpenBlockDevice, ReadWrite, Inv, Data, LocalOk
  <2> QED
    BY <2>1 DEF OpenBlockDevice, guestVars
<1>2. /\ f \in GuestFile /\ f.name = Device /\ f.kind = "device" /\ f.fd = NewFd
      /\ f.size = MaxLen /\ f.base = 0 /\ f.pos = 0
  <2>1. NewFd \in Fds /\ 0 \in 0..MaxCells /\ 0 \in 0..Total /\ MaxLen \in 0..MaxCells
    BY <1>1, NewFdIsFree, Sizes, BoundsAssumption DEF OpenOn, Total
  <2> QED
    BY <2>1 DEF FileAt, GuestFile, Total
<1>3. f.pos <= MaxLen
  <2>1. 0 <= MaxLen
    BY BoundsAssumption
  <2>2. f.pos = 0
    BY <1>2
  <2> QED
    BY <2>1, <2>2
<1>4. Backed(f, OnLocal(Device))
  BY <1>2 DEF Backed
<1>5. o \in Ops /\ Rest(o)'
  BY <1>1, <1>2, <1>3, <1>4, OpensFile
<1>6. Steps(t, o) /\ Counts(t, o)
  BY <1>1, Moves, NewCall DEF Inv
<1>7. CellsOk(Device, cells)
  BY <1>0, NothingStored DEF Inv, Data, LocalOk
<1>8. DiskOk'
  <2>1. local'[Device] = cells /\ cells # Absent
    BY <1>0, <1>1, <1>7, StoredIsThere DEF Inv, Data, LocalOk, CellsOk
  <2>2. local[Device] = Absent => Len(cells) = 0
    BY EmptySeq
  <2>3. \A i \in 1..MaxLen :
          disk[i] = IF cells # Absent /\ i <= Len(cells) THEN cells[i] ELSE Zero
    <3>1. CASE local[Device] = Absent
      BY <2>2, <3>1, BoundsAssumption DEF Inv, Data, DiskOk
    <3>2. CASE local[Device] # Absent
      BY <3>2 DEF Inv, Data, DiskOk
    <3> QED
      BY <3>1, <3>2
  <2> QED
    BY <1>1, <2>1, <2>3 DEF Inv, Data, DiskOk
<1> QED
  BY <1>0, <1>1, <1>5, <1>6, <1>7, <1>8, Stores

LEMMA CopyBeginsKeepsData ==
  ASSUME Inv, IInv', NEW t \in Threads, CopyBegins(t)
  PROVE  Inv'
<1>0. PICK n : n = op[t].name
  OBVIOUS
<1> DEFINE o == [pc |-> "copying", name |-> n, at |-> 0]
<1>1. /\ op[t].pc = "copy" /\ local' = [local EXCEPT ![n] = <<>>] /\ Becomes(t, o)
      /\ UNCHANGED <<fds, assetsIsIso, files, nextHandle, disk, calls>>
  BY <1>0 DEF CopyBegins, guestVars, bounds
<1>2. n \in Game /\ n \in Virtual /\ n \in Stored /\ n # Device /\ op[t].pc \in ToRegister
  BY <1>0, <1>1, OpHas, NamesAssumption DEF Rest, Stored, ToRegister
<1>3. CellsOk(n, <<>>)
  BY <1>2, NothingStored
<1>4. local'[n] # Absent
  BY <1>1, <1>2, <1>3, LocalStored, StoredIsThere DEF CellsOk
<1>5. o \in Ops /\ Rest(o)'
  BY <1>2, <1>4, Sizes, BoundsAssumption DEF Ops, Rest
<1>6. Steps(t, o) /\ Counts(t, o)
  BY <1>1, <1>2, Moves DEF Inv, Counts
<1>7. DiskOk'
  BY <1>1, <1>2, DiskSame DEF Inv, Data, LocalOk, Stored
<1> QED
  BY <1>1, <1>2, <1>3, <1>5, <1>6, <1>7, Stores

LEMMA CopiedIs ==
  ASSUME NEW n \in Game, NEW old, CellsOk(n, old), NEW i \in Nat, i < Len(Content[n]),
         NEW cells, cells = Put(old, i, Content[n][i + 1])
  PROVE  CellsOk(n, cells)
<1>0. PICK c : c = Content[n][i + 1]
  OBVIOUS
<1>1. /\ Content[n] \in Seq(Cells) /\ Len(Content[n]) \in 0..MaxLen /\ i + 1 \in 1..Len(Content[n])
      /\ old \in Seq(Cells) /\ Len(old) \in Nat /\ Len(old) <= Len(Content[n])
  BY Sizes, ContentAssumption, BoundsAssumption, LenProperties DEF CellsOk
<1>2. c \in Cells
  BY <1>0, <1>1, ElementOfSeq
<1>3. /\ cells \in Seq(Cells)
      /\ Len(cells) = IF Len(old) >= i + 1 THEN Len(old) ELSE i + 1
      /\ \A j \in 1..Len(cells) :
           cells[j] = IF j = i + 1 THEN c ELSE IF j <= Len(old) THEN old[j] ELSE Zero
  <2>1. /\ Put(old, i, c) \in Seq(Cells)
        /\ Len(Put(old, i, c)) = IF Len(old) >= i + 1 THEN Len(old) ELSE i + 1
        /\ \A j \in 1..Len(Put(old, i, c)) :
             Put(old, i, c)[j] = IF j = i + 1 THEN c ELSE IF j <= Len(old) THEN old[j] ELSE Zero
    BY <1>1, <1>2, PutIs
  <2>2. cells = Put(old, i, c)
    BY <1>0
  <2> QED
    BY <2>1, <2>2
<1>4. Len(cells) \in Nat /\ Len(cells) <= Len(Content[n]) /\ Len(cells) <= MaxLen
  BY <1>1, <1>3, BoundsAssumption
<1>5. CopyOf(n, cells, 0)
  <2>1. ASSUME NEW j \in 1..Len(cells) PROVE cells[j] \in {Content[n][0 + j], Zero}
    <3>1. 0 + j = j /\ (j <= Len(old) => j \in 1..Len(old))
      BY <1>1, <1>4
    <3>2. j <= Len(old) => old[j] \in {Content[n][j], Zero}
      BY <3>1 DEF CellsOk, CopyOf
    <3> QED
      BY <1>0, <1>3, <3>1, <3>2
  <2> QED
    BY <2>1 DEF CopyOf
<1> QED
  BY <1>3, <1>4, <1>5 DEF CellsOk

\* A cell copied in place: the copy stays one of the file, with holes at worst.
LEMMA CopyKeepsData ==
  ASSUME Inv, IInv', NEW t \in Threads, Copy(t)
  PROVE  Inv'
<1>0. PICK n, i : n = op[t].name /\ i = op[t].at
  OBVIOUS
<1>1. /\ op[t].pc = "copying" /\ UNCHANGED <<fds, assetsIsIso, files, nextHandle, disk, calls>>
  BY DEF Copy, guestVars, bounds
<1>2. /\ n \in Game /\ n \in Virtual /\ n \in Stored /\ n # Device /\ n \in Names
      /\ op[t] \in [pc : {"copying"}, name : Game, at : 0..MaxLen]
      /\ i \in 0..MaxLen /\ i <= Len(Content[n]) /\ local[n] # Absent /\ op[t].pc \in ToRegister
  BY <1>0, <1>1, OpHas, NamesAssumption DEF Rest, Stored, ToRegister, Ops, Idle
<1>3. CellsOk(n, local[n]) /\ local[n] \in Seq(Cells) /\ Content[n] \in Seq(Cells)
      /\ Len(Content[n]) \in 0..MaxLen /\ Len(local[n]) \in Nat
  BY <1>2, Sizes, ContentAssumption, LenProperties DEF Inv, Data, LocalOk, CellsOk
<1>4. CASE i < Len(Content[n])
  <2> PICK o, cells : o = [op[t] EXCEPT !.at = i + 1] /\ cells = Put(local[n], i, Content[n][i + 1])
    OBVIOUS
  <2>1. local' = [local EXCEPT ![n] = cells] /\ Becomes(t, o)
    BY <1>0, <1>2, <1>4 DEF Copy, Inv, Data, LocalOk
  <2>2. i \in Nat /\ i + 1 \in 1..Len(Content[n]) /\ i + 1 \in 0..MaxLen
    BY <1>2, <1>3, <1>4, BoundsAssumption
  <2>3. CellsOk(n, cells) /\ cells \in Seq(Cells)
    BY <1>2, <1>3, <1>4, <2>2, CopiedIs DEF CellsOk
  <2>4. o.pc = "copying" /\ o.name = n /\ o.at = i + 1 /\ o \in Ops
    BY <1>0, <1>2, <2>2 DEF Ops
  <2>5. local'[n] # Absent /\ DiskOk'
    <3>1. local'[n] = cells /\ local'[Device] = local[Device]
      BY <1>2, <2>1 DEF Inv, Data, LocalOk, Stored
    <3> QED
      BY <1>1, <2>3, <3>1, StoredIsThere, DiskSame
  <2>6. Rest(o)'
    BY <1>2, <2>2, <2>4, <2>5 DEF Rest
  <2>7. Steps(t, o) /\ Counts(t, o)
    BY <1>1, <1>2, <2>1, Moves DEF Inv, Counts
  <2> QED
    BY <1>1, <1>2, <2>1, <2>3, <2>4, <2>5, <2>6, <2>7, Stores
<1>5. CASE ~(i < Len(Content[n]))
  <2>1. PICK c \in {"missing", "reopening"} : Becomes(t, [pc |-> c, name |-> n])
    BY <1>0, <1>5 DEF Copy
  <2>2. UNCHANGED local
    BY <1>0, <1>5 DEF Copy
  <2> QED
    BY <1>1, <1>2, <2>1, <2>2, GoesOn
<1> QED
  BY <1>4, <1>5

-----------------------------------------------------------------------------
(* Writing *)

\* What a file that may be written is of: a name of the title's own, or the hard disk.
LEMMA WrittenIs ==
  ASSUME Inv, NEW f, FileOk(f), f.write, f.fd # NoFd
  PROVE  /\ f.fd \in Fds /\ fds[f.fd] = OnLocal(f.name) /\ f.name \in Stored /\ f.name \notin Game
         /\ f.base = 0 /\ f.kind \in {"file", "device"}
         /\ (f.kind = "device" <=> f.name = Device)
  BY NamesAssumption DEF FileOk, Backed, GuestFile, Stored

\* A write of one cell: the file grows, the backing of the disk has what the disk has.
LEMMA PutKeepsCells ==
  ASSUME NEW n \in Stored, n \notin Game, NEW old, CellsOk(n, old), NEW off \in 0..MaxLen - 1,
         NEW cells, cells = Put(old, off, <<n, 1>>)
  PROVE  /\ CellsOk(n, cells)
         /\ \A i \in 1..MaxLen :
              (IF i <= Len(cells) THEN cells[i] ELSE Zero) =
                IF i = off + 1 THEN <<n, 1>> ELSE IF i <= Len(old) THEN old[i] ELSE Zero
<1>0. PICK c : c = <<n, 1>>
  OBVIOUS
<1>1. c \in Cells /\ off \in Nat /\ old \in Seq(Cells) /\ Len(old) \in Nat /\ Len(old) <= MaxLen
  BY <1>0, Sizes, BoundsAssumption, LenProperties DEF Stored, CellsOk
<1>2. /\ cells \in Seq(Cells)
      /\ Len(cells) = IF Len(old) >= off + 1 THEN Len(old) ELSE off + 1
      /\ \A i \in 1..Len(cells) :
           cells[i] = IF i = off + 1 THEN c ELSE IF i <= Len(old) THEN old[i] ELSE Zero
  <2>1. /\ Put(old, off, c) \in Seq(Cells)
        /\ Len(Put(old, off, c)) = IF Len(old) >= off + 1 THEN Len(old) ELSE off + 1
        /\ \A i \in 1..Len(Put(old, off, c)) :
             Put(old, off, c)[i] = IF i = off + 1 THEN c ELSE IF i <= Len(old) THEN old[i] ELSE Zero
    BY <1>1, PutIs
  <2>2. cells = Put(old, off, c)
    BY <1>0
  <2> QED
    BY <2>1, <2>2
<1>3. Len(cells) \in Nat /\ Len(cells) <= MaxLen /\ off + 1 <= Len(cells) /\ Len(old) <= Len(cells)
  BY <1>1, <1>2, BoundsAssumption
<1>4. CellsOk(n, cells)
  BY <1>2, <1>3 DEF CellsOk
<1>5. \A i \in 1..MaxLen : (IF i <= Len(cells) THEN cells[i] ELSE Zero) =
                IF i = off + 1 THEN c ELSE IF i <= Len(old) THEN old[i] ELSE Zero
  <2> SUFFICES ASSUME NEW i \in 1..MaxLen
               PROVE  (IF i <= Len(cells) THEN cells[i] ELSE Zero) =
                        IF i = off + 1 THEN c ELSE IF i <= Len(old) THEN old[i] ELSE Zero
    OBVIOUS
  <2>1. CASE i <= Len(cells)
    <3>1. i \in 1..Len(cells)
      BY <1>3, <2>1
    <3> QED
      BY <1>2, <2>1, <3>1
  <2>2. CASE ~(i <= Len(cells))
    <3>1. i # off + 1 /\ ~(i <= Len(old))
      BY <1>1, <1>3, <2>2, BoundsAssumption
    <3> QED
      BY <2>2, <3>1
  <2> QED
    BY <2>1, <2>2
<1> QED
  BY <1>0, <1>4, <1>5

LEMMA PwriteKeepsData ==
  ASSUME Inv, IInv', NEW t \in Threads, Pwrite(t)
  PROVE  Inv'
<1>0. PICK h, off, f : h = op[t].h /\ off = op[t].off /\ f = files[h]
  OBVIOUS
<1>1. /\ op[t].pc = "writing" /\ UNCHANGED <<fds, assetsIsIso, nextHandle, calls>> /\ Becomes(t, Idle)
  BY DEF Pwrite, bounds
<1>2. /\ h \in DOMAIN files /\ f.write /\ f.fd # NoFd /\ off \in 0..MaxLen /\ off < MaxLen
  BY <1>0, <1>1, OpHas DEF Rest, TransferOk, Ops, Idle
<1>3. FileOk(f) /\ f \in GuestFile /\ f.size \in Nat
  BY <1>0, <1>2, FileHas
<1>4. PICK n : n = f.name
  OBVIOUS
<1>5. /\ f.fd \in Fds /\ fds[f.fd] = OnLocal(n) /\ n \in Stored /\ n \notin Game
      /\ f.kind \in {"file", "device"} /\ (f.kind = "device" <=> n = Device)
  BY <1>2, <1>3, <1>4, WrittenIs
<1>6. local[n] # Absent /\ CellsOk(n, local[n])
  BY <1>5, StoredIs DEF Inv, Data
<1>7. PICK old, cells : old = local[n] /\ cells = Put(old, off, <<n, 1>>)
  OBVIOUS
<1>8. PICK s : s = Max({f.size, off + 1})
  OBVIOUS
<1>9. /\ local' = [local EXCEPT ![n] = cells]
      /\ files' = [files EXCEPT ![h].size = s, ![h].pos = off + 1]
      /\ disk' = IF f.kind = "device" THEN [disk EXCEPT ![off + 1] = <<Device, 1>>] ELSE disk
  <2>1. fds[files[h].fd][2] = n
    BY <1>0, <1>5 DEF OnLocal
  <2> QED
    BY <1>0, <1>2, <1>5, <1>7, <1>8, <2>1 DEF Pwrite, Inv, Data, LocalOk
<1>10. off \in 0..MaxLen - 1 /\ off + 1 \in 1..MaxLen /\ off + 1 \in Nat
  BY <1>2, BoundsAssumption
<1>11. /\ CellsOk(n, cells)
       /\ \A i \in 1..MaxLen : (IF i <= Len(cells) THEN cells[i] ELSE Zero) =
            IF i = off + 1 THEN <<n, 1>> ELSE IF i <= Len(old) THEN old[i] ELSE Zero
  <2>1. CellsOk(n, old) /\ cells = Put(old, off, <<n, 1>>)
    BY <1>6, <1>7
  <2> QED
    BY <1>5, <1>10, <2>1, PutKeepsCells
<1>12. LocalOk' /\ Grows /\ local'[n] = cells /\ \A m \in Stored \ {n} : local'[m] = local[m]
  BY <1>1, <1>5, <1>9, <1>11, LocalStored
<1>13. DiskOk'
  <2>1. CASE f.kind = "device"
    <3>1. n = Device /\ disk' = [disk EXCEPT ![off + 1] = <<Device, 1>>] /\ cells # Absent
      BY <1>5, <1>9, <1>11, <2>1, StoredIsThere DEF CellsOk
    <3>2. \A i \in 1..MaxLen :
            disk'[i] = IF i = off + 1 THEN <<n, 1>> ELSE IF i <= Len(old) THEN old[i] ELSE Zero
      BY <1>6, <1>7, <1>10, <3>1 DEF Inv, Data, DiskOk
    <3>3. \A i \in 1..MaxLen : disk'[i] = IF i <= Len(cells) THEN cells[i] ELSE Zero
      BY <1>11, <3>2
    <3>4. disk' \in [1..MaxLen -> Cells]
      <4>1. <<Device, 1>> \in Cells
        BY Sizes
      <4> QED
        BY <1>10, <3>1, <4>1 DEF Inv, Data, DiskOk
    <3> QED
      BY <1>12, <3>1, <3>3, <3>4 DEF DiskOk
  <2>2. CASE f.kind # "device"
    BY <1>5, <1>9, <1>12, <2>2, DiskSame DEF Stored
  <2> QED
    BY <2>1, <2>2
<1>14. s = (IF f.size >= off + 1 THEN f.size ELSE off + 1)
  BY <1>3, <1>8, <1>10, Extremes
<1>15. s \in Nat /\ s >= f.size /\ s <= MaxLen /\ (f.size = MaxLen => s = MaxLen)
  <2>1. f.size <= MaxLen
    BY <1>3, <1>5, FileIsShort
  <2> QED
    BY <1>3, <1>10, <1>14, <2>1, BoundsAssumption
<1>16. PICK e : e = [f EXCEPT !.size = s, !.pos = off + 1]
  OBVIOUS
<1>17. /\ DOMAIN files' = DOMAIN files /\ files'[h] = e
       /\ \A k \in DOMAIN files \ {h} : files'[k] = files[k]
  BY <1>0, <1>2, <1>9, <1>16
<1>18. /\ e \in GuestFile /\ e.kind = f.kind /\ e.fd = f.fd /\ e.size = s /\ e.pos = off + 1
       /\ e.name = f.name /\ e.base = f.base /\ e.write = f.write
  <2>1. s \in 0..MaxCells /\ off + 1 \in 0..MaxCells
    BY <1>10, <1>15, Sizes, BoundsAssumption
  <2> QED
    BY <1>3, <1>16, <2>1 DEF GuestFile
<1>19. FileOk(e)'
  <2>1. Backed(f, fds[f.fd]) /\ f.name \notin Game /\ f.write /\ f.kind \in {"file", "device"}
    BY <1>2, <1>3, <1>4, <1>5 DEF FileOk
  <2>2. Backed(e, fds[f.fd])
    BY <1>15, <1>18, <2>1 DEF Backed
  <2>3. e.pos <= MaxLen
    <3>1. off + 1 <= MaxLen
      BY <1>10, BoundsAssumption
    <3>2. e.pos = off + 1
      BY <1>18
    <3> QED
      BY <3>1, <3>2
  <2> QED
    BY <1>1, <1>2, <1>18, <2>2, <2>3 DEF FileOk
<1>20. FdsSafe(t) /\ Hosts'
  BY <1>1 DEF FdsSafe, Inv, Data, Hosts
<1>21. FilesOk'
  <2>1. ASSUME NEW k \in DOMAIN files' PROVE FileOk(files[k])'
    <3>1. CASE k = h
      BY <1>17, <1>19, <3>1
    <3>2. CASE k # h
      <4>1. \A x : x = files[k] => FileOk(x)'
        BY <1>1, <1>17, <3>2, FileHas, FileKept
      <4> QED
        BY <1>17, <3>2, <4>1
    <3> QED
      BY <3>1, <3>2
  <2> QED
    BY <2>1 DEF FilesOk
<1>22. FilesGrow(t)
  <2>1. ASSUME NEW k \in DOMAIN files
        PROVE  /\ k \in DOMAIN files' /\ files'[k].kind = files[k].kind /\ files'[k].fd = files[k].fd
               /\ files'[k].write = files[k].write
    BY <1>0, <1>17, <1>18
  <2>2. ASSUME NEW k \in DOMAIN files PROVE files'[k].size \in Nat /\ files'[k].size >= files[k].size
    <3>1. CASE k = h
      <4>1. files'[k].size = s /\ files[k].size = f.size
        BY <1>0, <1>17, <1>18, <3>1
      <4> QED
        BY <1>15, <4>1
    <3>2. CASE k # h
      <4>1. files'[k] = files[k] /\ files[k].size \in Nat
        BY <1>17, <3>2, FileHas
      <4> QED
        BY <4>1
    <3> QED
      BY <3>1, <3>2
  <2> QED
    BY <2>1, <2>2 DEF FilesGrow
<1>23. Steps(t, Idle)
  BY <1>1, Moves DEF Inv
<1>24. Counts(t, Idle)
  BY <1>1 DEF Counts, Idle, ToRegister
<1> QED
  BY <1>12, <1>13, <1>20, <1>21, <1>22, <1>23, <1>24, IdleIs, CountsKeep, Composes

LEMMA EndsKeepData ==
  ASSUME Inv, IInv', NEW t \in Threads, PwriteFails(t) \/ CloseEnds(t)
  PROVE  Inv'
<1>1. /\ Becomes(t, Idle) /\ UNCHANGED <<local, assetsIsIso, files, nextHandle, disk, calls>>
      /\ UNCHANGED fds \/ (op[t].pc = "closing" /\ CloseFd(op[t].fd))
  BY DEF PwriteFails, CloseEnds, hostVars, guestVars, bounds
<1>2. Steps(t, Idle) /\ Counts(t, Idle)
  BY <1>1, Moves DEF Inv, Counts, Idle, ToRegister
<1>3. op[t].pc = "closing" => FdOf(op[t]) = op[t].fd /\ op[t].fd \in Fds
  BY OpHas DEF FdOf, Shaped
<1> QED
  BY <1>1, <1>2, <1>3, IdleIs, AsideQuietly, AsideCloses

-----------------------------------------------------------------------------
(* The table of handles *)

\* A file in the table is the one that the call had opened.
LEMMA RegisterKeepsData ==
  ASSUME Inv, IInv', NEW t \in Threads, Register(t)
  PROVE  Inv'
<1>0. PICK f : f = op[t].file
  OBVIOUS
<1>1. /\ op[t].pc = "opened" /\ files' = With(nextHandle, f) /\ nextHandle' = nextHandle + 1
      /\ Becomes(t, Idle) /\ UNCHANGED <<fds, local, assetsIsIso, disk, calls>>
  BY <1>0 DEF Register, hostVars, bounds
<1>2. FileOk(f) /\ FileOk(f)'
  <2>1. FileOk(f)
    BY <1>0, <1>1, OpHas DEF Rest
  <2> QED
    BY <1>1, <2>1, FileKept
<1>3. /\ DOMAIN files' = DOMAIN files \union {nextHandle} /\ nextHandle \notin DOMAIN files
      /\ files'[nextHandle] = f /\ \A h \in DOMAIN files : files'[h] = files[h]
  BY <1>1 DEF With, Inv, IInv, Shapes
<1>4. FdsSafe(t) /\ Grows /\ Hosts' /\ LocalOk' /\ DiskOk'
  BY <1>1 DEF FdsSafe, Grows, Inv, Data, Hosts, LocalOk, DiskOk
<1>5. FilesOk'
  <2>1. ASSUME NEW h \in DOMAIN files' PROVE FileOk(files[h])'
    <3>1. CASE h = nextHandle
      BY <1>2, <1>3, <3>1
    <3>2. CASE h # nextHandle
      <4>1. \A x : x = files[h] => FileOk(x)'
        BY <1>1, <1>3, <3>2, FileHas, FileKept
      <4> QED
        BY <1>3, <3>2, <4>1
    <3> QED
      BY <3>1, <3>2
  <2> QED
    BY <2>1 DEF FilesOk
<1>6. FilesGrow(t)
  <2>1. ASSUME NEW h \in DOMAIN files
        PROVE h \in DOMAIN files' /\ files'[h] = files[h] /\ files[h].size \in Nat
    BY <1>3, FileHas
  <2> QED
    BY <2>1 DEF FilesGrow
<1>7. Steps(t, Idle)
  BY <1>1, Moves DEF Inv
<1>8. Counted'
  <2> DEFINE O == Opening
             P == {u \in Threads : op'[u].pc \in ToRegister}
  <2>1. t \in O /\ P = O \ {t}
    BY <1>1, <1>7 DEF Opening, Steps, ToRegister, Idle
  <2>2. IsFiniteSet(O) /\ Cardinality(O) \in Nat
    BY OpeningIsFinite
  <2> HIDE DEF O, P
  <2>3. Cardinality(P) = Cardinality(O) - 1
    BY <2>1, <2>2, FS_RemoveElement
  <2>4. nextHandle \in Nat /\ calls \in 0..MaxCalls /\ nextHandle - 1 + Cardinality(O) <= calls
    BY DEF Inv, IInv, Shapes, Data, Counted, O
  <2>5. nextHandle' - 1 + Cardinality(P) <= calls' /\ calls' \in 0..MaxCalls
    BY <1>1, <2>2, <2>3, <2>4
  <2> QED
    BY <2>5 DEF Counted, Opening, P
<1> QED
  BY <1>4, <1>5, <1>6, <1>7, <1>8, IdleIs, Composes

\* fileClose takes a handle that no transfer of another call has.
LEMMA CloseKeepsData ==
  ASSUME Inv, IInv', NEW t \in Threads, NEW h, Close(t, h)
  PROVE  Inv'
<1>0. PICK g, o : g = files[h].fd /\ o = IF g = NoFd THEN Idle ELSE [pc |-> "closing", fd |-> g]
  OBVIOUS
<1>1. /\ Starts(t) /\ h \in DOMAIN files /\ ~InUse(h) /\ Becomes(t, o) /\ files' = Without(h)
      /\ UNCHANGED <<fds, local, assetsIsIso, nextHandle, disk>>
  BY <1>0 DEF Close, Erase
<1>2. o \in Ops /\ Rest(o)'
  <2>1. g \in Fds \union {NoFd}
    BY <1>0, <1>1, FileHas DEF GuestFile
  <2>2. CASE g = NoFd
    BY <1>0, <2>2, IdleIs
  <2>3. CASE g # NoFd
    BY <1>0, <2>1, <2>3 DEF Ops, Rest
  <2> QED
    BY <2>2, <2>3
<1>3. DOMAIN files' = DOMAIN files \ {h} /\ \A k \in DOMAIN files' : files'[k] = files[k]
  BY <1>1 DEF Without
<1>4. FdsSafe(t) /\ Grows /\ Hosts' /\ LocalOk' /\ DiskOk'
  BY <1>1 DEF FdsSafe, Grows, Inv, Data, Hosts, LocalOk, DiskOk
<1>5. FilesOk'
  <2>1. ASSUME NEW k \in DOMAIN files' PROVE FileOk(files[k])'
    <3>1. \A x : x = files[k] => FileOk(x)'
      BY <1>1, <1>3, FileHas, FileKept
    <3> QED
      BY <1>3, <3>1
  <2> QED
    BY <2>1 DEF FilesOk
<1>6. FilesGrow(t)
  <2>1. ASSUME NEW k \in DOMAIN files \ {h}
        PROVE k \in DOMAIN files' /\ files'[k] = files[k] /\ files[k].size \in Nat
    BY <1>3, FileHas
  <2>2. h \notin DOMAIN files' /\ \A u \in Threads : op[u].pc \in {"reading", "writing"} => op[u].h # h
    BY <1>1, <1>3 DEF InUse
  <2> QED
    BY <2>1, <2>2 DEF FilesGrow
<1>7. Steps(t, o) /\ Counted'
  BY <1>1, Moves, NewCall, CountsKeep DEF Inv
<1> QED
  BY <1>2, <1>4, <1>5, <1>6, <1>7, Composes

\* No handle and no call: what is left is what is stored.
LEMMA NothingLeft ==
  ASSUME Inv, IInv', files' = <<>>, op' = [t \in Threads |-> Idle],
         fds' \in [Fds -> HostFiles \union {Closed}], assetsIsIso' \in BOOLEAN,
         \A g \in Fds : fds'[g] \in {fds[g], Closed},
         nextHandle' \in {1, nextHandle}, UNCHANGED <<local, disk, calls>>
  PROVE  Inv'
<1>1. Hosts' /\ DiskOk'
  BY DEF Hosts, Inv, Data, DiskOk
<1>2. LocalOk'
  <2>1. \A g \in Fds, n \in Stored : fds'[g] = OnLocal(n) => fds[g] = OnLocal(n)
    BY NothingIsClosed
  <2> QED
    BY <2>1 DEF Inv, Data, LocalOk
<1>3. FilesOk'
  BY DEF FilesOk
<1>4. OpsOk'
  BY IdleIs DEF OpsOk, Idle, Rest
<1>5. Counted'
  <2>1. {t \in Threads : op'[t].pc \in ToRegister} = {}
    BY DEF Idle, ToRegister
  <2>2. Cardinality({}) = 0
    BY FS_EmptySet
  <2>3. Opening' = {}
    BY <2>1 DEF Opening
  <2>4. /\ Cardinality(Opening) \in Nat /\ nextHandle \in Nat \ {0} /\ calls \in 0..MaxCalls
        /\ nextHandle - 1 + Cardinality(Opening) <= calls
    BY OpeningIsFinite DEF Inv, IInv, Shapes, Data, Counted
  <2>5. nextHandle' - 1 + 0 <= calls
    <3>1. calls \in Nat /\ nextHandle - 1 + 0 <= calls
      BY <2>4, BoundsAssumption
    <3>2. CASE nextHandle' = 1
      BY <3>1, <3>2
    <3>3. CASE nextHandle' = nextHandle
      BY <3>1, <3>3
    <3> QED
      BY <3>2, <3>3
  <2> QED
    BY <2>2, <2>3, <2>4, <2>5 DEF Counted
<1> QED
  BY <1>1, <1>2, <1>3, <1>4, <1>5 DEF Inv, Data

LEMMA FilesCloseAllKeepsData ==
  ASSUME Inv, IInv', FilesCloseAll
  PROVE  Inv'
<1>1. fds' \in [Fds -> HostFiles \union {Closed}] /\ \A g \in Fds : fds'[g] \in {fds[g], Closed}
  BY DEF FilesCloseAll, Inv, Data, Hosts
<1> QED
  BY <1>1, NothingLeft DEF FilesCloseAll, Inv, Data, Hosts, bounds

LEMMA RestartKeepsData ==
  ASSUME Inv, IInv', Restart
  PROVE  Inv'
<1>1. fds' \in [Fds -> HostFiles \union {Closed}] /\ \A g \in Fds : fds'[g] \in {fds[g], Closed}
  BY DEF Restart
<1> QED
  BY <1>1, NothingLeft DEF Restart

-----------------------------------------------------------------------------
LEMMA InitData == Init => Inv
<1> SUFFICES ASSUME Init PROVE Inv
  OBVIOUS
<1>1. IInv
  BY NothingOwned DEF Init, NothingOpen
<1>2. Hosts /\ FilesOk
  BY DEF Init, Hosts, FilesOk
<1>3. LocalOk
  BY NothingIsClosed DEF Init, LocalOk, Stored
<1>4. DiskOk
  BY Sizes DEF Init, DiskOk
<1>5. OpsOk
  BY DEF Init, OpsOk, Idle, Ops, Rest
<1>6. Counted
  <2>1. Opening = {}
    BY DEF Init, Opening, ToRegister, Idle
  <2> QED
    BY <2>1, FS_EmptySet, BoundsAssumption DEF Init, Counted
<1> QED
  BY <1>1, <1>2, <1>3, <1>4, <1>5, <1>6 DEF Inv, Data

LEMMA DataKept == Inv /\ [Next]_vars => Inv'
<1> SUFFICES ASSUME Inv, [Next]_vars PROVE Inv'
  OBVIOUS
<1>0. IInv'
  BY StepKeeps DEF Inv
<1>1. CASE UNCHANGED vars
  BY <1>1, <1>0 DEF vars, hostVars, guestVars, bounds, Inv, Data, Hosts, LocalOk, DiskOk, Counted,
     Opening, FilesOk, FileOk, OpsOk, Rest, TransferOk
<1>2. ASSUME NEW t \in Threads, OpenStep(t) PROVE Inv'
  BY <1>0, <1>2, OpenKeepsData, OpenWriteKeepsData, OpenBlockDeviceKeepsData, OpenRawDeviceKeepsData,
     OpenDirKeepsData DEF OpenStep
<1>3. ASSUME NEW t \in Threads, FindStep(t) PROVE Inv'
  BY <1>0, <1>3, EnsureIsoKeepsData, FindInIsoKeepsData, FindInTreeKeepsData, StatKeepsData,
     FindLocallyKeepsData, CopyBeginsKeepsData, CopyKeepsData, CopyFailsKeepsData, RegisterKeepsData,
     LoadFromIsoKeepsData, ReadFdFullyKeepsData DEF FindStep
<1>4. ASSUME NEW t \in Threads, Pread(t) \/ PreadFails(t) PROVE Inv'
  BY <1>0, <1>4, DeliversKeepsData DEF Pread, PreadFails
<1>5. ASSUME NEW t \in Threads, FileStep(t) PROVE Inv'
  BY <1>0, <1>4, <1>5, ReadFileKeepsData, CloseKeepsData, PwriteKeepsData, EndsKeepData DEF FileStep
<1> QED
  BY <1>0, <1>1, <1>2, <1>3, <1>5, FilesCloseAllKeepsData, RestartKeepsData DEF Next

\* Every handle, descriptor, stored file and call in progress keeps its type, and no more handles
\* are given than calls were made, for any disc, image, threads and failures.
THEOREM TypeCorrect == Spec => []TypeOK
<1> QED
  BY InitData, DataKept, TypedMeans, PTL DEF Spec

\* A read through any handle gives the cells of the file the title named: from the folder, from
\* inside the image, or from a copy, whoever else opens, copies, writes and closes meanwhile.
THEOREM ReadsAlwaysOwnBytes == Spec => []ReadsOwnBytes
<1>1. Inv => ReadsOwnBytes
  BY ReadsMean
<1> QED
  BY <1>1, InitData, DataKept, PTL DEF Spec

\* The hard disk reads back what was last written to it, across handles and processes.
THEOREM DeviceAlwaysReadsBack == Spec => []DeviceReadsBack
<1>1. Inv => DeviceReadsBack
  BY ReadsMean
<1> QED
  BY <1>1, InitData, DataKept, PTL DEF Spec

=============================================================================
