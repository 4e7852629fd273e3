------------------------------ MODULE GuestFiles ------------------------------
(***************************************************************************)
(* The guest's open files (kernel_state.cpp, kernel_real.cpp Nt*File), the *)
(* provider that finds them (fs_provider.cpp, NativeBridge.java) in the    *)
(* chosen folder, in the ISO image (xiso.cpp) or in the app's own storage, *)
(* and the host's descriptors.  A file is a sequence of cells, the image a *)
(* sequence of the cells of the files it holds.                            *)
(***************************************************************************)
EXTENDS Integers, Sequences, FiniteSets, FiniteSetsExt, SequencesExt

CONSTANTS
  Threads,        \* the guest's threads
  Names, Game,    \* names the title uses, and those that are on its disc
  Virtual,        \* those the folder's provider serves by a pipe, not a regular file
  Content,        \* what the disc holds under each name of Game
  Image, Directory, Root,  \* the ISO: its cells, its directory tables and the first of them
  Device, Volume, \* the backing file of the console's hard disk; a disc's or directory's name
  MaxLen,         \* bound: cells of a file and of the disk
  MaxFd, MaxCalls, MaxFaults, MaxRestarts   \* bounds

ASSUME NamesAssumption == Game \subseteq Names /\ Virtual \subseteq Game /\ Device \notin Names
ASSUME ThreadsAreFinite == IsFiniteSet(Threads)
ASSUME BoundsAssumption ==
  /\ MaxLen \in Nat /\ MaxFd \in Nat /\ MaxCalls \in Nat
  /\ MaxFaults \in Nat /\ MaxRestarts \in Nat

VARIABLES
  fds,            \* the host's descriptors: Closed, or the file each is open on
  local,          \* filesDir: Absent, or the cells of each file
  assetsIsIso, iso,   \* FsProvider: the mode, and iso_ / isoTried_
  files, nextHandle,  \* g_files, g_nextFileHandle
  op,             \* what each thread is doing
  disk,           \* history: what the title last wrote to each cell of the hard disk
  calls, faults, restarts   \* how many of each there were
hostVars == <<fds, local, assetsIsIso, iso>>
guestVars == <<files, nextHandle>>
bounds == <<calls, faults, restarts>>
vars == <<hostVars, guestVars, op, disk, bounds>>

Zero == <<"zero", 0>>
Absent == <<<<"absent", 0>>>>
Closed == <<"closed">>
Fds == 1..MaxFd
NoFd == 0
Untried == -1
Failed == -2
Cells == (UNION {ToSet(Content[n]) : n \in Game}) \union ToSet(Image)
           \union {<<n, 1>> : n \in (Names \ Game) \union {Device}} \union {Zero}
MaxCells == Max({MaxLen, Len(Image)})
ASSUME ContentAssumption ==
  /\ \A n \in Game : Content[n] \in Seq(Cells) /\ Len(Content[n]) <= MaxLen
  /\ Image \in Seq(Cells) /\ Absent[1] \notin Cells

\* What a descriptor is open on.
OnTree(n) == <<"tree", n>>
OnLocal(n) == <<"local", n>>
OnImage == <<"image", "image">>
HostFiles == {OnTree(n) : n \in Game} \union {OnLocal(n) : n \in Names \union {Device}} \union {OnImage}

GuestFile == [name : Names \union {Device, Volume}, kind : {"file", "dir", "device", "disc"},
              fd : Fds \union {NoFd}, size : 0..MaxCells, base : 0..Len(Image),
              write : BOOLEAN, pos : 0..MaxCells]
FileAt(n, k, fd, size, base, w) ==
  [name |-> n, kind |-> k, fd |-> fd, size |-> size, base |-> base, write |-> w, pos |-> 0]

Idle == [pc |-> "idle"]
Ops == {Idle}
  \union [pc : {"finding", "local", "copy", "reopening", "missing", "loading"}, name : Names]
  \union [pc : {"stat", "loadingFd"}, name : Game, fd : Fds]
  \union [pc : {"copying"}, name : Game, at : 0..MaxLen]
  \union [pc : {"opened"}, file : GuestFile]
  \union [pc : {"closing"}, fd : Fds]
  \union [pc : {"reading", "writing"}, h : 1..MaxCalls, off : 0..MaxLen, want : 0..MaxCells]
  \union [pc : {"read"}, name : Names \union {Device, Volume}, kind : {"file", "disc", "device"},
          off : 0..MaxLen, data : Seq(Cells), ref : Seq(Cells), io : BOOLEAN]

Init ==
  /\ fds = [f \in Fds |-> Closed]
  /\ local = [n \in Names \union {Device} |-> Absent]
  /\ assetsIsIso \in BOOLEAN /\ iso = Untried
  /\ files = <<>> /\ nextHandle = 1
  /\ op = [t \in Threads |-> Idle]
  /\ disk = [i \in 1..MaxLen |-> Zero]
  /\ calls = 0 /\ faults = 0 /\ restarts = 0

----------------------------------------------------------------------------
(* Descriptors and the cells behind them *)

Becomes(t, o) == op' = [op EXCEPT ![t] = o]

\* open gives the lowest number that is free.
FreeFds == {f \in Fds : fds[f] = Closed}
NewFd == Min(FreeFds)
OpenOn(what) == FreeFds # {} /\ fds' = [fds EXCEPT ![NewFd] = what]
CloseFd(f) == fds' = [fds EXCEPT ![f] = Closed]

\* The cells of what a descriptor is open on, and a slice of them from offset off.
CellsOf(what) ==
  CASE what[1] = "tree"  -> Content[what[2]]
    [] what[1] = "local" -> local[what[2]]
    [] what[1] = "image" -> Image
    [] OTHER             -> <<>>
Slice(cells, off, n) == SubSeq(cells, off + 1, Min({off + n, Len(cells)}))
Zeros(n) == [i \in 1..n |-> Zero]

\* A write of one cell: a hole before it reads as zero.
Put(cells, off, c) ==
  [i \in 1..Max({Len(cells), off + 1}) |->
     IF i = off + 1 THEN c ELSE IF i <= Len(cells) THEN cells[i] ELSE Zero]

----------------------------------------------------------------------------
(* The image's directory: binary trees of entries, a table for each directory *)

Total == Len(Image)
\* An entry that is kept: a printable name, and a file that lies inside the image.
Kept(e) == e.valid /\ (e.dir \/ e.sector + e.length <= Total)
EntryAt(x) == Directory[x[1]][x[2]]
Words == UNION {{<<d, w>> : w \in DOMAIN Directory[d]} : d \in DOMAIN Directory}

\* What a visit of an entry leads to: nothing below an entry that is not kept.
Below(x) ==
  LET e == EntryAt(x) IN
  IF ~Kept(e) THEN {}
  ELSE ({<<x[1], w>> : w \in {e.left, e.right} \ {0}}
          \union (IF e.dir /\ e.length > 0 THEN {<<e.sector, 0>>} ELSE {})) \intersect Words
\* The walk visits the least set that has the root's first entry and what each entry leads to.
Visited ==
  LET Closures == {S \in SUBSET Words : {<<Root, 0>>} \intersect Words \subseteq S
                                         /\ \A x \in S : Below(x) \subseteq S}
  IN  {x \in Words : \A S \in Closures : x \in S}
ParseTree == {EntryAt(x) : x \in Visited}
Lookup(n) == {e \in ParseTree : Kept(e) /\ ~e.dir /\ e.key = n}
\* The image holds the title's files, each as the disc holds it, and none of its other names.
ASSUME DiscAssumption ==
  /\ \A x \in Words : EntryAt(x).sector \in Nat /\ EntryAt(x).length \in Nat
  /\ \A n \in Names : \A e \in Lookup(n) :
       n \in Game /\ Slice(Image, e.sector, e.length) = Content[n]

----------------------------------------------------------------------------
(* Opening: first a descriptor, then the handle *)

Free(t) == op[t].pc \in {"idle", "missing", "read"}
Starts(t) == Free(t) /\ calls < MaxCalls /\ calls' = calls + 1 /\ UNCHANGED <<faults, restarts>>

\* NtCreateFile and NtOpenFile of a name, for reading.
Open(t, n) ==
  /\ Starts(t)
  /\ Becomes(t, [pc |-> "finding", name |-> n])
  /\ UNCHANGED <<hostVars, guestVars, disk>>

\* openLocalWriteFd: created, or truncated; a name of the disc is not written.
OpenWrite(t, n) ==
  /\ Starts(t) /\ n \notin Game
  /\ OpenOn(OnLocal(n)) /\ local' = [local EXCEPT ![n] = <<>>]
  /\ Becomes(t, [pc |-> "opened", file |-> FileAt(n, "file", NewFd, 0, 0, TRUE)])
  /\ UNCHANGED <<assetsIsIso, iso, guestVars, disk>>

\* openLocalReadWriteFd: created when absent, kept when not.
ReadWriteTruncates == local' = [local EXCEPT ![Device] = <<>>]
ReadWrite == local' = [local EXCEPT ![Device] = IF @ = Absent THEN <<>> ELSE @]
OpenBlockDevice(t) ==
  /\ Starts(t)
  /\ OpenOn(OnLocal(Device)) /\ ReadWrite
  /\ Becomes(t, [pc |-> "opened", file |-> FileAt(Device, "device", NewFd, MaxLen, 0, TRUE)])
  /\ UNCHANGED <<assetsIsIso, iso, guestVars, disk>>

\* The disc itself: the image, or a virtual medium without a descriptor.
OpenRawDevice(t) ==
  /\ Starts(t) /\ (assetsIsIso => iso # Untried)
  /\ IF assetsIsIso /\ iso # Failed
     THEN /\ OpenOn(OnImage)
          /\ Becomes(t, [pc |-> "opened", file |-> FileAt(Volume, "disc", NewFd, Total, 0, FALSE)])
     ELSE /\ Becomes(t, [pc |-> "opened", file |-> FileAt(Volume, "disc", NoFd, MaxLen, 0, FALSE)])
          /\ UNCHANGED fds
  /\ UNCHANGED <<local, assetsIsIso, iso, guestVars, disk>>

\* A volume's root, or anything below a cache partition.
OpenDir(t) ==
  /\ Starts(t)
  /\ Becomes(t, [pc |-> "opened", file |-> FileAt(Volume, "dir", NoFd, 0, 0, FALSE)])
  /\ UNCHANGED <<hostVars, guestVars, disk>>

\* Opened and mounted once, by whoever needs it first; a failure is remembered.
NeedsIso(t) == op[t].pc \in {"finding", "loading"} \/ Free(t)
EnsureIso(t) ==
  /\ assetsIsIso /\ iso = Untried /\ NeedsIso(t)
  /\ OpenOn(OnImage) /\ iso' = NewFd
  /\ UNCHANGED <<local, assetsIsIso, guestVars, op, disk, bounds>>
EnsureIsoFails(t) ==
  /\ assetsIsIso /\ iso = Untried /\ NeedsIso(t)
  /\ faults < MaxFaults /\ faults' = faults + 1
  /\ iso' = Failed
  /\ UNCHANGED <<fds, local, assetsIsIso, guestVars, op, disk, calls, restarts>>

NotFound(t) == Becomes(t, [pc |-> "missing", name |-> op[t].name]) /\ UNCHANGED <<fds, local>>

FindInIso(t) ==
  /\ op[t].pc = "finding" /\ assetsIsIso /\ iso # Untried
  /\ IF iso = Failed \/ Lookup(op[t].name) = {} THEN NotFound(t)
     ELSE \E e \in Lookup(op[t].name) :
            /\ OpenOn(OnImage)
            /\ Becomes(t, [pc |-> "opened",
                 file |-> FileAt(op[t].name, "file", NewFd, e.length, e.sector, FALSE)])
            /\ UNCHANGED local
  /\ UNCHANGED <<assetsIsIso, iso, guestVars, disk, bounds>>

FindInTree(t) ==
  /\ op[t].pc = "finding" /\ ~assetsIsIso
  /\ IF op[t].name \in Game
     THEN /\ OpenOn(OnTree(op[t].name))
          /\ Becomes(t, [pc |-> "stat", name |-> op[t].name, fd |-> NewFd])
     ELSE Becomes(t, [pc |-> "local", name |-> op[t].name]) /\ UNCHANGED fds
  /\ UNCHANGED <<local, assetsIsIso, iso, guestVars, disk, bounds>>

\* fstat: what is not a regular file is closed, and filesDir is tried.
NotRegularKept(t) == Becomes(t, [pc |-> "local", name |-> op[t].name]) /\ UNCHANGED fds
NotRegular(t) == Becomes(t, [pc |-> "local", name |-> op[t].name]) /\ CloseFd(op[t].fd)
Stat(t) ==
  /\ op[t].pc = "stat"
  /\ IF op[t].name \in Virtual THEN NotRegular(t)
     ELSE /\ Becomes(t, [pc |-> "opened", file |-> FileAt(op[t].name, "file", op[t].fd,
                                                          Len(Content[op[t].name]), 0, FALSE)])
          /\ UNCHANGED fds
  /\ UNCHANGED <<local, assetsIsIso, iso, guestVars, disk, bounds>>

FindLocally(t) ==
  /\ op[t].pc \in {"local", "reopening"}
  /\ LET n == op[t].name IN
     \/ /\ local[n] # Absent /\ OpenOn(OnLocal(n))
        /\ Becomes(t, [pc |-> "opened", file |-> FileAt(n, "file", NewFd, Len(local[n]), 0, FALSE)])
        /\ UNCHANGED local
     \/ /\ local[n] = Absent /\ n \in Game
        /\ Becomes(t, [pc |-> "copy", name |-> n]) /\ UNCHANGED <<fds, local>>
     \/ local[n] = Absent /\ n \notin Game /\ NotFound(t)
  /\ UNCHANGED <<assetsIsIso, iso, guestVars, disk, bounds>>

\* copyFromSaf: written in place, from the start.
CopyBegins(t) ==
  /\ op[t].pc = "copy"
  /\ local' = [local EXCEPT ![op[t].name] = <<>>]
  /\ Becomes(t, [pc |-> "copying", name |-> op[t].name, at |-> 0])
  /\ UNCHANGED <<fds, assetsIsIso, iso, guestVars, disk, bounds>>
Copy(t) ==
  /\ op[t].pc = "copying"
  /\ LET n == op[t].name
         i == op[t].at IN
     IF i < Len(Content[n])
     THEN /\ local' = [local EXCEPT ![n] = Put(@, i, Content[n][i + 1])]
          /\ Becomes(t, [op[t] EXCEPT !.at = i + 1])
     ELSE /\ Becomes(t, [pc |-> IF local[n] = <<>> THEN "missing" ELSE "reopening", name |-> n])
          /\ UNCHANGED local
  /\ UNCHANGED <<fds, assetsIsIso, iso, guestVars, disk, bounds>>
CopyFails(t) ==
  /\ op[t].pc = "copying" /\ faults < MaxFaults /\ faults' = faults + 1
  /\ Becomes(t, [pc |-> "missing", name |-> op[t].name])
  /\ UNCHANGED <<hostVars, guestVars, disk, calls, restarts>>

\* The handle, under g_stateM.
With(h, f) == [k \in DOMAIN files \union {h} |-> IF k = h THEN f ELSE files[k]]
Register(t) ==
  /\ op[t].pc = "opened"
  /\ files' = With(nextHandle, op[t].file) /\ nextHandle' = nextHandle + 1
  /\ Becomes(t, Idle)
  /\ UNCHANGED <<hostVars, disk, bounds>>

----------------------------------------------------------------------------
(* The XEX loader's whole files, without a handle *)

Load(t, n) ==
  /\ Starts(t) /\ n \in Game
  /\ Becomes(t, [pc |-> "loading", name |-> n])
  /\ UNCHANGED <<hostVars, guestVars, disk>>

Result(n, k, off, data, ref, failed) ==
  [pc |-> "read", name |-> n, kind |-> k, off |-> off, data |-> data, ref |-> ref, io |-> failed]

LoadFromIso(t) ==
  /\ op[t].pc = "loading" /\ assetsIsIso /\ iso # Untried
  /\ LET n == op[t].name IN
     IF iso = Failed \/ Lookup(n) = {} THEN Becomes(t, [pc |-> "missing", name |-> n])
     ELSE \E e \in Lookup(n) :
            Becomes(t, Result(n, "file", 0, Slice(Image, e.sector, e.length), Content[n], FALSE))
  /\ UNCHANGED <<hostVars, guestVars, disk, bounds>>

LoadFromTree(t) ==
  /\ op[t].pc = "loading" /\ ~assetsIsIso
  /\ OpenOn(OnTree(op[t].name))
  /\ Becomes(t, [pc |-> "loadingFd", name |-> op[t].name, fd |-> NewFd])
  /\ UNCHANGED <<local, assetsIsIso, iso, guestVars, disk, bounds>>

\* readFdFully reads a pipe too.
ReadFdFully(t) ==
  /\ op[t].pc = "loadingFd"
  /\ LET n == op[t].name IN
       Becomes(t, Result(n, "file", 0, CellsOf(fds[op[t].fd]), Content[n], FALSE))
  /\ CloseFd(op[t].fd)
  /\ UNCHANGED <<local, assetsIsIso, iso, guestVars, disk, bounds>>

----------------------------------------------------------------------------
(* Reading and writing: the handle is looked up, then the transfer *)

\* The title keeps a handle open while a call of its own uses it.
InUse(h) == \E t \in Threads : op[t].pc \in {"reading", "writing"} /\ op[t].h = h

WantedUnclamped(f, off, n) == IF off >= f.size THEN 0 ELSE n
Wanted(f, off, n) == IF off >= f.size THEN 0 ELSE Min({n, f.size - off})

\* An offset in the call, or the position of the file.
ReadFile(t, h, off, n) ==
  /\ Starts(t) /\ h \in DOMAIN files /\ off \in 0..MaxLen
  /\ files[h].kind # "dir"
  /\ Becomes(t, [pc |-> "reading", h |-> h, off |-> off, want |-> Wanted(files[h], off, n)])
  /\ UNCHANGED <<hostVars, guestVars, disk>>

\* A device gives every cell asked for: zeros where the backing has none.
Delivered(f, off, want, got) ==
  IF f.kind = "file" THEN got ELSE got \o Zeros(want - Len(got))
Reference(f, off, n) ==
  CASE f.kind = "device"                     -> Slice(disk, off, n)
    [] f.kind = "file" /\ f.name \in Game    -> Slice(Content[f.name], off, n)
    [] OTHER                                 -> <<>>
Available(f, off, want) ==
  IF f.fd = NoFd THEN <<>> ELSE Slice(CellsOf(fds[f.fd]), f.base + off, want)

\* The position moves by what was delivered.
PositionAskedFor(f, off, want, data) == off + 2
Position(f, off, want, data) == off + Len(data)

Delivers(t, got, failed) ==
  LET h == op[t].h
      f == files[h]
      data == Delivered(f, op[t].off, op[t].want, got) IN
  /\ Becomes(t, Result(f.name, f.kind, op[t].off, data, Reference(f, op[t].off, op[t].want), failed))
  /\ files' = [files EXCEPT ![h].pos =
                 IF op[t].want = 0 /\ f.kind # "file" THEN @
                 ELSE Position(f, op[t].off, op[t].want, data)]
  /\ UNCHANGED <<hostVars, nextHandle, disk, calls, restarts>>
Pread(t) ==
  /\ op[t].pc = "reading"
  /\ LET f == files[op[t].h] IN Delivers(t, Available(f, op[t].off, op[t].want), FALSE)
  /\ UNCHANGED faults
PreadFails(t) ==
  /\ op[t].pc = "reading" /\ op[t].want > 0 /\ faults < MaxFaults /\ faults' = faults + 1
  /\ LET f == files[op[t].h] IN f.fd # NoFd /\ Delivers(t, <<>>, TRUE)

WriteFile(t, h, off) ==
  /\ Starts(t) /\ h \in DOMAIN files /\ off \in 0..MaxLen - 1
  /\ files[h].fd # NoFd /\ files[h].write
  /\ Becomes(t, [pc |-> "writing", h |-> h, off |-> off, want |-> 1])
  /\ UNCHANGED <<hostVars, guestVars, disk>>
Pwrite(t) ==
  /\ op[t].pc = "writing"
  /\ LET h == op[t].h
         n == fds[files[h].fd][2]
         off == op[t].off IN
     /\ local' = [local EXCEPT ![n] = Put(@, off, <<n, 1>>)]
     /\ files' = [files EXCEPT ![h].size = Max({@, off + 1}), ![h].pos = off + 1]
     /\ disk' = IF files[h].kind = "device" THEN [disk EXCEPT ![off + 1] = <<Device, 1>>] ELSE disk
  /\ Becomes(t, Idle)
  /\ UNCHANGED <<fds, assetsIsIso, iso, nextHandle, bounds>>
PwriteFails(t) ==
  /\ op[t].pc = "writing" /\ faults < MaxFaults /\ faults' = faults + 1
  /\ Becomes(t, Idle)
  /\ UNCHANGED <<hostVars, guestVars, disk, calls, restarts>>

----------------------------------------------------------------------------
(* Closing, a relaunch and the end of the process *)

Without(h) == [k \in DOMAIN files \ {h} |-> files[k]]

\* fileClose: out of the table under g_stateM, then closed.
Erase(t, h) ==
  /\ Becomes(t, IF files[h].fd = NoFd THEN Idle ELSE [pc |-> "closing", fd |-> files[h].fd])
  /\ files' = Without(h) /\ UNCHANGED fds
Close(t, h) ==
  /\ Starts(t) /\ h \in DOMAIN files /\ ~InUse(h)
  /\ Erase(t, h)
  /\ UNCHANGED <<local, assetsIsIso, iso, nextHandle, disk>>
CloseEnds(t) ==
  /\ op[t].pc = "closing"
  /\ CloseFd(op[t].fd) /\ Becomes(t, Idle)
  /\ UNCHANGED <<local, assetsIsIso, iso, guestVars, disk, bounds>>

\* resetTitleState, with no thread of the title left: filesCloseAll.
FilesCloseAll ==
  /\ \A t \in Threads : Free(t)
  /\ files # <<>>
  /\ LET mine == {files[h].fd : h \in DOMAIN files} IN
       fds' = [f \in Fds |-> IF f \in mine THEN Closed ELSE fds[f]]
  /\ files' = <<>> /\ op' = [t \in Threads |-> Idle]
  /\ UNCHANGED <<local, assetsIsIso, iso, nextHandle, disk, bounds>>

\* The process dies at any moment and is started again, perhaps on the other source.
Restart ==
  /\ restarts < MaxRestarts /\ restarts' = restarts + 1
  /\ fds' = [f \in Fds |-> Closed] /\ iso' = Untried /\ assetsIsIso' \in BOOLEAN
  /\ files' = <<>> /\ nextHandle' = 1 /\ op' = [t \in Threads |-> Idle]
  /\ UNCHANGED <<local, disk, calls, faults>>

OpenStep(t) ==
  \/ \E n \in Names : Open(t, n) \/ OpenWrite(t, n) \/ Load(t, n)
  \/ OpenBlockDevice(t) \/ OpenRawDevice(t) \/ OpenDir(t)
FindStep(t) ==
  \/ EnsureIso(t) \/ EnsureIsoFails(t) \/ FindInIso(t) \/ FindInTree(t) \/ Stat(t)
  \/ FindLocally(t) \/ CopyBegins(t) \/ Copy(t) \/ CopyFails(t) \/ Register(t)
  \/ LoadFromIso(t) \/ LoadFromTree(t) \/ ReadFdFully(t)
FileStep(t) ==
  \/ \E h \in DOMAIN files :
       \/ \E off \in {0, 1, files[h].pos} : ReadFile(t, h, off, 2) \/ WriteFile(t, h, off)
       \/ Close(t, h)
  \/ Pread(t) \/ PreadFails(t) \/ Pwrite(t) \/ PwriteFails(t) \/ CloseEnds(t)
Next ==
  \/ \E t \in Threads : OpenStep(t) \/ FindStep(t) \/ FileStep(t)
  \/ FilesCloseAll \/ Restart
Spec == Init /\ [][Next]_vars

----------------------------------------------------------------------------
(* Properties *)

\* The variables keep their types.
TypeOK ==
  /\ fds \in [Fds -> HostFiles \union {Closed}]
  /\ \A n \in Names \union {Device} :
       local[n] = Absent \/ (Len(local[n]) <= MaxLen /\ local[n] \in Seq(Cells))
  /\ assetsIsIso \in BOOLEAN /\ iso \in Fds \union {Untried, Failed}
  /\ nextHandle \in 1..MaxCalls + 1
  /\ DOMAIN files \subseteq 1..nextHandle - 1
  /\ \A h \in DOMAIN files :
       files[h] \in GuestFile /\ (files[h].kind # "disc" => files[h].pos <= MaxLen)
  /\ \A t \in Threads : op[t] \in Ops

\* Who is going to close a descriptor: a handle, a call in progress, or the image.
Owners(f) ==
  {<<"handle", h>> : h \in {k \in DOMAIN files : files[k].fd = f}}
    \union {<<"op", t>> : t \in {u \in Threads :
         \/ op[u].pc \in {"stat", "loadingFd", "closing"} /\ op[u].fd = f
         \/ op[u].pc = "opened" /\ op[u].file.fd = f}}
    \union {<<"iso", i>> : i \in {iso} \intersect {f}}

\* Every open descriptor has exactly one owner and every closed one has none, whatever call
\* is under way (fileOpen, fileClose, filesCloseAll, openFileFdEx's failing branches): no
\* descriptor leaks and none is closed twice, so no handle ever reads another's file.
FdsAreOwned ==
  \A f \in Fds : Cardinality(Owners(f)) = IF fds[f] = Closed THEN 0 ELSE 1

\* A read of a file of the disc gives that file's cells from the offset asked for, all that
\* were asked for and exist, whether it comes from the folder or from inside the image; from
\* a copy that the provider forced, cells of the file or holes of a copy still being written.
ReadsOwnBytes ==
  \A t \in Threads : op[t].pc = "read" /\ op[t].kind = "file" /\ op[t].name \in Game =>
    IF op[t].name \in Virtual
    THEN \A i \in 1..Len(op[t].data) : op[t].data[i] \in {Content[op[t].name][op[t].off + i], Zero}
    ELSE op[t].io \/ op[t].data = op[t].ref

\* A read of the console's hard disk gives, cell by cell, what the title last wrote there and
\* zeros elsewhere, across handles, relaunches and deaths of the process.
DeviceReadsBack ==
  \A t \in Threads :
    op[t].pc = "read" /\ op[t].kind = "device" /\ ~op[t].io => op[t].data = op[t].ref

=============================================================================
