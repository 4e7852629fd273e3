---------------------------- MODULE KernelModules ----------------------------
(***************************************************************************)
(* XexLoadImage: the table of modules (kernel_state.cpp), where the loader *)
(* puts a module of the title in guest memory (xex_loader.cpp), beside the *)
(* pool of the guest, and what a relaunch takes away.  An address is a     *)
(* 64 KB unit, the alignment of every image.                               *)
(***************************************************************************)
EXTENDS GuestHeap

CONSTANTS
  Threads,
  Modules,                 \* the title's secondary modules
  Preferred, Span,         \* the base each was linked for, and its size
  RegionBase, RegionSize,  \* kModuleRegionBase, kModuleRegionSize
  Sizes, Aligns,           \* what the guest asks the pool for
  MaxBoots                 \* bound: relaunches

NoModule == [known |-> FALSE, exports |-> 0, secondary |-> FALSE, image |-> 0, span |-> 0]
Zero == "zero"
ASSUME ModulesAssumption ==
  /\ Zero \notin Modules /\ Sizes \subseteq Nat \ {0} /\ Aligns \subseteq Nat \ {0}
  /\ RegionBase \in Nat /\ RegionSize \in Nat /\ HeapEnd <= RegionBase /\ MaxBoots \in Nat \ {0}
  /\ \A m \in Modules : Preferred[m] \in Nat /\ Span[m] \in Nat \ {0}

VARIABLES
  modules,      \* g_modules by name, which stands for the handle: base of the exports, mark, image
  ranges,       \* g_moduleRanges
  regionNext,   \* g_moduleRegionNext
  ram,          \* whose image, if any, each unit of memory holds
  load,         \* what each thread's XexLoadImage is doing
  boots,
  reserved      \* history: GuestHeap::reserveAt has succeeded since the title's boot
moduleVars == <<modules, ranges, regionNext, ram>>
vars == <<heapVars, moduleVars, load, boots, reserved>>

RegionEnd == RegionBase + RegionSize
Ram == HeapBase..RegionEnd - 1
Units(at, size) == at..at + size - 1
Idle == [pc |-> "idle"]

Init ==
  /\ HeapInit
  /\ modules = [m \in Modules |-> NoModule] /\ ranges = {} /\ regionNext = RegionBase
  /\ ram = [u \in Ram |-> Zero]
  /\ load = [t \in Threads |-> Idle] /\ boots = 1 /\ reserved = FALSE

At(t, pc) == load[t].pc = pc
Goes(t, o) == load' = [load EXCEPT ![t] = o]

----------------------------------------------------------------------------
(* The guest's pool *)

AllocatePool == (\E s \in Sizes, n \in Aligns : Alloc(s, n)) /\ UNCHANGED <<moduleVars, load, boots, reserved>>
FreePool == (\E a \in Addrs : Free(a)) /\ UNCHANGED <<moduleVars, load, boots, reserved>>

----------------------------------------------------------------------------
(* Loading a module *)

\* Found by name: nothing to do.  One thread of the title loads a module.
XexLoadImage(t, m) ==
  /\ At(t, "idle") /\ modules[m] = NoModule
  /\ \A u \in Threads : load[u] # Idle => load[u].module # m
  /\ Goes(t, [pc |-> "reading", module |-> m])
  /\ UNCHANGED <<heapVars, moduleVars, boots, reserved>>

\* The file cannot be read or decoded.
ReadFails(t) ==
  /\ At(t, "reading") /\ Goes(t, Idle)
  /\ UNCHANGED <<heapVars, moduleVars, boots, reserved>>

RangeFree(at, size) == \A r \in ranges : ~Overlap(at, size, r.at, r.size)

\* The linked base, when no module and no block of the pool is there ...
PlaceAtPreferred(t) ==
  /\ At(t, "reading")
  /\ LET m == load[t].module IN
     /\ RangeFree(Preferred[m], Span[m])
     /\ ReserveAt(Preferred[m], Span[m])
     /\ Goes(t, [pc |-> "placed", module |-> m, at |-> Preferred[m]])
  /\ reserved' = TRUE
  /\ UNCHANGED <<moduleVars, boots>>

\* ... else the first free range from where the last module ended.
Candidates(m) == {c \in regionNext..RegionEnd - Span[m] : RangeFree(c, Span[m])}
PlaceInRegion(t) ==
  /\ At(t, "reading")
  /\ LET m == load[t].module IN
     /\ ~(RangeFree(Preferred[m], Span[m]) /\ CanReserve(Preferred[m], Span[m]))
     /\ IF Candidates(m) = {} THEN Goes(t, Idle)
        ELSE \E c \in Candidates(m) :
               /\ \A d \in Candidates(m) : c <= d
               /\ Goes(t, [pc |-> "placed", module |-> m, at |-> c])
  /\ UNCHANGED <<heapVars, moduleVars, boots, reserved>>

\* The range may have been taken meanwhile; the load then fails.
TakenIgnored(at, size) == FALSE
Taken(at, size) == ~RangeFree(at, size)
ReserveModuleRange(t) ==
  /\ At(t, "placed")
  /\ LET size == Span[load[t].module] IN
     IF Taken(load[t].at, size)
     THEN Goes(t, Idle) /\ UNCHANGED ranges
     ELSE /\ Goes(t, [load[t] EXCEPT !.pc = "reserved"])
          /\ ranges' = ranges \union {[at |-> load[t].at, size |-> size]}
  /\ UNCHANGED <<heapVars, modules, regionNext, ram, boots, reserved>>

Image(t) == Units(load[t].at, Span[load[t].module])
CopyImage(t) ==
  /\ At(t, "reserved")
  /\ ram' = [u \in Ram |-> IF u \in Image(t) THEN load[t].module ELSE ram[u]]
  /\ regionNext' = load[t].at + Span[load[t].module]
  /\ Goes(t, [load[t] EXCEPT !.pc = "copied"])
  /\ UNCHANGED <<heapVars, modules, ranges, boots, reserved>>

\* registerModule, under g_stateM.
RegisterModule(t) ==
  /\ At(t, "copied")
  /\ LET m == load[t].module IN
       modules' = [modules EXCEPT ![m] =
         [known |-> TRUE, exports |-> load[t].at, secondary |-> FALSE, image |-> 0, span |-> 0]]
  /\ Goes(t, [load[t] EXCEPT !.pc = "registered"])
  /\ UNCHANGED <<heapVars, ranges, regionNext, ram, boots, reserved>>

MarkedWithContent(t, m) == [m EXCEPT !.secondary = TRUE, !.image = load[t].at, !.span = Span[load[t].module] - 1]
Marked(t, m) == [m EXCEPT !.secondary = TRUE, !.image = load[t].at, !.span = Span[load[t].module]]
MarkModuleSecondary(t) ==
  /\ At(t, "registered")
  /\ modules' = [modules EXCEPT ![load[t].module] = Marked(t, @)]
  /\ Goes(t, Idle)
  /\ UNCHANGED <<heapVars, ranges, regionNext, ram, boots, reserved>>

----------------------------------------------------------------------------
(* resetTitleState, with no thread of the title left *)

Secondary(m) == modules[m] # NoModule /\ modules[m].secondary
Relaunch ==
  /\ \A t \in Threads : At(t, "idle")
  /\ boots < MaxBoots /\ boots' = boots + 1
  /\ HeapReset
  /\ ram' = [u \in Ram |-> IF \E m \in Modules : Secondary(m) /\ u \in Units(modules[m].image, modules[m].span)
                           THEN Zero ELSE ram[u]]
  /\ modules' = [m \in Modules |-> IF Secondary(m) THEN NoModule ELSE modules[m]]
  /\ ranges' = {} /\ reserved' = FALSE
  /\ UNCHANGED <<regionNext, load>>

LoadStep(t) ==
  \/ \E m \in Modules : XexLoadImage(t, m)
  \/ ReadFails(t) \/ PlaceAtPreferred(t) \/ PlaceInRegion(t) \/ ReserveModuleRange(t)
  \/ CopyImage(t) \/ RegisterModule(t) \/ MarkModuleSecondary(t)
Next == AllocatePool \/ FreePool \/ (\E t \in Threads : LoadStep(t)) \/ Relaunch
Spec == Init /\ [][Next]_vars

----------------------------------------------------------------------------
(* Properties *)

ModuleRecord == [known : {TRUE}, exports : Ram, secondary : BOOLEAN, image : Nat, span : Nat]
LoadRecord == {Idle} \union [pc : {"reading"}, module : Modules]
                \union [pc : {"placed", "reserved", "copied", "registered"}, module : Modules, at : Ram]

\* The variables keep their types, and no range of the pool reaches beyond it.
TypeOK ==
  /\ nextFree \in HeapBase..HeapEnd
  /\ freeRanges \in [Addrs -> 0..HeapSize] /\ blocks \in [Addrs -> 0..HeapSize]
  /\ \A a \in Addrs : a + freeRanges[a] <= HeapEnd /\ a + blocks[a] <= HeapEnd
  /\ modules \in [Modules -> ModuleRecord \union {NoModule}]
  /\ ranges \subseteq [at : Ram, size : Nat \ {0}]
  /\ regionNext \in HeapBase..RegionEnd
  /\ ram \in [Ram -> Modules \union {Zero}]
  /\ load \in [Threads -> LoadRecord] /\ boots \in 1..MaxBoots /\ reserved \in BOOLEAN

Blocks == {[at |-> a, size |-> blocks[a]] : a \in {b \in Addrs : blocks[b] > 0}}
FreeOnes == {[at |-> a, size |-> freeRanges[a]] : a \in {b \in Addrs : freeRanges[b] > 0}}
Disjoint(ones) == \A r, s \in ones : r = s \/ ~Overlap(r.at, r.size, s.at, s.size)

\* While no module was reserved in the pool (GuestHeap::reserveAt), no byte is in two blocks,
\* in a block and in a free range, or above the cursor in any: alloc gives what nobody has.
PoolIsExclusive ==
  ~reserved =>
    /\ Disjoint(Blocks) /\ Disjoint(FreeOnes)
    /\ \A b \in Blocks, f \in FreeOnes : ~Overlap(b.at, b.size, f.at, f.size)
    /\ \A r \in Blocks \union FreeOnes : r.at + r.size <= nextFree

\* Freed neighbours are one range (the "coalescência" of GuestHeap::free): no two free ranges
\* touch, so a request that fits in the free bytes of a hole is never refused for fragments.
FreeRangesAreMaximal ==
  ~reserved =>
    \A r, s \in FreeOnes : r.at + r.size # s.at

\* What XexLoadImage or XexGetModuleHandle finds by name is a whole module: its image is in
\* memory where its exports point, and no other load has written over it.
FoundIsWhole ==
  \A m \in Modules : modules[m] # NoModule =>
    \A u \in Units(modules[m].exports, Span[m]) : ram[u] = m

\* Nothing of a module outlives the title that loaded it: what no module of the table or
\* load in progress covers is zero, as the loader assumes when it copies less than the span.
OldImagesAreZeroed ==
  \A u \in Ram : ram[u] # Zero =>
    \/ modules[ram[u]] # NoModule
    \/ \E t \in Threads : At(t, "copied") /\ load[t].module = ram[u]

=============================================================================
