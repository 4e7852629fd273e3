------------------------------ MODULE GuestHeap ------------------------------
(***************************************************************************)
(* The pool of ExAllocatePool (guest_alloc.cpp): blocks in use, ranges     *)
(* that were freed, and a cursor above which nothing was ever given.  Both *)
(* maps are functions of the address, 0 where the map has no entry.        *)
(***************************************************************************)
EXTENDS Integers

CONSTANTS HeapBase, HeapSize
ASSUME HeapAssumption == HeapBase \in Nat /\ HeapSize \in Nat \ {0}

VARIABLES nextFree, freeRanges, blocks
heapVars == <<nextFree, freeRanges, blocks>>

HeapEnd == HeapBase + HeapSize
Addrs == HeapBase..HeapEnd - 1
NoEntries == [a \in Addrs |-> 0]

HeapInit == nextFree = HeapBase /\ freeRanges = NoEntries /\ blocks = NoEntries
HeapReset == nextFree' = HeapBase /\ freeRanges' = NoEntries /\ blocks' = NoEntries

AlignUp(a, n) == ((a + n - 1) \div n) * n

\* A range holds an allocation after the padding that aligns it, and is the first that does.
Holds(r, size, align) ==
  freeRanges[r] > 0 /\ AlignUp(r, align) - r + size <= freeRanges[r]
FirstFit(r, size, align) ==
  Holds(r, size, align) /\ \A q \in Addrs : Holds(q, size, align) => r <= q

\* What the range leaves above the allocation stays free; the padding below it is lost.
RestOverlaps(r, size, align) == [at |-> AlignUp(r, align) + size - 1,
                                 size |-> freeRanges[r] - (AlignUp(r, align) - r) - size + 1]
Rest(r, size, align) == [at |-> AlignUp(r, align) + size,
                         size |-> freeRanges[r] - (AlignUp(r, align) - r) - size]

AllocFromRange(size, align) ==
  \E r \in Addrs :
    /\ FirstFit(r, size, align)
    /\ LET rest == Rest(r, size, align) IN
         freeRanges' = [a \in Addrs |-> IF a = r THEN 0
                                        ELSE IF a = rest.at /\ rest.size > 0 THEN rest.size
                                        ELSE freeRanges[a]]
    /\ blocks' = [blocks EXCEPT ![AlignUp(r, align)] = size]
    /\ UNCHANGED nextFree

AllocAtCursor(size, align) ==
  /\ \A r \in Addrs : ~Holds(r, size, align)
  /\ AlignUp(nextFree, align) + size <= HeapEnd
  /\ nextFree' = AlignUp(nextFree, align) + size
  /\ blocks' = [blocks EXCEPT ![AlignUp(nextFree, align)] = size]
  /\ UNCHANGED freeRanges

Alloc(size, align) == AllocFromRange(size, align) \/ AllocAtCursor(size, align)

\* The range that ends where a freed block starts, and the one that starts where it ends.
Before(addr) == {p \in Addrs : p < addr /\ freeRanges[p] > 0 /\ p + freeRanges[p] = addr}
AfterIgnored(addr) == {}
After(addr) == {n \in Addrs : n = addr + blocks[addr] /\ freeRanges[n] > 0}

Free(addr) ==
  /\ addr \in Addrs /\ blocks[addr] > 0
  /\ \E start \in (IF Before(addr) = {} THEN {addr} ELSE Before(addr)) :
     \E len \in {(addr - start) + blocks[addr]
                   + (IF After(addr) = {} THEN 0 ELSE freeRanges[addr + blocks[addr]])} :
       freeRanges' = [a \in Addrs |-> IF a = start THEN len
                                      ELSE IF a \in After(addr) THEN 0
                                      ELSE freeRanges[a]]
  /\ blocks' = [blocks EXCEPT ![addr] = 0]
  /\ UNCHANGED nextFree

Overlap(a, m, b, n) == a < b + n /\ b < a + m

\* A fixed range: refused over a block; the cursor moves back to it and the gap above is free.
CanReserve(addr, size) ==
  /\ HeapBase <= addr /\ addr + size <= HeapEnd
  /\ \A b \in Addrs : blocks[b] > 0 => ~Overlap(addr, size, b, blocks[b])
ReserveAt(addr, size) ==
  /\ CanReserve(addr, size)
  /\ IF addr < nextFree
     THEN /\ freeRanges' = IF addr + size < nextFree
                           THEN [freeRanges EXCEPT ![addr + size] = nextFree - (addr + size)]
                           ELSE freeRanges
          /\ nextFree' = addr
     ELSE UNCHANGED <<freeRanges, nextFree>>
  /\ blocks' = [blocks EXCEPT ![addr] = size]
=============================================================================
