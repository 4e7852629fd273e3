--------------------------- MODULE GuestVirtWindow ---------------------------
(***************************************************************************)
(* The allocator of the guest's virtual and physical windows               *)
(* (guest_alloc.cpp 126-299), as the kernel exports and the guest threads  *)
(* call it: NtAllocateVirtualMemory, NtFreeVirtualMemory,                  *)
(* NtQueryVirtualMemory, MmAllocatePhysicalMemoryEx, kernel stacks.        *)
(*                                                                         *)
(* An address is a number of pages from base_, which is aligned to every   *)
(* alignment asked for.  A std::map from address to size is a function     *)
(* that is 0 where the map has no entry.  Every operation holds m_ from    *)
(* its first read to its last write, so each is one step; one that fails   *)
(* changes nothing.                                                        *)
(*                                                                         *)
(* nextFree_ ("cursor") divides the window: alloc gives the first free     *)
(* range that fits, and otherwise bumps the cursor; allocAt gives a fixed  *)
(* address and leaves the cursor where it is.  FixedAboveCursor says       *)
(* whether the guest asks for addresses the cursor has not reached.        *)
(***************************************************************************)
EXTENDS Integers

CONSTANTS
  Size,               \* pages of the window
  Sizes,              \* pages a call asks for
  Aligns,             \* alignments, in pages: 4 KB pages and large pages
  FixedAboveCursor

ASSUME WindowAssumption ==
  /\ Size \in Nat \ {0}
  /\ Sizes \subseteq Nat \ {0}
  /\ Aligns \subseteq Nat \ {0}
  /\ FixedAboveCursor \in BOOLEAN

VARIABLES
  blocks,   \* blocks_: in use
  free,     \* freeRanges_
  cursor    \* nextFree_

vars == <<blocks, free, cursor>>

Pages == 0..Size - 1
Keys(map) == {a \in Pages : map[a] > 0}
End(map, a) == a + map[a]
Holds(map, a, p) == a <= p /\ p < End(map, a)

\* Types; the cursor never passes the end of the window (guest_alloc.cpp 177), and no
\* block or free range is longer than it.
TypeOK ==
  /\ blocks \in [Pages -> 0..Size]
  /\ free \in [Pages -> 0..Size]
  /\ cursor \in 0..Size

Empty == [p \in Pages |-> 0]

\* Also what reset() leaves behind.
Init == blocks = Empty /\ free = Empty /\ cursor = 0

-----------------------------------------------------------------------------
(* alloc. *)

AlignUp(a, align) == ((a + align - 1) \div align) * align

Fits(r, n, align) == AlignUp(r, align) + n <= End(free, r)

\* The lowest free range that fits is split: the pages before and after the block
\* stay free.
AllocFromFree(n, align) ==
  \E r \in Keys(free) :
    /\ Fits(r, n, align)
    /\ \A q \in Keys(free) : q < r => ~Fits(q, n, align)
    /\ LET at == AlignUp(r, align) IN
         /\ free' = [p \in Pages |->
                       CASE p = at + n /\ at + n < End(free, r) -> End(free, r) - (at + n)
                         [] p = r -> at - r
                         [] OTHER -> free[p]]
         /\ blocks' = [blocks EXCEPT ![at] = n]
    /\ UNCHANGED cursor

\* Mutant: a bump that loses the pages it skips.
AllocFromCursorLeaks(n, align) ==
  LET at == AlignUp(cursor, align) IN
    /\ \A r \in Keys(free) : ~Fits(r, n, align)
    /\ at + n <= Size
    /\ blocks' = [blocks EXCEPT ![at] = n]
    /\ cursor' = at + n
    /\ UNCHANGED free

\* The pages skipped for the alignment become free.
AllocFromCursor(n, align) ==
  LET at == AlignUp(cursor, align) IN
    /\ \A r \in Keys(free) : ~Fits(r, n, align)
    /\ at + n <= Size
    /\ free' = IF at > cursor THEN [free EXCEPT ![cursor] = at - cursor] ELSE free
    /\ blocks' = [blocks EXCEPT ![at] = n]
    /\ cursor' = at + n

Alloc(n, align) == AllocFromFree(n, align) \/ AllocFromCursor(n, align)

-----------------------------------------------------------------------------
(* allocAt: NtAllocateVirtualMemory with a base. *)

\* lower_bound(a) and its predecessor.
Before(map, a) ==
  {k \in Keys(map) : k < a /\ \A j \in Keys(map) : j < a => j <= k}

\* Mutant: the block that begins before the range is forgotten.
InUseAfterOnly(a, n) == \E k \in Keys(blocks) : a <= k /\ k < a + n

\* Only the block before and the block after are looked at.
InUse(a, n) ==
  \/ \E k \in Keys(blocks) : a <= k /\ k < a + n
  \/ \E k \in Before(blocks, a) : End(blocks, k) > a

Cut(a, n) == {r \in Keys(free) : r < a + n /\ End(free, r) > a}

\* Mutant: the free ranges keep the pages of the block.
Untrimmed(a, n) == free

\* The free ranges the block overlaps lose the pages it takes; where several reach
\* beyond it, the last one's tail is kept.
Trimmed(a, n) ==
  LET tails == {r \in Cut(a, n) : End(free, r) > a + n}
      last  == CHOOSE r \in tails : \A q \in tails : q <= r
  IN [p \in Pages |->
        CASE p = a + n /\ tails # {} -> End(free, last) - (a + n)
          [] p \in Cut(a, n) /\ p < a -> a - p
          [] p \in Cut(a, n) /\ p >= a -> 0
          [] OTHER -> free[p]]

AllocAt(a, n) ==
  /\ a + n <= Size
  /\ FixedAboveCursor \/ a + n <= cursor
  /\ ~InUse(a, n)
  /\ free' = Trimmed(a, n)
  /\ blocks' = [blocks EXCEPT ![a] = n]
  /\ UNCHANGED cursor

-----------------------------------------------------------------------------
(* free, and the reset of a relaunch. *)

\* The freed pages are joined to the free range after and to the one before.
Free(a) ==
  LET next == a + blocks[a]
      len  == blocks[a] + (IF next \in Pages THEN free[next] ELSE 0)
      prev == {r \in Before(free, a) : End(free, r) = a}
  IN /\ blocks[a] > 0
     /\ blocks' = [blocks EXCEPT ![a] = 0]
     /\ free' = [p \in Pages |->
                   CASE p = next -> 0
                     [] p \in prev -> free[p] + len
                     [] p = a /\ prev = {} -> len
                     [] OTHER -> free[p]]
     /\ UNCHANGED cursor

Reset == blocks' = Empty /\ free' = Empty /\ cursor' = 0

-----------------------------------------------------------------------------
(* regionAt: NtQueryVirtualMemory. *)

The(S, default) == IF S = {} THEN default ELSE CHOOSE x \in S : TRUE

\* Mutant: a query of a block's first page looks at the block before it.
RegionAtBefore(a) ==
  LET prev == Before(blocks, a)
      next == {k \in Keys(blocks) : k >= a /\ \A j \in Keys(blocks) : j >= a => j >= k}
  IN IF \E k \in prev : a < End(blocks, k)
     THEN [lo |-> The(prev, 0), hi |-> End(blocks, The(prev, 0)), committed |-> TRUE]
     ELSE [lo |-> The({End(blocks, k) : k \in prev}, 0), hi |-> The(next, Size),
           committed |-> FALSE]

\* The block that holds a, or the gap between the block before and the one after.
RegionAt(a) ==
  LET prev == {k \in Keys(blocks) : k <= a /\ \A j \in Keys(blocks) : j <= a => j <= k}
      next == {k \in Keys(blocks) : k > a /\ \A j \in Keys(blocks) : j > a => j >= k}
  IN IF \E k \in prev : a < End(blocks, k)
     THEN [lo |-> The(prev, 0), hi |-> End(blocks, The(prev, 0)), committed |-> TRUE]
     ELSE [lo |-> The({End(blocks, k) : k \in prev}, 0), hi |-> The(next, Size),
           committed |-> FALSE]

-----------------------------------------------------------------------------
\* The callers round the size up to the alignment.
Next ==
  \/ \E n \in Sizes, align \in Aligns : n % align = 0 /\ Alloc(n, align)
  \/ \E a \in Pages, n \in Sizes : AllocAt(a, n)
  \/ \E a \in Pages : Free(a)
  \/ Reset

Spec == Init /\ [][Next]_vars

-----------------------------------------------------------------------------
Held(map, p) == \E a \in Keys(map) : Holds(map, a, p)

\* Two blocks never share a page: whatever mix of first fit, bump, fixed addresses and
\* frees, no memory is given to two callers.
NoPageTwice ==
  \A a, b \in Keys(blocks) : a < b => End(blocks, a) <= b

FreeDisjoint == \A a, b \in Keys(free) : a < b => End(free, a) <= b

FreeOutsideBlocks ==
  \A a \in Keys(blocks), b \in Keys(free) : End(blocks, a) <= b \/ End(free, b) <= a

NothingAboveCursor ==
  /\ \A a \in Keys(blocks) : End(blocks, a) <= cursor
  /\ \A a \in Keys(free) : End(free, a) <= cursor

NoPageLost == \A p \in Pages : p < cursor => Held(blocks, p) \/ Held(free, p)

\* The three structures account for every page: one below the cursor is in one block
\* or in one free range, so that none is lost and none is given twice; one above is in
\* neither.
PagesAccounted ==
  NoPageTwice /\ FreeDisjoint /\ FreeOutsideBlocks /\ NothingAboveCursor /\ NoPageLost

\* Looking only at the two nearest blocks, allocAt refuses a range exactly when one of
\* its pages is in use.
FixedRequestsAreExact ==
  \A a \in Pages : \A n \in Sizes :
    InUse(a, n) <=> \E p \in Pages : a <= p /\ p < a + n /\ Held(blocks, p)

\* What a query answers about any address is one whole allocation, or a gap that no
\* allocation enters and that no longer gap contains.
RegionsAreTrue ==
  \A a \in Pages : LET r == RegionAt(a) IN
    /\ r.lo <= a /\ a < r.hi /\ r.hi <= Size
    /\ r.committed => blocks[r.lo] = r.hi - r.lo
    /\ ~r.committed =>
         /\ \A p \in Pages : r.lo <= p /\ p < r.hi => ~Held(blocks, p)
         /\ r.lo > 0 => Held(blocks, r.lo - 1)
         /\ r.hi < Size => Held(blocks, r.hi)

\* The window keeps the promise of PageGrants: an allocation is exclusive, whole, and
\* untouched until its own free.
Grants == {{p \in Pages : Holds(blocks, a, p)} : a \in Keys(blocks)}
Promise == INSTANCE PageGrants WITH grants <- Grants
EveryGrantIsExclusive == Promise!Spec
=============================================================================
