------------------------- MODULE KernelModulesProofs -------------------------
(***************************************************************************)
(* The pool gives what nobody has, and a module that can be found is whole: *)
(* proved for every size of the pool and the region, every set of modules   *)
(* and every placement.                                                     *)
(***************************************************************************)
EXTENDS KernelModules, TLAPS

----------------------------------------------------------------------------
(* The pool, as a fact about its two maps and its cursor *)

HeapTypes(n, f, b) ==
  /\ n \in HeapBase..HeapEnd
  /\ f \in [Addrs -> 0..HeapSize]
  /\ b \in [Addrs -> 0..HeapSize]
  /\ \A a \in Addrs : a + f[a] <= HeapEnd /\ a + b[a] <= HeapEnd

BelowCursor(n, f, b) ==
  \A a \in Addrs : (f[a] > 0 => a + f[a] <= n) /\ (b[a] > 0 => a + b[a] <= n)
FreeApart(f) == \A a, c \in Addrs : f[a] > 0 /\ f[c] > 0 /\ a < c => a + f[a] < c
BlocksApart(b) == \A a, c \in Addrs : b[a] > 0 /\ b[c] > 0 /\ a < c => a + b[a] <= c
FreeOrUsed(f, b) == \A a, c \in Addrs : b[a] > 0 /\ f[c] > 0 => a + b[a] <= c \/ c + f[c] <= a
Exclusive(n, f, b) ==
  BelowCursor(n, f, b) /\ FreeApart(f) /\ BlocksApart(b) /\ FreeOrUsed(f, b)

\* Aligning an address never moves it down.
LEMMA AlignUpMovesUp ==
  ASSUME NEW a \in Nat, NEW n \in Nat \ {0}
  PROVE  AlignUp(a, n) \in Nat /\ a <= AlignUp(a, n)
<1> DEFINE x == a + n - 1
           q == x \div n
           m == x % n
<1>1. x \in Nat
  OBVIOUS
<1>2. q \in Nat /\ m \in 0..n - 1 /\ x = n * q + m
  BY <1>1
<1>3. q * n \in Nat /\ q * n = n * q
  BY <1>2
<1>4. QED
  BY <1>2, <1>3 DEF AlignUp

\* The pool is born, and reborn with a title, with nothing in it.
LEMMA EmptyPool ==
  HeapTypes(HeapBase, NoEntries, NoEntries) /\ Exclusive(HeapBase, NoEntries, NoEntries)
BY HeapAssumption DEF HeapTypes, Exclusive, BelowCursor, FreeApart, BlocksApart, FreeOrUsed,
   NoEntries, Addrs, HeapEnd

\* An allocation from a freed range takes a part of it that was nobody's.
LEMMA AllocFromRangeKeeps ==
  ASSUME NEW size \in Nat \ {0}, NEW align \in Nat \ {0},
         HeapTypes(nextFree, freeRanges, blocks), AllocFromRange(size, align)
  PROVE  /\ HeapTypes(nextFree', freeRanges', blocks')
         /\ Exclusive(nextFree, freeRanges, blocks) => Exclusive(nextFree', freeRanges', blocks')
<1>1. PICK r \in Addrs :
        /\ FirstFit(r, size, align)
        /\ freeRanges' = [a \in Addrs |-> IF a = r THEN 0
                            ELSE IF a = Rest(r, size, align).at /\ Rest(r, size, align).size > 0
                                 THEN Rest(r, size, align).size ELSE freeRanges[a]]
        /\ blocks' = [blocks EXCEPT ![AlignUp(r, align)] = size]
        /\ nextFree' = nextFree
  BY DEF AllocFromRange
<1> DEFINE al == AlignUp(r, align)
           left == freeRanges[r] - (al - r) - size
<1>2. r \in Nat /\ HeapBase \in Nat /\ HeapSize \in Nat /\ HeapEnd = HeapBase + HeapSize
  BY HeapAssumption DEF Addrs, HeapEnd
<1>3. al \in Nat /\ r <= al
  BY <1>2, AlignUpMovesUp
<1>4. freeRanges[r] \in 1..HeapSize /\ al - r + size <= freeRanges[r] /\ r + freeRanges[r] <= HeapEnd
  BY <1>1, <1>2 DEF FirstFit, Holds, HeapTypes
<1>5. Rest(r, size, align).at = al + size /\ Rest(r, size, align).size = left
  BY DEF Rest
<1>6. left \in 0..HeapSize /\ al \in Addrs /\ al + size + left = r + freeRanges[r]
  BY <1>2, <1>3, <1>4 DEF Addrs
<1> HIDE DEF al, left
<1>7. /\ freeRanges' = [a \in Addrs |-> IF a = r THEN 0
                            ELSE IF a = al + size /\ left > 0 THEN left ELSE freeRanges[a]]
      /\ blocks' = [blocks EXCEPT ![al] = size]
  BY <1>1, <1>5 DEF al
<1>8. freeRanges' \in [Addrs -> 0..HeapSize]
  BY <1>2, <1>6, <1>7 DEF HeapTypes
<1>9. blocks' \in [Addrs -> 0..HeapSize]
  BY <1>2, <1>3, <1>4, <1>6, <1>7 DEF HeapTypes
<1>10. \A a \in Addrs : freeRanges'[a] = IF a = r THEN 0
                            ELSE IF a = al + size /\ left > 0 THEN left ELSE freeRanges[a]
  BY <1>7
<1>11. \A a \in Addrs : blocks'[a] = IF a = al THEN size ELSE blocks[a]
  BY <1>7 DEF HeapTypes
<1>12. HeapTypes(nextFree', freeRanges', blocks')
  <2>1. \A a \in Addrs : a \in Nat /\ a + freeRanges[a] <= HeapEnd /\ a + blocks[a] <= HeapEnd
    BY <1>2 DEF HeapTypes, Addrs
  <2>2. \A a \in Addrs : a + freeRanges'[a] <= HeapEnd
    BY <1>2, <1>3, <1>4, <1>6, <1>10, <2>1
  <2>3. \A a \in Addrs : a + blocks'[a] <= HeapEnd
    BY <1>2, <1>3, <1>4, <1>6, <1>11, <2>1
  <2>4. nextFree' \in HeapBase..HeapEnd
    BY <1>1 DEF HeapTypes
  <2>5. QED
    BY <1>8, <1>9, <2>2, <2>3, <2>4 DEF HeapTypes
<1>13. ASSUME Exclusive(nextFree, freeRanges, blocks)
       PROVE  Exclusive(nextFree', freeRanges', blocks')
  <2>1. nextFree \in Nat /\ \A a \in Addrs : a \in Nat /\ freeRanges[a] \in Nat /\ blocks[a] \in Nat
    BY <1>2 DEF HeapTypes, Addrs
  <2>2. BelowCursor(nextFree', freeRanges', blocks')
    BY <1>1, <1>2, <1>3, <1>4, <1>6, <1>10, <1>11, <1>13, <2>1 DEF Exclusive, BelowCursor
  <2>3. FreeApart(freeRanges')
    BY <1>2, <1>3, <1>4, <1>6, <1>10, <1>13, <2>1 DEF Exclusive, FreeApart
  <2>4. BlocksApart(blocks')
    BY <1>2, <1>3, <1>4, <1>6, <1>11, <1>13, <2>1 DEF Exclusive, BlocksApart, FreeOrUsed
  <2>5. FreeOrUsed(freeRanges', blocks')
    BY <1>2, <1>3, <1>4, <1>6, <1>10, <1>11, <1>13, <2>1
       DEF Exclusive, FreeOrUsed, FreeApart
  <2>6. QED
    BY <2>2, <2>3, <2>4, <2>5 DEF Exclusive
<1>14. QED
  BY <1>12, <1>13

\* An allocation at the cursor takes what was never given.
LEMMA AllocAtCursorKeeps ==
  ASSUME NEW size \in Nat \ {0}, NEW align \in Nat \ {0},
         HeapTypes(nextFree, freeRanges, blocks), AllocAtCursor(size, align)
  PROVE  /\ HeapTypes(nextFree', freeRanges', blocks')
         /\ Exclusive(nextFree, freeRanges, blocks) => Exclusive(nextFree', freeRanges', blocks')
<1> DEFINE al == AlignUp(nextFree, align)
<1>1. HeapBase \in Nat /\ HeapSize \in Nat /\ HeapEnd = HeapBase + HeapSize /\ nextFree \in Nat
  BY HeapAssumption DEF HeapEnd, HeapTypes
<1>2. al \in Nat /\ nextFree <= al
  BY <1>1, AlignUpMovesUp
<1>3. /\ al + size <= HeapEnd /\ nextFree' = al + size
      /\ blocks' = [blocks EXCEPT ![al] = size] /\ freeRanges' = freeRanges
  BY DEF AllocAtCursor
<1> HIDE DEF al
<1>4. al \in Addrs /\ size \in 0..HeapSize /\ HeapBase <= nextFree
  BY <1>1, <1>2, <1>3 DEF Addrs, HeapTypes
<1>5. blocks' \in [Addrs -> 0..HeapSize]
  BY <1>3, <1>4 DEF HeapTypes
<1>6. \A a \in Addrs : blocks'[a] = IF a = al THEN size ELSE blocks[a]
  BY <1>3 DEF HeapTypes
<1>7. HeapTypes(nextFree', freeRanges', blocks')
  BY <1>1, <1>2, <1>3, <1>4, <1>5, <1>6 DEF HeapTypes
<1>8. ASSUME Exclusive(nextFree, freeRanges, blocks)
      PROVE  Exclusive(nextFree', freeRanges', blocks')
  <2>1. \A a \in Addrs : a \in Nat /\ freeRanges[a] \in Nat /\ blocks[a] \in Nat
    BY <1>1 DEF HeapTypes, Addrs
  <2>2. BelowCursor(nextFree', freeRanges', blocks')
    BY <1>1, <1>2, <1>3, <1>4, <1>6, <1>8, <2>1 DEF Exclusive, BelowCursor
  <2>3. BlocksApart(blocks')
    BY <1>1, <1>2, <1>4, <1>6, <1>8, <2>1 DEF Exclusive, BlocksApart, BelowCursor
  <2>4. FreeOrUsed(freeRanges', blocks')
    BY <1>1, <1>2, <1>3, <1>4, <1>6, <1>8, <2>1 DEF Exclusive, FreeOrUsed, BelowCursor
  <2>5. QED
    BY <1>3, <1>8, <2>2, <2>3, <2>4 DEF Exclusive
<1>9. QED
  BY <1>7, <1>8

\* A freed block joins the free ranges that touch it, and no other.
LEMMA FreeKeeps ==
  ASSUME NEW addr \in Addrs, HeapTypes(nextFree, freeRanges, blocks), Free(addr)
  PROVE  /\ HeapTypes(nextFree', freeRanges', blocks')
         /\ Exclusive(nextFree, freeRanges, blocks) => Exclusive(nextFree', freeRanges', blocks')
<1> DEFINE next == addr + blocks[addr]
           more == IF After(addr) = {} THEN 0 ELSE freeRanges[next]
<1>1. PICK start \in (IF Before(addr) = {} THEN {addr} ELSE Before(addr)) :
        freeRanges' = [a \in Addrs |-> IF a = start THEN (addr - start) + blocks[addr] + more
                                       ELSE IF a \in After(addr) THEN 0 ELSE freeRanges[a]]
  BY DEF Free
<1>2. blocks[addr] > 0 /\ blocks' = [blocks EXCEPT ![addr] = 0] /\ nextFree' = nextFree
  BY DEF Free
<1>3. HeapBase \in Nat /\ HeapSize \in Nat /\ HeapEnd = HeapBase + HeapSize /\ addr \in Nat
  BY HeapAssumption DEF Addrs, HeapEnd
<1>4. \A a \in Addrs : /\ a \in Nat /\ HeapBase <= a /\ freeRanges[a] \in Nat /\ blocks[a] \in Nat
                       /\ a + freeRanges[a] <= HeapEnd /\ a + blocks[a] <= HeapEnd
  BY <1>3 DEF HeapTypes, Addrs
<1>5. \A n : n \in After(addr) <=> n \in Addrs /\ n = next /\ freeRanges[n] > 0
  BY DEF After
<1>6. /\ more \in Nat /\ next + more <= HeapEnd
      /\ more > 0 => next \in Addrs /\ more = freeRanges[next]
      /\ next \in Addrs /\ freeRanges[next] > 0 => more = freeRanges[next]
  <2>1. CASE After(addr) = {}
    BY <1>3, <1>4, <1>5, <2>1
  <2>2. CASE After(addr) # {}
    <3>1. next \in Addrs /\ more = freeRanges[next]
      BY <1>5, <2>2
    <3>2. QED
      BY <1>4, <3>1
  <2>3. QED
    BY <2>1, <2>2
<1>7. /\ start \in Addrs /\ start <= addr
      /\ start # addr => freeRanges[start] > 0 /\ start + freeRanges[start] = addr
      /\ start = addr => \A p \in Addrs : p < addr /\ freeRanges[p] > 0 => p + freeRanges[p] # addr
  <2>1. CASE Before(addr) = {}
    BY <1>1, <1>3, <2>1 DEF Before
  <2>2. CASE Before(addr) # {}
    BY <1>1, <1>3, <1>4, <2>2 DEF Before
  <2>3. QED
    BY <2>1, <2>2
<1> DEFINE len == (addr - start) + blocks[addr] + more
<1>8. len \in Nat /\ start + len = next + more /\ len > 0
  BY <1>2, <1>3, <1>4, <1>6, <1>7
<1>9. freeRanges' = [a \in Addrs |-> IF a = start THEN len
                                     ELSE IF a \in After(addr) THEN 0 ELSE freeRanges[a]]
  BY <1>1
<1>10. next \in Nat /\ next = addr + blocks[addr]
  BY <1>3, <1>4
<1> HIDE DEF next, more, len
<1>11. len \in 0..HeapSize
  BY <1>3, <1>4, <1>6, <1>7, <1>8
<1>12. freeRanges' \in [Addrs -> 0..HeapSize]
  BY <1>3, <1>9, <1>11 DEF HeapTypes
<1>13. blocks' \in [Addrs -> 0..HeapSize]
  BY <1>2, <1>3 DEF HeapTypes
<1>14. /\ freeRanges'[start] = len
       /\ \A a \in Addrs : a # start =>
            freeRanges'[a] = IF a = next /\ freeRanges[a] > 0 THEN 0 ELSE freeRanges[a]
  BY <1>5, <1>7, <1>9
<1>15. \A a \in Addrs : blocks'[a] = IF a = addr THEN 0 ELSE blocks[a]
  BY <1>2 DEF HeapTypes
<1>16. HeapTypes(nextFree', freeRanges', blocks')
  <2>1. \A a \in Addrs : a + freeRanges'[a] <= HeapEnd
    BY <1>3, <1>4, <1>6, <1>7, <1>8, <1>14
  <2>2. \A a \in Addrs : a + blocks'[a] <= HeapEnd
    BY <1>3, <1>4, <1>15
  <2>3. QED
    BY <1>2, <1>12, <1>13, <2>1, <2>2 DEF HeapTypes
<1>17. ASSUME Exclusive(nextFree, freeRanges, blocks)
       PROVE  Exclusive(nextFree', freeRanges', blocks')
  <2>1. nextFree \in Nat
    BY <1>3 DEF HeapTypes
  <2>2. /\ \A c \in Addrs : freeRanges[c] > 0 => next <= c \/ c + freeRanges[c] <= addr
        /\ next <= nextFree /\ next + more <= nextFree
    BY <1>2, <1>4, <1>6, <1>10, <1>17, <2>1 DEF Exclusive, FreeOrUsed, BelowCursor
  <2>3. BelowCursor(nextFree', freeRanges', blocks')
    BY <1>2, <1>3, <1>4, <1>6, <1>7, <1>8, <1>14, <1>15, <1>17, <2>1, <2>2
       DEF Exclusive, BelowCursor
  \* What stays free lies below the joined range or above it, and touches neither end.
  <2>4. \A c \in Addrs : c # start /\ freeRanges'[c] > 0 =>
          /\ freeRanges'[c] = freeRanges[c]
          /\ c + freeRanges[c] < start \/ next + more < c
    <3>1. SUFFICES ASSUME NEW c \in Addrs, c # start, freeRanges'[c] > 0
                   PROVE  freeRanges'[c] = freeRanges[c]
                          /\ (c + freeRanges[c] < start \/ next + more < c)
      OBVIOUS
    <3>2. freeRanges'[c] = freeRanges[c] /\ freeRanges[c] > 0 /\ c # next
      BY <1>14, <3>1
    <3>3. CASE c + freeRanges[c] <= addr
      <4>1. CASE start = addr
        BY <1>3, <1>4, <1>7, <3>2, <3>3, <4>1
      <4>2. CASE start # addr
        BY <1>3, <1>4, <1>7, <1>17, <3>1, <3>2, <3>3, <4>2 DEF Exclusive, FreeApart
      <4>3. QED
        BY <4>1, <4>2
    <3>4. CASE next <= c
      <4>1. CASE more = 0
        BY <1>4, <1>10, <3>2, <3>4, <4>1
      <4>2. CASE more > 0
        BY <1>4, <1>6, <1>10, <1>17, <3>2, <3>4, <4>2 DEF Exclusive, FreeApart
      <4>3. QED
        BY <1>6, <4>1, <4>2
    <3>5. QED
      BY <2>2, <3>2, <3>3, <3>4
  <2>5. FreeApart(freeRanges')
    BY <1>3, <1>4, <1>6, <1>7, <1>8, <1>10, <1>14, <1>17, <2>4 DEF Exclusive, FreeApart
  <2>6. BlocksApart(blocks')
    BY <1>15, <1>17 DEF Exclusive, BlocksApart
  \* A block still in use is outside of the freed one and of the ranges it joins.
  <2>7. \A a \in Addrs : blocks'[a] > 0 =>
          blocks'[a] = blocks[a] /\ (a + blocks[a] <= start \/ next + more <= a)
    <3>1. SUFFICES ASSUME NEW a \in Addrs, blocks'[a] > 0
                   PROVE  blocks'[a] = blocks[a] /\ (a + blocks[a] <= start \/ next + more <= a)
      OBVIOUS
    <3>2. blocks'[a] = blocks[a] /\ a # addr /\ blocks[a] > 0
      BY <1>4, <1>15, <3>1
    <3>3. a + blocks[a] <= addr \/ next <= a
      BY <1>2, <1>3, <1>4, <1>10, <1>17, <3>2 DEF Exclusive, BlocksApart
    <3>4. a + blocks[a] <= addr => a + blocks[a] <= start
      BY <1>3, <1>4, <1>7, <1>17, <3>2 DEF Exclusive, FreeOrUsed
    <3>5. next <= a => next + more <= a
      BY <1>4, <1>6, <1>10, <1>17, <3>2 DEF Exclusive, FreeOrUsed
    <3>6. QED
      BY <3>2, <3>3, <3>4, <3>5
  <2>8. FreeOrUsed(freeRanges', blocks')
    BY <1>3, <1>4, <1>6, <1>7, <1>8, <1>10, <1>14, <1>17, <2>4, <2>7 DEF Exclusive, FreeOrUsed
  <2>9. QED
    BY <2>3, <2>5, <2>6, <2>8 DEF Exclusive
<1>18. QED
  BY <1>16, <1>17

\* A fixed reservation stays inside the pool.
LEMMA ReserveAtKeepsTypes ==
  ASSUME NEW addr \in Nat, NEW size \in Nat \ {0},
         HeapTypes(nextFree, freeRanges, blocks), ReserveAt(addr, size)
  PROVE  HeapTypes(nextFree', freeRanges', blocks')
<1>1. HeapBase \in Nat /\ HeapSize \in Nat /\ HeapEnd = HeapBase + HeapSize
      /\ nextFree \in Nat /\ HeapBase <= nextFree /\ nextFree <= HeapEnd
  BY HeapAssumption DEF HeapEnd, HeapTypes
<1>2. HeapBase <= addr /\ addr + size <= HeapEnd
  BY DEF ReserveAt, CanReserve
<1>3. addr \in Addrs /\ size \in 0..HeapSize
  BY <1>1, <1>2 DEF Addrs
<1>4. blocks' = [blocks EXCEPT ![addr] = size]
  BY DEF ReserveAt
<1>5. blocks' \in [Addrs -> 0..HeapSize] /\ \A a \in Addrs : a + blocks'[a] <= HeapEnd
  BY <1>1, <1>2, <1>3, <1>4 DEF HeapTypes
<1>6. CASE addr < nextFree /\ addr + size < nextFree
  <2>1. freeRanges' = [freeRanges EXCEPT ![addr + size] = nextFree - (addr + size)] /\ nextFree' = addr
    BY <1>6 DEF ReserveAt
  <2>2. addr + size \in Addrs /\ nextFree - (addr + size) \in 0..HeapSize
    BY <1>1, <1>2, <1>6 DEF Addrs
  <2>3. freeRanges' \in [Addrs -> 0..HeapSize]
    BY <2>1, <2>2 DEF HeapTypes
  <2>4. \A a \in Addrs : a + freeRanges'[a] <= HeapEnd
    BY <1>1, <1>2, <2>1, <2>2 DEF HeapTypes
  <2>5. QED
    BY <1>1, <1>2, <1>5, <2>1, <2>3, <2>4 DEF HeapTypes
<1>7. CASE ~(addr < nextFree /\ addr + size < nextFree)
  <2>1. freeRanges' = freeRanges /\ nextFree' \in {addr, nextFree}
    BY <1>7 DEF ReserveAt
  <2>2. QED
    BY <1>1, <1>2, <1>5, <2>1 DEF HeapTypes
<1>8. QED
  BY <1>6, <1>7

----------------------------------------------------------------------------
(* The modules.  A module owns memory from the moment its range is in       *)
(* g_moduleRanges: while it is loaded, and from the registration on.        *)

Heap == HeapTypes(nextFree, freeRanges, blocks)
        /\ (~reserved => Exclusive(nextFree, freeRanges, blocks))

Types ==
  /\ modules \in [Modules -> ModuleRecord \union {NoModule}]
  /\ ranges \subseteq [at : Ram, size : Nat \ {0}]
  /\ regionNext \in HeapBase..RegionEnd
  /\ ram \in [Ram -> Modules \union {Zero}]
  /\ load \in [Threads -> LoadRecord]

InRam(at, size) == at \in Nat /\ HeapBase <= at /\ at + size <= RegionEnd
Known(m) == modules[m] # NoModule
Owns(m, at) ==
  \/ Known(m) /\ modules[m].exports = at
  \/ \E t \in Threads : load[t].pc \in {"reserved", "copied"} /\ load[t].module = m /\ load[t].at = at
Written(m, at) ==
  \/ Known(m) /\ modules[m].exports = at
  \/ \E t \in Threads : load[t].pc = "copied" /\ load[t].module = m /\ load[t].at = at

ModulesFit == \A m \in Modules : Known(m) => InRam(modules[m].exports, Span[m])
LoadsFit ==
  \A t \in Threads : load[t].pc \in {"placed", "reserved", "copied", "registered"}
                       => InRam(load[t].at, Span[load[t].module])
OneLoader ==
  \A t, u \in Threads : t # u /\ load[t].pc # "idle" /\ load[u].pc # "idle"
                          => load[t].module # load[u].module
LoadsUnknown ==
  \A t \in Threads : load[t].pc \in {"reading", "placed", "reserved", "copied"}
                       => ~Known(load[t].module)
RegisteredKnown ==
  \A t \in Threads : load[t].pc = "registered"
                       => Known(load[t].module) /\ modules[load[t].module].exports = load[t].at
MarksAreWhole ==
  \A m \in Modules : Known(m) =>
    \/ modules[m].secondary /\ modules[m].image = modules[m].exports /\ modules[m].span = Span[m]
    \/ \E t \in Threads : load[t].pc = "registered" /\ load[t].module = m
OwnedIsReserved ==
  \A m \in Modules, at \in Nat : Owns(m, at) => [at |-> at, size |-> Span[m]] \in ranges
OwnersApart ==
  \A m, n \in Modules, a, c \in Nat :
    m # n /\ Owns(m, a) /\ Owns(n, c) => ~Overlap(a, Span[m], c, Span[n])
WrittenIsThere ==
  \A m \in Modules, at \in Nat : Written(m, at) => \A u \in Units(at, Span[m]) : ram[u] = m
ThereIsWritten ==
  \A u \in Ram : ram[u] # Zero =>
    \E at \in Nat : Written(ram[u], at) /\ u \in Units(at, Span[ram[u]])

Table ==
  /\ ModulesFit /\ LoadsFit /\ OneLoader /\ LoadsUnknown /\ RegisteredKnown /\ MarksAreWhole
  /\ OwnedIsReserved /\ OwnersApart /\ WrittenIsThere /\ ThereIsWritten
IInv == Heap /\ Types /\ Table

\* The sizes and bounds of the memory are numbers, and every image starts inside it.
LEMMA Bounds ==
  /\ HeapBase \in Nat /\ RegionBase \in Nat /\ RegionSize \in Nat /\ RegionEnd = RegionBase + RegionSize
  /\ HeapEnd = HeapBase + HeapSize /\ HeapSize \in Nat \ {0} /\ HeapEnd <= RegionBase
  /\ \A m \in Modules : Preferred[m] \in Nat /\ Span[m] \in Nat \ {0} /\ m # Zero
  /\ \A at, size : InRam(at, size) /\ size \in Nat \ {0} => at \in Ram /\ Units(at, size) \subseteq Ram
BY HeapAssumption, ModulesAssumption DEF HeapEnd, RegionEnd, InRam, Ram, Units

\* What a thread does before its range is reserved changes nothing anybody owns.
LEMMA BeforeReserving ==
  ASSUME Types, Table, NEW t \in Threads, NEW o \in LoadRecord,
         load' = [load EXCEPT ![t] = o],
         load[t].pc \in {"idle", "reading", "placed"}, o.pc \in {"idle", "reading", "placed"},
         o.pc = "placed" => InRam(o.at, Span[o.module]),
         o.pc # "idle" => /\ ~Known(o.module)
                          /\ \A u \in Threads : u # t /\ load[u].pc # "idle" => load[u].module # o.module,
         UNCHANGED <<modules, ranges, ram>>
  PROVE  Table'
<1>1. /\ load'[t] = o /\ \A u \in Threads : u # t => load'[u] = load[u]
      /\ \A m : Known(m)' <=> Known(m)
  BY DEF Types, Known
<1>2. \A m, at : (Owns(m, at)' => Owns(m, at)) /\ (Written(m, at)' <=> Written(m, at))
  BY <1>1 DEF Owns, Written
<1>3. ModulesFit' /\ LoadsFit'
  BY <1>1 DEF Table, ModulesFit, LoadsFit, InRam
<1>4. OneLoader' /\ LoadsUnknown' /\ RegisteredKnown'
  BY <1>1 DEF Table, OneLoader, LoadsUnknown, RegisteredKnown
<1>5. MarksAreWhole'
  BY <1>1 DEF Table, MarksAreWhole
<1>6. OwnedIsReserved' /\ OwnersApart'
  BY <1>2 DEF Table, OwnedIsReserved, OwnersApart
<1>7. WrittenIsThere' /\ ThereIsWritten'
  BY <1>2 DEF Table, WrittenIsThere, ThereIsWritten
<1>8. QED
  BY <1>3, <1>4, <1>5, <1>6, <1>7 DEF Table

\* A range is reserved when it meets no other: two loads that chose the same place do not both
\* get it.
LEMMA ReserveKeeps ==
  ASSUME Types, Table, NEW t \in Threads, ReserveModuleRange(t)
  PROVE  Types' /\ Table'
<1> DEFINE m == load[t].module
           at == load[t].at
<1>1. load[t] \in [pc : {"placed"}, module : Modules, at : Ram]
  BY DEF ReserveModuleRange, At, Types, LoadRecord, Idle
<1>2. /\ m \in Modules /\ at \in Ram /\ InRam(at, Span[m]) /\ Span[m] \in Nat \ {0} /\ load[t].pc = "placed"
      /\ UNCHANGED <<modules, ram, regionNext>>
  BY <1>1, Bounds DEF Table, LoadsFit, ReserveModuleRange
<1>3. CASE Taken(at, Span[m])
  <2>1. load' = [load EXCEPT ![t] = Idle] /\ UNCHANGED ranges
    BY <1>3 DEF ReserveModuleRange, Goes
  <2>2. Idle \in LoadRecord /\ Idle.pc = "idle"
    BY DEF LoadRecord, Idle
  <2>3. Table'
    BY <1>2, <2>1, <2>2, BeforeReserving
  <2>4. QED
    BY <1>2, <2>1, <2>2, <2>3 DEF Types
<1>4. CASE ~Taken(at, Span[m])
  <2>1. /\ load' = [load EXCEPT ![t] = [load[t] EXCEPT !.pc = "reserved"]]
        /\ ranges' = ranges \union {[at |-> at, size |-> Span[m]]}
        /\ RangeFree(at, Span[m])
    BY <1>4 DEF ReserveModuleRange, Goes, Taken
  <2>2. /\ load'[t] \in LoadRecord /\ load'[t].pc = "reserved" /\ load'[t].module = m /\ load'[t].at = at
        /\ \A u \in Threads : u # t => load'[u] = load[u]
        /\ \A n : Known(n)' <=> Known(n)
    BY <1>1, <1>2, <2>1 DEF Types, LoadRecord, Known
  <2>3. Types'
    <3>1. load' \in [Threads -> LoadRecord]
      BY <2>1, <2>2 DEF Types
    <3>2. [at |-> at, size |-> Span[m]] \in [at : Ram, size : Nat \ {0}]
      BY <1>2
    <3>3. ranges' \subseteq [at : Ram, size : Nat \ {0}]
      BY <2>1, <3>2 DEF Types
    <3>4. QED
      BY <1>2, <3>1, <3>3 DEF Types
  <2>4. \A n, a : /\ Owns(n, a)' <=> Owns(n, a) \/ (n = m /\ a = at)
                  /\ Written(n, a)' <=> Written(n, a)
    BY <1>2, <2>2 DEF Owns, Written
  <2>5. ModulesFit' /\ LoadsFit'
    BY <1>2, <2>2 DEF Table, ModulesFit, LoadsFit, InRam
  <2>6. OneLoader' /\ LoadsUnknown' /\ RegisteredKnown'
    BY <1>2, <2>2 DEF Table, OneLoader, LoadsUnknown, RegisteredKnown
  <2>7. MarksAreWhole'
    BY <1>2, <2>2 DEF Table, MarksAreWhole
  <2>8. OwnedIsReserved'
    BY <2>1, <2>4 DEF Table, OwnedIsReserved
  <2>9. OwnersApart'
    <3>1. \A n \in Modules, a \in Nat : Owns(n, a) =>
            ~Overlap(at, Span[m], a, Span[n]) /\ ~Overlap(a, Span[n], at, Span[m])
      <4>1. SUFFICES ASSUME NEW n \in Modules, NEW a \in Nat, Owns(n, a)
                     PROVE  ~Overlap(at, Span[m], a, Span[n]) /\ ~Overlap(a, Span[n], at, Span[m])
        OBVIOUS
      <4>2. [at |-> a, size |-> Span[n]] \in ranges
        BY <4>1 DEF Table, OwnedIsReserved
      <4>3. ~Overlap(at, Span[m], a, Span[n])
        BY <2>1, <4>2 DEF RangeFree
      <4>4. QED
        BY <4>3 DEF Overlap
    <3>2. QED
      BY <2>4, <3>1 DEF Table, OwnersApart
  <2>10. WrittenIsThere' /\ ThereIsWritten'
    BY <1>2, <2>4 DEF Table, WrittenIsThere, ThereIsWritten
  <2>11. QED
    BY <2>3, <2>5, <2>6, <2>7, <2>8, <2>9, <2>10 DEF Table
<1>5. QED
  BY <1>3, <1>4

\* The copy writes the range the thread reserved, where no other module is.
LEMMA CopyKeeps ==
  ASSUME Types, Table, NEW t \in Threads, CopyImage(t)
  PROVE  Types' /\ Table'
<1> DEFINE m == load[t].module
           at == load[t].at
<1>1. load[t] \in [pc : {"reserved"}, module : Modules, at : Ram]
  BY DEF CopyImage, At, Types, LoadRecord, Idle
<1>2. /\ m \in Modules /\ at \in Ram /\ InRam(at, Span[m]) /\ Span[m] \in Nat \ {0} /\ load[t].pc = "reserved"
      /\ UNCHANGED <<modules, ranges>> /\ ~Known(m)
  BY <1>1, Bounds DEF Table, LoadsFit, LoadsUnknown, CopyImage
<1>3. /\ ram' = [u \in Ram |-> IF u \in Units(at, Span[m]) THEN m ELSE ram[u]]
      /\ regionNext' = at + Span[m]
      /\ load' = [load EXCEPT ![t] = [load[t] EXCEPT !.pc = "copied"]]
  BY DEF CopyImage, Image, Goes
<1>4. /\ load'[t] \in LoadRecord /\ load'[t].pc = "copied" /\ load'[t].module = m /\ load'[t].at = at
      /\ \A u \in Threads : u # t => load'[u] = load[u]
      /\ \A n : Known(n)' <=> Known(n)
  BY <1>1, <1>2, <1>3 DEF Types, LoadRecord, Known
<1>5. Types'
  <2>1. load' \in [Threads -> LoadRecord]
    BY <1>3, <1>4 DEF Types
  <2>2. regionNext' \in HeapBase..RegionEnd
    BY <1>2, <1>3, Bounds DEF InRam
  <2>3. ram' \in [Ram -> Modules \union {Zero}]
    BY <1>2, <1>3 DEF Types
  <2>4. QED
    BY <1>2, <2>1, <2>2, <2>3 DEF Types
<1>6. /\ Units(at, Span[m]) \subseteq Ram /\ at \in Nat
      /\ \A u \in Ram : ram'[u] = IF u \in Units(at, Span[m]) THEN m ELSE ram[u]
  BY <1>2, <1>3, Bounds DEF InRam
<1>7. \A n, a : /\ Owns(n, a)' <=> Owns(n, a)
                /\ Written(n, a)' <=> Written(n, a) \/ (n = m /\ a = at)
  BY <1>2, <1>4 DEF Owns, Written
<1>8. Owns(m, at) /\ \A n, a : Written(n, a) => Owns(n, a)
  BY <1>2 DEF Owns, Written
\* Nobody else holds a copy of this module.
<1>9. \A a : ~Written(m, a)
  BY <1>2 DEF Written, Table, OneLoader
<1>10. ModulesFit' /\ LoadsFit'
  BY <1>2, <1>4 DEF Table, ModulesFit, LoadsFit, InRam
<1>11. OneLoader' /\ LoadsUnknown' /\ RegisteredKnown'
  BY <1>2, <1>4 DEF Table, OneLoader, LoadsUnknown, RegisteredKnown
<1>12. MarksAreWhole'
  BY <1>2, <1>4 DEF Table, MarksAreWhole
<1>13. OwnedIsReserved' /\ OwnersApart'
  BY <1>2, <1>7 DEF Table, OwnedIsReserved, OwnersApart
<1>14. WrittenIsThere'
  <2>1. SUFFICES ASSUME NEW n \in Modules, NEW a \in Nat, Written(n, a)', NEW u \in Units(a, Span[n])
                 PROVE  ram'[u] = n
    BY DEF WrittenIsThere
  <2>2. CASE n = m /\ a = at
    BY <1>6, <2>1, <2>2
  <2>3. CASE Written(n, a)
    <3>1. n # m /\ Owns(n, a) /\ ram[u] = n
      BY <1>8, <1>9, <2>1, <2>3 DEF Table, WrittenIsThere
    <3>2. ~Overlap(a, Span[n], at, Span[m])
      BY <1>2, <1>6, <1>8, <3>1 DEF Table, OwnersApart
    <3>3. u \notin Units(at, Span[m])
      BY <1>2, <1>6, <2>1, <3>2, Bounds DEF Overlap, Units
    <3>4. InRam(a, Span[n])
      BY <2>3 DEF Written, Table, ModulesFit, LoadsFit
    <3>5. u \in Ram
      BY <2>1, <3>4, Bounds
    <3>6. QED
      BY <1>6, <3>1, <3>3, <3>5
  <2>4. QED
    BY <1>7, <2>1, <2>2, <2>3
<1>15. ThereIsWritten'
  <2>1. ASSUME NEW u \in Ram, NEW n, n = ram'[u], n # Zero
        PROVE  \E a \in Nat : Written(n, a)' /\ u \in Units(a, Span[n])
    <3>1. CASE u \in Units(at, Span[m])
      BY <1>6, <1>7, <2>1, <3>1
    <3>2. CASE u \notin Units(at, Span[m])
      <4>1. n = ram[u]
        BY <1>6, <2>1, <3>2
      <4>2. PICK a \in Nat : Written(n, a) /\ u \in Units(a, Span[n])
        BY <2>1, <4>1 DEF Table, ThereIsWritten
      <4>3. QED
        BY <1>7, <4>2
    <3>3. QED
      BY <3>1, <3>2
  <2>2. QED
    BY <2>1 DEF ThereIsWritten, Written, Known, Units
<1>16. QED
  BY <1>5, <1>10, <1>11, <1>12, <1>13, <1>14, <1>15 DEF Table

\* The registration gives the module to whoever asks for it by name; it owns what its load owned.
LEMMA RegisterKeeps ==
  ASSUME Types, Table, NEW t \in Threads, RegisterModule(t)
  PROVE  Types' /\ Table'
<1> DEFINE m == load[t].module
           at == load[t].at
           new == [known |-> TRUE, exports |-> at, secondary |-> FALSE, image |-> 0, span |-> 0]
<1>1. load[t] \in [pc : {"copied"}, module : Modules, at : Ram]
  BY DEF RegisterModule, At, Types, LoadRecord, Idle
<1>2. /\ m \in Modules /\ at \in Ram /\ InRam(at, Span[m]) /\ load[t].pc = "copied"
      /\ UNCHANGED <<ranges, ram, regionNext>> /\ ~Known(m)
  BY <1>1 DEF Table, LoadsFit, LoadsUnknown, RegisterModule
<1>3. /\ modules' = [modules EXCEPT ![m] = new]
      /\ load' = [load EXCEPT ![t] = [load[t] EXCEPT !.pc = "registered"]]
  BY DEF RegisterModule, Goes
<1>4. /\ load'[t] \in LoadRecord /\ load'[t].pc = "registered" /\ load'[t].module = m /\ load'[t].at = at
      /\ \A u \in Threads : u # t => load'[u] = load[u]
  BY <1>1, <1>2, <1>3 DEF Types, LoadRecord
<1>5. new \in ModuleRecord /\ new # NoModule
  BY <1>2 DEF ModuleRecord, NoModule
<1>6. /\ modules'[m] = new /\ Known(m)' /\ modules'[m].exports = at
      /\ \A n \in Modules : n # m => modules'[n] = modules[n] /\ (Known(n)' <=> Known(n))
  BY <1>2, <1>3, <1>5 DEF Types, Known
<1>7. Types'
  <2>1. load' \in [Threads -> LoadRecord]
    BY <1>3, <1>4 DEF Types
  <2>2. modules' \in [Modules -> ModuleRecord \union {NoModule}]
    BY <1>3, <1>5 DEF Types
  <2>3. QED
    BY <1>2, <2>1, <2>2 DEF Types
<1>8. \A u \in Threads : u # t /\ load[u].pc # "idle" => load[u].module # m
  BY <1>2 DEF Table, OneLoader
<1>9. \A u \in Threads : load[u].pc # "idle" => load[u].module \in Modules
  BY DEF Types, LoadRecord, Idle
<1>10. \A n \in Modules : \A a : (Owns(n, a)' => Owns(n, a)) /\ (Written(n, a)' <=> Written(n, a))
  <2>1. SUFFICES ASSUME NEW n \in Modules, NEW a
                 PROVE  (Owns(n, a)' => Owns(n, a)) /\ (Written(n, a)' <=> Written(n, a))
    OBVIOUS
  <2>2. CASE n = m
    BY <1>2, <1>4, <1>6, <1>8, <2>2 DEF Owns, Written
  <2>3. CASE n # m
    BY <1>2, <1>4, <1>6, <2>3 DEF Owns, Written
  <2>4. QED
    BY <2>2, <2>3
<1>11. ModulesFit' /\ LoadsFit'
  BY <1>2, <1>4, <1>6 DEF Table, ModulesFit, LoadsFit, InRam
<1>12. OneLoader'
  BY <1>2, <1>4 DEF Table, OneLoader
<1>13. LoadsUnknown'
  BY <1>4, <1>6, <1>8, <1>9 DEF Table, LoadsUnknown
<1>14. RegisteredKnown'
  BY <1>2, <1>4, <1>6, <1>8, <1>9 DEF Table, RegisteredKnown
<1>15. MarksAreWhole'
  BY <1>2, <1>4, <1>6 DEF Table, MarksAreWhole
<1>16. OwnedIsReserved' /\ OwnersApart'
  BY <1>2, <1>10 DEF Table, OwnedIsReserved, OwnersApart
<1>17. WrittenIsThere' /\ ThereIsWritten'
  <2>1. \A u \in Ram : ram[u] # Zero => ram[u] \in Modules
    BY DEF Types
  <2>2. QED
    BY <1>2, <1>10, <2>1 DEF Table, WrittenIsThere, ThereIsWritten
<1>18. QED
  BY <1>7, <1>11, <1>12, <1>13, <1>14, <1>15, <1>16, <1>17 DEF Table

\* The mark remembers the image whole, so that a relaunch zeroes all of it.
LEMMA MarkKeeps ==
  ASSUME Types, Table, NEW t \in Threads, MarkModuleSecondary(t)
  PROVE  Types' /\ Table'
<1>0. PICK m, at : m = load[t].module /\ at = load[t].at
  OBVIOUS
<1> DEFINE new == Marked(t, modules[m])
<1>1. load[t] \in [pc : {"registered"}, module : Modules, at : Ram]
  BY DEF MarkModuleSecondary, At, Types, LoadRecord, Idle
<1>2. /\ m \in Modules /\ at \in Ram /\ InRam(at, Span[m]) /\ load[t].pc = "registered"
      /\ UNCHANGED <<ranges, ram, regionNext>> /\ Known(m) /\ modules[m].exports = at
  BY <1>0, <1>1 DEF Table, LoadsFit, RegisteredKnown, MarkModuleSecondary
<1>3. modules' = [modules EXCEPT ![m] = new] /\ load' = [load EXCEPT ![t] = Idle]
  BY <1>0 DEF MarkModuleSecondary, Goes
<1>4. /\ Idle \in LoadRecord /\ load'[t].pc = "idle"
      /\ \A u \in Threads : u # t => load'[u] = load[u]
  BY <1>3 DEF Types, LoadRecord, Idle
<1>5. modules[m] \in ModuleRecord
  BY <1>2 DEF Types, Known
<1>6. /\ new \in ModuleRecord /\ new # NoModule /\ new.exports = at
      /\ new.secondary /\ new.image = at /\ new.span = Span[m]
  <2>1. at \in Nat /\ Span[m] \in Nat
    BY <1>2, Bounds DEF InRam
  <2>2. QED
    BY <1>0, <1>2, <1>5, <2>1 DEF Marked, ModuleRecord, NoModule
<1> HIDE DEF new
<1>7. /\ modules'[m] = new /\ Known(m)'
      /\ \A n \in Modules : n # m => modules'[n] = modules[n] /\ (Known(n)' <=> Known(n))
  BY <1>2, <1>3, <1>6 DEF Types, Known
<1>8. Types'
  <2>1. load' \in [Threads -> LoadRecord]
    BY <1>3, <1>4 DEF Types
  <2>2. modules' \in [Modules -> ModuleRecord \union {NoModule}]
    BY <1>3, <1>6 DEF Types
  <2>3. QED
    BY <1>2, <2>1, <2>2 DEF Types
<1>9. \A u \in Threads : /\ u # t /\ load[u].pc # "idle" => load[u].module # m
                         /\ load[u].pc # "idle" => load[u].module \in Modules
  BY <1>0, <1>2 DEF Table, OneLoader, Types, LoadRecord, Idle
<1>10. \A n \in Modules : \A a : (Owns(n, a)' => Owns(n, a)) /\ (Written(n, a)' <=> Written(n, a))
  <2>1. SUFFICES ASSUME NEW n \in Modules, NEW a
                 PROVE  (Owns(n, a)' => Owns(n, a)) /\ (Written(n, a)' <=> Written(n, a))
    OBVIOUS
  <2>2. CASE n = m
    BY <1>0, <1>2, <1>4, <1>6, <1>7, <1>9, <2>2 DEF Owns, Written
  <2>3. CASE n # m
    BY <1>2, <1>4, <1>7, <2>3, <1>0 DEF Owns, Written
  <2>4. QED
    BY <2>2, <2>3
<1>11. ModulesFit' /\ LoadsFit'
  BY <1>0, <1>2, <1>4, <1>6, <1>7 DEF Table, ModulesFit, LoadsFit, InRam
<1>12. OneLoader'
  BY <1>2, <1>4 DEF Table, OneLoader
<1>13. LoadsUnknown' /\ RegisteredKnown'
  BY <1>4, <1>7, <1>9 DEF Table, LoadsUnknown, RegisteredKnown
<1>14. MarksAreWhole'
  BY <1>0, <1>2, <1>4, <1>6, <1>7 DEF Table, MarksAreWhole
<1>15. OwnedIsReserved' /\ OwnersApart'
  BY <1>2, <1>10 DEF Table, OwnedIsReserved, OwnersApart
<1>16. WrittenIsThere' /\ ThereIsWritten'
  <2>1. \A u \in Ram : ram[u] # Zero => ram[u] \in Modules
    BY DEF Types
  <2>2. QED
    BY <1>2, <1>10, <2>1 DEF Table, WrittenIsThere, ThereIsWritten
<1>17. QED
  BY <1>8, <1>11, <1>12, <1>13, <1>14, <1>15, <1>16 DEF Table

\* With no load in progress every module is marked, so the relaunch forgets all of them and
\* zeroes all they hold.
LEMMA RelaunchKeeps ==
  ASSUME Types, Table, Relaunch
  PROVE  Types' /\ Table'
<1>1. /\ \A t \in Threads : load[t].pc = "idle"
      /\ ranges' = {} /\ UNCHANGED <<regionNext, load>>
  BY DEF Relaunch, At
<1>2. \A m \in Modules : Known(m) => Secondary(m) /\ modules[m].image = modules[m].exports
                                     /\ modules[m].span = Span[m]
  BY <1>1 DEF Table, MarksAreWhole, Secondary, Known
<1>3. \A m \in Modules : modules'[m] = NoModule /\ ~Known(m)'
  BY <1>2 DEF Relaunch, Known
<1>4. \A u \in Ram : ram'[u] = Zero
  <2>1. SUFFICES ASSUME NEW u \in Ram PROVE ram'[u] = Zero
    OBVIOUS
  <2>2. ram'[u] = IF \E m \in Modules : Secondary(m) /\ u \in Units(modules[m].image, modules[m].span)
                  THEN Zero ELSE ram[u]
    BY DEF Relaunch
  <2>3. CASE ram[u] # Zero
    <3>1. ram[u] \in Modules
      BY <2>3 DEF Types
    <3>2. PICK at \in Nat : Written(ram[u], at) /\ u \in Units(at, Span[ram[u]])
      BY <2>3 DEF Table, ThereIsWritten
    <3>3. Known(ram[u]) /\ modules[ram[u]].exports = at
      BY <1>1, <3>2 DEF Written
    <3>4. QED
      BY <1>2, <2>2, <3>1, <3>2, <3>3
  <2>4. QED
    BY <2>2, <2>3
<1>5. Types'
  <2>1. modules' = [m \in Modules |-> NoModule]
    BY <1>3 DEF Relaunch
  <2>2. ram' = [u \in Ram |-> Zero]
    BY <1>4 DEF Relaunch
  <2>3. modules' \in [Modules -> ModuleRecord \union {NoModule}] /\ ram' \in [Ram -> Modules \union {Zero}]
    BY <2>1, <2>2
  <2>4. QED
    BY <1>1, <2>3 DEF Types
<1>6. \A m \in Modules : \A a : ~Owns(m, a)' /\ ~Written(m, a)'
  BY <1>1, <1>3 DEF Owns, Written
<1>7. ModulesFit' /\ MarksAreWhole'
  BY <1>3 DEF ModulesFit, MarksAreWhole
<1>8. LoadsFit' /\ OneLoader' /\ LoadsUnknown' /\ RegisteredKnown'
  BY <1>1 DEF LoadsFit, OneLoader, LoadsUnknown, RegisteredKnown
<1>9. OwnedIsReserved' /\ OwnersApart' /\ WrittenIsThere' /\ ThereIsWritten'
  BY <1>4, <1>6 DEF OwnedIsReserved, OwnersApart, WrittenIsThere, ThereIsWritten
<1>10. QED
  BY <1>5, <1>7, <1>8, <1>9 DEF Table

\* A place chosen, at the linked base or in the region, is inside the memory.
LEMMA PlaceKeeps ==
  ASSUME Types, Table, NEW t \in Threads, PlaceAtPreferred(t) \/ PlaceInRegion(t)
  PROVE  Types' /\ Table'
<1> DEFINE m == load[t].module
<1>1. load[t] \in [pc : {"reading"}, module : Modules]
  BY DEF PlaceAtPreferred, PlaceInRegion, At, Types, LoadRecord, Idle
<1>2. /\ m \in Modules /\ load[t].pc = "reading" /\ ~Known(m) /\ Span[m] \in Nat \ {0}
      /\ UNCHANGED <<modules, ranges, ram, regionNext>>
  BY <1>1, Bounds DEF Table, LoadsUnknown, PlaceAtPreferred, PlaceInRegion, moduleVars
<1>3. \A u \in Threads : u # t /\ load[u].pc # "idle" => load[u].module # m
  BY <1>2 DEF Table, OneLoader
<1>4. CASE \E at \in Nat : InRam(at, Span[m]) /\ Goes(t, [pc |-> "placed", module |-> m, at |-> at])
  <2>1. PICK at \in Nat : InRam(at, Span[m]) /\ load' = [load EXCEPT ![t] = [pc |-> "placed", module |-> m, at |-> at]]
    BY <1>4 DEF Goes
  <2> DEFINE o == [pc |-> "placed", module |-> m, at |-> at]
  <2>2. o \in LoadRecord /\ o.pc = "placed" /\ o.module = m /\ o.at = at
    BY <1>2, <2>1, Bounds DEF LoadRecord
  <2>3. load' = [load EXCEPT ![t] = o]
    BY <2>1
  <2> HIDE DEF o
  <2>4. /\ ~Known(o.module) /\ InRam(o.at, Span[o.module])
        /\ \A u \in Threads : u # t /\ load[u].pc # "idle" => load[u].module # o.module
    BY <1>2, <1>3, <2>1, <2>2
  <2>5. Table'
    BY <1>2, <2>2, <2>3, <2>4, BeforeReserving
  <2>6. QED
    BY <1>2, <2>2, <2>3, <2>5 DEF Types
<1>5. CASE Goes(t, Idle)
  <2>1. Idle \in LoadRecord /\ Idle.pc = "idle" /\ load' = [load EXCEPT ![t] = Idle]
    BY <1>5 DEF LoadRecord, Idle, Goes
  <2>2. Table'
    BY <1>2, <2>1, BeforeReserving
  <2>3. QED
    BY <1>2, <2>1, <2>2 DEF Types
<1>6. PlaceAtPreferred(t) => \E at \in Nat : InRam(at, Span[m]) /\ Goes(t, [pc |-> "placed", module |-> m, at |-> at])
  BY <1>2, Bounds DEF PlaceAtPreferred, ReserveAt, CanReserve, InRam
<1>7. PlaceInRegion(t) =>
        Goes(t, Idle) \/ \E at \in Nat : InRam(at, Span[m]) /\ Goes(t, [pc |-> "placed", module |-> m, at |-> at])
  <2>1. \A c \in Candidates(m) : c \in Nat /\ InRam(c, Span[m])
    <3>1. regionNext \in Nat /\ HeapBase <= regionNext
      BY Bounds DEF Types
    <3>2. QED
      BY <1>2, <3>1, Bounds DEF Candidates, InRam
  <2>2. QED
    BY <2>1 DEF PlaceInRegion
<1>8. QED
  BY <1>4, <1>5, <1>6, <1>7

\* A load begins, or cannot read its file.
LEMMA BeginKeeps ==
  ASSUME Types, Table, NEW t \in Threads, ReadFails(t) \/ \E m \in Modules : XexLoadImage(t, m)
  PROVE  Types' /\ Table'
<1>1. CASE ReadFails(t)
  <2>1. Idle \in LoadRecord /\ Idle.pc = "idle" /\ load' = [load EXCEPT ![t] = Idle] /\ load[t].pc = "reading"
        /\ UNCHANGED <<modules, ranges, ram, regionNext>>
    BY <1>1 DEF LoadRecord, Idle, Goes, ReadFails, At, moduleVars
  <2>2. Table'
    BY <2>1, BeforeReserving
  <2>3. QED
    BY <2>1, <2>2 DEF Types
<1>2. ASSUME NEW m \in Modules, XexLoadImage(t, m)
      PROVE  Types' /\ Table'
  <2> DEFINE o == [pc |-> "reading", module |-> m]
  <2>1. /\ o \in LoadRecord /\ o.pc = "reading" /\ o.module = m
        /\ load' = [load EXCEPT ![t] = o] /\ load[t].pc = "idle" /\ ~Known(m)
        /\ UNCHANGED <<modules, ranges, ram, regionNext>>
    BY <1>2 DEF LoadRecord, Goes, XexLoadImage, At, moduleVars, Known
  <2>2. \A u \in Threads : u # t /\ load[u].pc # "idle" => load[u].module # m
    BY <1>2 DEF XexLoadImage, Idle
  <2> HIDE DEF o
  <2>3. Table'
    BY <2>1, <2>2, BeforeReserving
  <2>4. QED
    BY <2>1, <2>3 DEF Types
<1>3. QED
  BY <1>1, <1>2

----------------------------------------------------------------------------
(* The whole specification *)

LEMMA InitIInv == Init => IInv
<1>1. SUFFICES ASSUME Init PROVE IInv
  OBVIOUS
<1>2. Heap
  BY <1>1, EmptyPool DEF Init, HeapInit, Heap
<1>3. \A t \in Threads : load[t] = Idle /\ load[t].pc = "idle"
  BY <1>1 DEF Init, Idle
<1>4. \A m \in Modules : modules[m] = NoModule /\ ~Known(m)
  BY <1>1 DEF Init, Known
<1>5. Types
  <2>1. load \in [Threads -> LoadRecord]
    BY <1>1 DEF Init, LoadRecord
  <2>2. modules \in [Modules -> ModuleRecord \union {NoModule}]
    BY <1>1 DEF Init
  <2>3. ram \in [Ram -> Modules \union {Zero}]
    BY <1>1 DEF Init
  <2>4. ranges = {} /\ regionNext \in HeapBase..RegionEnd
    BY <1>1, Bounds DEF Init
  <2>5. QED
    BY <2>1, <2>2, <2>3, <2>4 DEF Types
<1>6. \A m \in Modules : \A a : ~Owns(m, a) /\ ~Written(m, a)
  BY <1>3, <1>4 DEF Owns, Written
<1>7. ModulesFit /\ MarksAreWhole
  BY <1>4 DEF ModulesFit, MarksAreWhole
<1>8. LoadsFit /\ OneLoader /\ LoadsUnknown /\ RegisteredKnown
  BY <1>3 DEF LoadsFit, OneLoader, LoadsUnknown, RegisteredKnown
<1>9. OwnedIsReserved /\ OwnersApart /\ WrittenIsThere /\ ThereIsWritten
  BY <1>1, <1>6 DEF Init, OwnedIsReserved, OwnersApart, WrittenIsThere, ThereIsWritten
<1>10. QED
  BY <1>2, <1>5, <1>7, <1>8, <1>9 DEF IInv, Table

\* What the pool does changes no module, and what a load does changes the pool only by a
\* fixed reservation.
LEMMA NextIInv == IInv /\ [Next]_vars => IInv'
<1> SUFFICES ASSUME IInv, [Next]_vars PROVE IInv'
  OBVIOUS
<1>1. Heap /\ Types /\ Table
  BY DEF IInv
<1>2. UNCHANGED <<moduleVars, load>> => Types' /\ Table'
  <2>1. ASSUME UNCHANGED <<moduleVars, load>> PROVE Types' /\ Table'
    <3>1. UNCHANGED <<modules, ranges, regionNext, ram, load>>
      BY <2>1 DEF moduleVars
    <3>2. \A m, a : /\ Known(m)' <=> Known(m)
                    /\ Owns(m, a)' <=> Owns(m, a)
                    /\ Written(m, a)' <=> Written(m, a)
      BY <3>1 DEF Known, Owns, Written
    <3>3. Types' /\ ModulesFit' /\ LoadsFit' /\ OneLoader' /\ LoadsUnknown' /\ RegisteredKnown'
      BY <1>1, <3>1, <3>2 DEF Types, Table, ModulesFit, LoadsFit, OneLoader, LoadsUnknown,
         RegisteredKnown, InRam
    <3>4. MarksAreWhole' /\ OwnedIsReserved' /\ OwnersApart' /\ WrittenIsThere' /\ ThereIsWritten'
      BY <1>1, <3>1, <3>2 DEF Table, MarksAreWhole, OwnedIsReserved, OwnersApart, WrittenIsThere,
         ThereIsWritten
    <3>5. QED
      BY <3>3, <3>4 DEF Table
  <2>2. QED
    BY <2>1
<1>3. UNCHANGED <<heapVars, reserved>> => Heap'
  BY <1>1 DEF heapVars, Heap
<1>4. CASE AllocatePool
  <2>1. PICK s \in Sizes, n \in Aligns : AllocFromRange(s, n) \/ AllocAtCursor(s, n)
    BY <1>4 DEF AllocatePool, Alloc
  <2>2. s \in Nat \ {0} /\ n \in Nat \ {0} /\ reserved' = reserved
    BY <1>4, ModulesAssumption DEF AllocatePool
  <2>3. Heap'
    BY <1>1, <2>1, <2>2, AllocFromRangeKeeps, AllocAtCursorKeeps DEF Heap
  <2>4. QED
    BY <1>2, <1>4, <2>3 DEF AllocatePool, IInv
<1>5. CASE FreePool
  <2>1. PICK a \in Addrs : Free(a)
    BY <1>5 DEF FreePool
  <2>2. Heap'
    BY <1>1, <1>5, <2>1, FreeKeeps DEF Heap, FreePool
  <2>3. QED
    BY <1>2, <1>5, <2>2 DEF FreePool, IInv
<1>6. ASSUME NEW t \in Threads, LoadStep(t) PROVE IInv'
  <2>1. CASE \E m \in Modules : XexLoadImage(t, m)
    BY <1>1, <1>3, <2>1, BeginKeeps DEF XexLoadImage, IInv
  <2>2. CASE ReadFails(t)
    BY <1>1, <1>3, <2>2, BeginKeeps DEF ReadFails, IInv
  <2>3. CASE PlaceAtPreferred(t)
    <3>1. load[t].module \in Modules
      BY <1>1, <2>3 DEF PlaceAtPreferred, At, Types, LoadRecord, Idle
    <3>2. Preferred[load[t].module] \in Nat /\ Span[load[t].module] \in Nat \ {0}
      BY <3>1, Bounds
    <3>3. ReserveAt(Preferred[load[t].module], Span[load[t].module]) /\ reserved' = TRUE
      BY <2>3 DEF PlaceAtPreferred
    <3>4. HeapTypes(nextFree', freeRanges', blocks')
      BY <1>1, <3>2, <3>3, ReserveAtKeepsTypes DEF Heap
    <3>5. Heap'
      BY <3>3, <3>4 DEF Heap
    <3>6. QED
      BY <1>1, <2>3, <3>5, PlaceKeeps DEF IInv
  <2>4. CASE PlaceInRegion(t)
    BY <1>1, <1>3, <2>4, PlaceKeeps DEF PlaceInRegion, IInv
  <2>5. CASE ReserveModuleRange(t)
    BY <1>1, <1>3, <2>5, ReserveKeeps DEF ReserveModuleRange, IInv
  <2>6. CASE CopyImage(t)
    BY <1>1, <1>3, <2>6, CopyKeeps DEF CopyImage, IInv
  <2>7. CASE RegisterModule(t)
    BY <1>1, <1>3, <2>7, RegisterKeeps DEF RegisterModule, IInv
  <2>8. CASE MarkModuleSecondary(t)
    BY <1>1, <1>3, <2>8, MarkKeeps DEF MarkModuleSecondary, IInv
  <2>9. QED
    BY <1>6, <2>1, <2>2, <2>3, <2>4, <2>5, <2>6, <2>7, <2>8 DEF LoadStep
<1>7. CASE Relaunch
  <2>1. Heap'
    BY <1>7, EmptyPool DEF Relaunch, HeapReset, Heap
  <2>2. QED
    BY <1>1, <1>7, <2>1, RelaunchKeeps DEF IInv
<1>8. CASE UNCHANGED vars
  BY <1>2, <1>3, <1>8 DEF vars, IInv
<1>9. QED
  BY <1>4, <1>5, <1>6, <1>7, <1>8 DEF Next

\* The inductive invariant holds of every behaviour.
THEOREM Invariance == Spec => []IInv
BY InitIInv, NextIInv, PTL DEF Spec

\* The variables keep their types, and nothing of the pool reaches beyond its end.
THEOREM TypeCorrect == Spec => []TypeOK
<1> DEFINE Boots == boots \in 1..MaxBoots
           Reserved == reserved \in BOOLEAN
<1>1. MaxBoots \in Nat \ {0}
  BY ModulesAssumption
<1>2. Init => Boots /\ Reserved
  <2>1. Init => Boots
    BY <1>1 DEF Init
  <2>2. Init => Reserved
    BY Zenon DEF Init
  <2>3. QED
    BY <2>1, <2>2
<1>3. Boots /\ Reserved /\ [Next]_vars => Boots' /\ Reserved'
  <2> SUFFICES ASSUME Boots, Reserved, [Next]_vars PROVE Boots' /\ Reserved'
    OBVIOUS
  <2>1. CASE Relaunch
    <3>1. boots' = boots + 1 /\ boots < MaxBoots
      BY <2>1 DEF Relaunch
    <3>2. Reserved'
      BY <2>1, Zenon DEF Relaunch
    <3>3. QED
      BY <1>1, <3>1, <3>2
  <2>2. CASE AllocatePool \/ FreePool
    BY <2>2 DEF AllocatePool, FreePool
  <2>3. ASSUME NEW t \in Threads, LoadStep(t) PROVE Boots' /\ Reserved'
    <3>1. CASE PlaceAtPreferred(t)
      BY <3>1, Zenon DEF PlaceAtPreferred
    <3>2. CASE ~PlaceAtPreferred(t)
      BY <2>3, <3>2 DEF LoadStep, XexLoadImage, ReadFails, PlaceInRegion, ReserveModuleRange,
         CopyImage, RegisterModule, MarkModuleSecondary
    <3>3. QED
      BY <3>1, <3>2
  <2>4. CASE UNCHANGED vars
    BY <2>4 DEF vars
  <2>5. QED
    BY <2>1, <2>2, <2>3, <2>4 DEF Next
<1>4. IInv /\ Boots /\ Reserved => TypeOK
  BY DEF IInv, Heap, HeapTypes, Types, TypeOK
<1>5. QED
  BY <1>2, <1>3, <1>4, Invariance, PTL DEF Spec

\* ExAllocatePool gives what nobody has, as long as no module is reserved inside the pool.
THEOREM PoolExclusive == Spec => []PoolIsExclusive
<1>1. IInv => PoolIsExclusive
  <2> SUFFICES ASSUME IInv, ~reserved PROVE PoolIsExclusive
    BY DEF PoolIsExclusive
  <2>1. HeapTypes(nextFree, freeRanges, blocks) /\ Exclusive(nextFree, freeRanges, blocks)
    BY DEF IInv, Heap
  <2>2. nextFree \in Nat /\ \A a \in Addrs : a \in Nat /\ freeRanges[a] \in Nat /\ blocks[a] \in Nat
    BY <2>1, Bounds DEF HeapTypes, Addrs
  <2>3. Disjoint(Blocks)
    BY <2>1, <2>2 DEF Disjoint, Blocks, Overlap, Exclusive, BlocksApart
  <2>4. Disjoint(FreeOnes)
    BY <2>1, <2>2 DEF Disjoint, FreeOnes, Overlap, Exclusive, FreeApart
  <2>5. \A b \in Blocks, f \in FreeOnes : ~Overlap(b.at, b.size, f.at, f.size)
    BY <2>1, <2>2 DEF FreeOnes, Blocks, Overlap, Exclusive, FreeOrUsed
  <2>6. \A r \in Blocks \union FreeOnes : r.at + r.size <= nextFree
    BY <2>1, <2>2 DEF FreeOnes, Blocks, Exclusive, BelowCursor
  <2>7. QED
    BY <2>3, <2>4, <2>5, <2>6 DEF PoolIsExclusive
<1>2. QED
  BY <1>1, Invariance, PTL

\* GuestHeap::free joins neighbours: no two free ranges touch.
THEOREM FreeMaximal == Spec => []FreeRangesAreMaximal
<1>1. IInv => FreeRangesAreMaximal
  <2> SUFFICES ASSUME IInv, ~reserved PROVE FreeRangesAreMaximal
    BY DEF FreeRangesAreMaximal
  <2>1. HeapTypes(nextFree, freeRanges, blocks) /\ Exclusive(nextFree, freeRanges, blocks)
    BY DEF IInv, Heap
  <2>2. \A a \in Addrs : a \in Nat /\ freeRanges[a] \in Nat
    BY <2>1, Bounds DEF HeapTypes, Addrs
  <2>3. QED
    BY <2>1, <2>2 DEF FreeRangesAreMaximal, FreeOnes, Exclusive, FreeApart
<1>2. QED
  BY <1>1, Invariance, PTL

\* A module that can be found by name has its whole image in memory, whoever else is loading.
THEOREM FoundWhole == Spec => []FoundIsWhole
<1>1. IInv => FoundIsWhole
  <2> SUFFICES ASSUME IInv, NEW m \in Modules, Known(m) PROVE \A u \in Units(modules[m].exports, Span[m]) : ram[u] = m
    BY DEF FoundIsWhole, Known
  <2>1. modules[m].exports \in Nat /\ Written(m, modules[m].exports)
    BY DEF IInv, Table, ModulesFit, InRam, Written
  <2>2. QED
    BY <2>1 DEF IInv, Table, WrittenIsThere
<1>2. QED
  BY <1>1, Invariance, PTL

\* No image outlives its title: memory that no module and no load covers is zero.
THEOREM OldImagesZeroed == Spec => []OldImagesAreZeroed
<1>1. IInv => OldImagesAreZeroed
  BY DEF IInv, Table, ThereIsWritten, Written, OldImagesAreZeroed, Known, At
<1>2. QED
  BY <1>1, Invariance, PTL
=============================================================================
