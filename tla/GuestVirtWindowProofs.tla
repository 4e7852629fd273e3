------------------------ MODULE GuestVirtWindowProofs ------------------------
(***************************************************************************)
(* Theorems of GuestVirtWindow, for a guest that asks for fixed addresses  *)
(* only below the cursor.                                                  *)
(*                                                                         *)
(* The inductive invariant is TypeOK together with PagesAccounted: that    *)
(* two blocks share no page is not inductive alone, because alloc looks at *)
(* the free ranges and at the cursor and never at the blocks.  "Accounted" *)
(* is the same invariant with its quantifiers over pages.                  *)
(***************************************************************************)
EXTENDS GuestVirtWindow, WellFoundedInduction, TLAPS

\* (a + align - 1) & ~(align - 1) never goes below a.
LEMMA AlignUpNotBelow ==
  ASSUME NEW a \in Nat, NEW align \in Nat \ {0}
  PROVE  AlignUp(a, align) \in Nat /\ a <= AlignUp(a, align)
BY DEF AlignUp

Typed(b, f, c) == b \in [Pages -> 0..Size] /\ f \in [Pages -> 0..Size] /\ c \in 0..Size
Apart(f) == \A x, y \in Pages : f[x] > 0 /\ f[y] > 0 /\ x < y => x + f[x] <= y
Outside(b, f) ==
  \A x, y \in Pages : b[x] > 0 /\ f[y] > 0 => x + b[x] <= y \/ y + f[y] <= x
Under(f, c) == \A x \in Pages : f[x] > 0 => x + f[x] <= c
In(f, p) == \E x \in Pages : f[x] > 0 /\ x <= p /\ p < x + f[x]
Full(b, f, c) == \A p \in Pages : p < c => In(b, p) \/ In(f, p)

Accounted(b, f, c) ==
  /\ Typed(b, f, c) /\ Apart(b) /\ Apart(f) /\ Outside(b, f) /\ Under(b, c) /\ Under(f, c)
  /\ Full(b, f, c)

Inv == TypeOK /\ PagesAccounted

USE WindowAssumption

LEMMA InvMeans == Inv <=> Accounted(blocks, free, cursor)
<1>1. \A p : Held(blocks, p) <=> In(blocks, p)  BY DEF Held, Holds, End, Keys, In
<1>2. \A p : Held(free, p) <=> In(free, p)  BY DEF Held, Holds, End, Keys, In
<1>3. NoPageLost <=> Full(blocks, free, cursor)  BY <1>1, <1>2 DEF NoPageLost, Full
<1>4. TypeOK <=> Typed(blocks, free, cursor)  BY DEF TypeOK, Typed
<1>5. NoPageTwice <=> Apart(blocks)  BY DEF NoPageTwice, Apart, Keys, End
<1>6. FreeDisjoint <=> Apart(free)  BY DEF FreeDisjoint, Apart, Keys, End
<1>7. FreeOutsideBlocks <=> Outside(blocks, free)  BY DEF FreeOutsideBlocks, Outside, Keys, End
<1>8. NothingAboveCursor <=> Under(blocks, cursor) /\ Under(free, cursor)
  BY DEF NothingAboveCursor, Under, Keys, End
<1> QED BY <1>3, <1>4, <1>5, <1>6, <1>7, <1>8 DEF Inv, PagesAccounted, Accounted

LEMMA InitInv == Init => Inv
BY InvMeans DEF Init, Accounted, Typed, Apart, Outside, Under, In, Full, Empty, Pages

Acc == Accounted(blocks, free, cursor)

LEMMA InvMeansNext == Accounted(blocks', free', cursor') => Inv'
<1>1. Inv <=> Acc  BY InvMeans DEF Acc
<1>2. Inv' <=> Acc'  BY <1>1, PTL
<1> QED BY <1>2 DEF Acc

-----------------------------------------------------------------------------
(* What the four ways of moving pages between the structures preserve. *)

\* First fit: a block is cut out of a free range.
LEMMA SplitKeeps ==
  ASSUME Accounted(blocks, free, cursor),
         NEW r \in Pages, NEW at \in Nat, NEW n \in Nat, n > 0,
         free[r] > 0, r <= at, at + n <= r + free[r], 
         blocks' = [blocks EXCEPT ![at] = n],
         free' = [p \in Pages |->
                    CASE p = at + n /\ at + n < End(free, r) -> End(free, r) - (at + n)
                      [] p = r -> at - r
                      [] OTHER -> free[p]]
  PROVE  Accounted(blocks', free', cursor)
<1>1. /\ Typed(blocks, free, cursor)
      /\ Apart(blocks) /\ Apart(free) /\ Outside(blocks, free)
      /\ Under(blocks, cursor) /\ Under(free, cursor)
      /\ Full(blocks, free, cursor)
  BY DEF Accounted
<1> DEFINE e == r + free[r]
<1>2. /\ r \in Nat /\ free[r] \in Nat /\ e \in Nat /\ cursor \in Nat
      /\ e <= cursor /\ cursor <= Size
  BY <1>1 DEF Typed, Under, Pages
<1>3. at \in Pages  BY <1>2 DEF Pages
<1>4. \A p \in Pages : blocks[p] \in Nat /\ free[p] \in Nat /\ p \in Nat
  BY <1>1 DEF Typed, Pages
<1>5. \A p \in Pages : blocks'[p] = IF p = at THEN n ELSE blocks[p]  BY <1>1, <1>3 DEF Typed
<1>6. \A p \in Pages : free'[p] = IF p = at + n /\ at + n < e THEN e - (at + n)
                               ELSE IF p = r THEN at - r ELSE free[p]
  BY <1>2, <1>3, <1>4 DEF e, End
<1> HIDE DEF e
<1>7. blocks[at] = 0  BY <1>1, <1>2, <1>3, <1>4 DEF Outside, e
<1>8. Typed(blocks', free', cursor)
  <2>1. blocks' \in [Pages -> 0..Size]  BY <1>1, <1>2, <1>3 DEF Typed, e
  <2>2. \A p \in Pages : free'[p] \in 0..Size
    <3> SUFFICES ASSUME NEW p \in Pages PROVE free'[p] \in 0..Size  OBVIOUS
    <3>1. free[p] \in 0..Size /\ at - r \in 0..Size
      BY <1>1, <1>2, <1>3 DEF Typed, Pages
    <3>2. at + n < e => e - (at + n) \in 0..Size
      BY <1>2, <1>3 DEF Pages
    <3> QED BY <3>1, <3>2, <1>6
  <2>3. free' \in [Pages -> 0..Size]  BY <2>2
  <2> QED BY <2>1, <2>3, <1>1 DEF Typed
<1>9. Apart(blocks')
  BY <1>1, <1>2, <1>3, <1>4, <1>5 DEF Apart, Outside, e
<1>10. Apart(free')
  BY <1>1, <1>2, <1>3, <1>4, <1>6 DEF Apart, e
<1>11. Outside(blocks', free')
  BY <1>1, <1>2, <1>3, <1>4, <1>5, <1>6 DEF Apart, Outside, e
<1>12. Under(blocks', cursor) /\ Under(free', cursor)
  BY <1>1, <1>2, <1>3, <1>4, <1>5, <1>6 DEF Under, e
<1>13. Full(blocks', free', cursor)
  <2> SUFFICES ASSUME NEW p \in Pages, p < cursor  PROVE In(blocks', p) \/ In(free', p)
    BY DEF Full
  <2>1. CASE In(blocks, p)
    BY <2>1, <1>5, <1>7 DEF In
  <2>2. CASE In(free, p)
    <3>1. PICK q \in Pages : free[q] > 0 /\ q <= p /\ p < q + free[q]
      BY <2>2 DEF In
    <3>2. CASE q # r
      <4>1. ~(q = at + n /\ at + n < e)
        BY <3>1, <3>2, <1>1, <1>2, <1>4 DEF Apart, e
      <4>2. free'[q] = free[q]  BY <4>1, <3>2, <1>6
      <4> QED BY <4>2, <3>1 DEF In
    <3>3. CASE q = r /\ p < at
      <4>1. free'[r] = at - r  BY <1>2, <1>6
      <4> QED BY <4>1, <3>1, <3>3, <1>2, <1>4 DEF In
    <3>4. CASE q = r /\ at <= p /\ p < at + n
      BY <3>4, <1>3, <1>5 DEF In
    <3>5. CASE q = r /\ at + n <= p
      <4>1. at + n \in Pages /\ at + n < e
        BY <3>1, <3>5, <1>4 DEF Pages, e
      <4>2. free'[at + n] = e - (at + n)  BY <4>1, <1>6
      <4> QED BY <4>1, <4>2, <3>1, <3>5, <1>2, <1>4 DEF In, e
    <3> QED BY <3>1, <3>2, <3>3, <3>4, <3>5, <1>4
  <2> QED BY <2>1, <2>2, <1>1 DEF Full
<1> QED BY <1>1, <1>8, <1>9, <1>10, <1>11, <1>12, <1>13 DEF Accounted

\* The cursor moves over the skipped pages, which become free, and the block.
LEMMA BumpKeeps ==
  ASSUME Accounted(blocks, free, cursor),
         NEW at \in Nat, NEW n \in Nat, n > 0, cursor <= at, at + n <= Size,
         blocks' = [blocks EXCEPT ![at] = n],
         free' = IF at > cursor THEN [free EXCEPT ![cursor] = at - cursor] ELSE free
  PROVE  Accounted(blocks', free', at + n)
<1>1. /\ Typed(blocks, free, cursor)
      /\ Apart(blocks) /\ Apart(free) /\ Outside(blocks, free)
      /\ Under(blocks, cursor) /\ Under(free, cursor)
      /\ Full(blocks, free, cursor)
  BY DEF Accounted
<1>2. cursor \in Nat /\ at \in Pages /\ (at > cursor => cursor \in Pages)
  BY <1>1 DEF Typed, Pages
<1>3. \A p \in Pages : blocks[p] \in 0..Size /\ free[p] \in 0..Size /\ p \in Nat
  BY <1>1 DEF Typed, Pages
<1>4. \A p \in Pages : blocks'[p] = IF p = at THEN n ELSE blocks[p]  BY <1>1, <1>2 DEF Typed
<1>5. \A p \in Pages : free'[p] = IF p = cursor /\ at > cursor THEN at - cursor ELSE free[p]
  BY <1>1, <1>2 DEF Typed
<1>6. blocks[at] = 0 /\ (cursor \in Pages => free[cursor] = 0)  BY <1>1, <1>2, <1>3 DEF Under
<1>7. Typed(blocks', free', at + n)
  <2>1. blocks' \in [Pages -> 0..Size]  BY <1>1, <1>2 DEF Typed
  <2>2. free' \in [Pages -> 0..Size]  BY <1>1, <1>2 DEF Typed
  <2> QED BY <2>1, <2>2 DEF Typed
<1>8. Apart(blocks')  BY <1>1, <1>2, <1>3, <1>4 DEF Apart, Under
<1>9. Apart(free')  BY <1>1, <1>2, <1>3, <1>5 DEF Apart, Under
<1>10. Outside(blocks', free')  BY <1>1, <1>2, <1>3, <1>4, <1>5 DEF Outside, Under
<1>11. Under(blocks', at + n) /\ Under(free', at + n)
  BY <1>1, <1>2, <1>3, <1>4, <1>5 DEF Under
<1>12. Full(blocks', free', at + n)
  <2> SUFFICES ASSUME NEW p \in Pages, p < at + n  PROVE In(blocks', p) \/ In(free', p)
    BY DEF Full
  <2>1. CASE In(blocks, p)  BY <2>1, <1>4, <1>6 DEF In
  <2>2. CASE In(free, p)
    <3>1. PICK q \in Pages : free[q] > 0 /\ q <= p /\ p < q + free[q]  BY <2>2 DEF In
    <3>2. free'[q] = free[q]  BY <3>1, <1>5, <1>6
    <3> QED BY <3>1, <3>2 DEF In
  <2>3. CASE cursor <= p /\ p < at
    <3>1. cursor \in Pages /\ at > cursor /\ free'[cursor] = at - cursor
      BY <2>3, <1>2, <1>3, <1>5
    <3> QED BY <3>1, <2>3, <1>2, <1>3 DEF In
  <2>4. CASE at <= p  BY <2>4, <1>2, <1>4 DEF In
  <2> QED BY <2>1, <2>2, <2>3, <2>4, <1>1, <1>2, <1>3 DEF Full
<1> QED BY <1>7, <1>8, <1>9, <1>10, <1>11, <1>12 DEF Accounted

\* A fixed block: the free ranges it overlaps keep what is before and after it.
LEMMA TrimKeeps ==
  ASSUME Accounted(blocks, free, cursor),
         NEW a \in Pages, NEW n \in Nat, n > 0, a + n <= cursor,
         \A x \in Pages : blocks[x] > 0 => x + blocks[x] <= a \/ a + n <= x,
         blocks' = [blocks EXCEPT ![a] = n],
         free' \in [Pages -> Int],
         \A p \in Pages :
           /\ p < a /\ free[p] > 0 /\ p + free[p] > a => free'[p] = a - p
           /\ p < a /\ (free[p] = 0 \/ p + free[p] <= a) => free'[p] = free[p]
           /\ p >= a /\ p < a + n => free'[p] = 0
           /\ p > a + n => free'[p] = free[p],
         a + n \in Pages =>
           /\ \A r \in Pages : free[r] > 0 /\ r < a + n /\ r + free[r] > a + n =>
                free'[a + n] = r + free[r] - (a + n)
           /\ (\A r \in Pages : free[r] > 0 /\ r < a + n => r + free[r] <= a + n) =>
                free'[a + n] = free[a + n]
  PROVE  Accounted(blocks', free', cursor)
<1>1. /\ Typed(blocks, free, cursor)
      /\ Apart(blocks) /\ Apart(free) /\ Outside(blocks, free)
      /\ Under(blocks, cursor) /\ Under(free, cursor)
      /\ Full(blocks, free, cursor)
  BY DEF Accounted
<1>2. cursor \in Nat /\ cursor <= Size /\ a \in Nat /\ a + n \in Nat  BY <1>1 DEF Typed, Pages
<1>3. \A p \in Pages : blocks[p] \in 0..Size /\ free[p] \in 0..Size /\ p \in Nat
  BY <1>1 DEF Typed, Pages
<1>4. \A p \in Pages : blocks'[p] = IF p = a THEN n ELSE blocks[p]  BY <1>1, <1>2 DEF Typed
<1> DEFINE Kept(p) == free'[p] = free[p]
           Head(p) == p < a /\ free[p] > 0 /\ p + free[p] > a /\ free'[p] = a - p
           Tail(p) == /\ p = a + n
                      /\ \E r \in Pages : /\ free[r] > 0 /\ r < a + n /\ r + free[r] > a + n
                                          /\ free'[p] = r + free[r] - (a + n)
\* A range of free' is a range of free that misses the block, or the head or the tail of one
\* that the block cuts.
<1>5. ASSUME NEW p \in Pages, free'[p] > 0
      PROVE  \/ Kept(p) /\ (p + free[p] <= a \/ a + n <= p)
             \/ Head(p)
             \/ Tail(p)
  BY <1>2, <1>3, <1>5
<1>6. ASSUME NEW p \in Pages, free'[p] > 0
      PROVE  \E r \in Pages : /\ free[r] > 0 /\ r <= p /\ p + free'[p] <= r + free[r]
                              /\ p + free'[p] <= a \/ a + n <= p
                              /\ r # p => p = a + n
  BY <1>2, <1>3, <1>5, <1>6
<1> HIDE DEF Kept, Head, Tail
<1>7. Typed(blocks', free', cursor)
  <2>1. blocks' \in [Pages -> 0..Size]  BY <1>1, <1>2 DEF Typed
  <2>2. ASSUME NEW p \in Pages  PROVE free'[p] \in 0..Size
    <3>1. CASE free'[p] > 0
      BY <3>1, <1>6, <1>1, <1>2, <1>3 DEF Under
    <3>2. CASE free'[p] <= 0
      BY <3>2, <1>1, <1>2, <1>3
    <3> QED BY <3>1, <3>2
  <2> QED BY <2>1, <2>2, <1>1 DEF Typed
<1>8. Apart(blocks')  BY <1>1, <1>2, <1>3, <1>4 DEF Apart
<1>9. Apart(free')
  <2> SUFFICES ASSUME NEW x \in Pages, NEW y \in Pages, free'[x] > 0, free'[y] > 0, x < y
               PROVE  x + free'[x] <= y
    BY DEF Apart
  <2>1. PICK r \in Pages : /\ free[r] > 0 /\ r <= x /\ x + free'[x] <= r + free[r]
                           /\ x + free'[x] <= a \/ a + n <= x
                           /\ r # x => x = a + n
    BY <1>6
  <2>2. PICK q \in Pages : /\ free[q] > 0 /\ q <= y /\ y + free'[y] <= q + free[q]
                           /\ y + free'[y] <= a \/ a + n <= y
                           /\ q # y => y = a + n
    BY <1>6
  <2>3. CASE r # q
    BY <2>1, <2>2, <2>3, <1>1, <1>2, <1>3 DEF Apart
  <2>4. CASE r = q
    BY <2>1, <2>2, <2>4, <1>1, <1>2, <1>3
  <2> QED BY <2>3, <2>4
<1>10. Outside(blocks', free')
  <2> SUFFICES ASSUME NEW x \in Pages, NEW y \in Pages, blocks'[x] > 0, free'[y] > 0
               PROVE  x + blocks'[x] <= y \/ y + free'[y] <= x
    BY DEF Outside
  <2>1. PICK r \in Pages : /\ free[r] > 0 /\ r <= y /\ y + free'[y] <= r + free[r]
                           /\ y + free'[y] <= a \/ a + n <= y
    BY <1>6
  <2> QED BY <2>1, <1>1, <1>2, <1>3, <1>4 DEF Outside
<1>11. Under(blocks', cursor) /\ Under(free', cursor)
  <2>1. Under(blocks', cursor)  BY <1>1, <1>2, <1>3, <1>4 DEF Under
  <2>2. ASSUME NEW p \in Pages, free'[p] > 0  PROVE p + free'[p] <= cursor
    BY <2>2, <1>6, <1>1, <1>2, <1>3 DEF Under
  <2> QED BY <2>1, <2>2 DEF Under
<1>12. Full(blocks', free', cursor)
  <2> SUFFICES ASSUME NEW p \in Pages, p < cursor  PROVE In(blocks', p) \/ In(free', p)
    BY DEF Full
  <2>1. CASE In(blocks, p)  BY <2>1, <1>2, <1>3, <1>4 DEF In
  <2>2. CASE a <= p /\ p < a + n  BY <2>2, <1>4 DEF In
  <2>3. CASE In(free, p) /\ ~(a <= p /\ p < a + n)
    <3>1. PICK q \in Pages : free[q] > 0 /\ q <= p /\ p < q + free[q]  BY <2>3 DEF In
    <3>2. CASE p < a
      <4>1. free'[q] = a - q \/ free'[q] = free[q]  BY <3>1, <3>2, <1>2, <1>3
      <4> QED BY <4>1, <3>1, <3>2, <1>2, <1>3 DEF In
    <3>3. CASE a + n <= p /\ q < a + n
      <4>1. a + n \in Pages  BY <3>3, <1>2, <1>3 DEF Pages
      <4>2. free'[a + n] = q + free[q] - (a + n)  BY <4>1, <3>1, <3>3, <1>2, <1>3
      <4> QED BY <4>1, <4>2, <3>1, <3>3, <1>2, <1>3 DEF In
    <3>4. CASE a + n <= p /\ q >= a + n
      <4>1. free'[q] = free[q]
        BY <3>1, <3>4, <1>1, <1>2, <1>3 DEF Apart
      <4> QED BY <4>1, <3>1 DEF In
    <3> QED BY <3>2, <3>3, <3>4, <2>3, <1>2, <1>3
  <2> QED BY <2>1, <2>2, <2>3, <1>1 DEF Full
<1> QED BY <1>7, <1>8, <1>9, <1>10, <1>11, <1>12 DEF Accounted

\* Where the range ends that a free of a makes.
JoinedEnd(a) ==
  a + blocks[a] + (IF a + blocks[a] \in Pages THEN free[a + blocks[a]] ELSE 0)

\* start is a, or the start of the free range that ends at a.
LEMMA JoinKeeps ==
  ASSUME Accounted(blocks, free, cursor),
         NEW a \in Pages, blocks[a] > 0,
         NEW start \in Pages,
         start = a \/ (start < a /\ free[start] > 0 /\ start + free[start] = a),
         blocks' = [blocks EXCEPT ![a] = 0],
         free' \in [Pages -> Int],
         \A p \in Pages :
           /\ p = start => free'[p] = JoinedEnd(a) - start
           /\ p = a + blocks[a] /\ JoinedEnd(a) > a + blocks[a] => free'[p] = 0
           /\ p # start /\ (p = a + blocks[a] => JoinedEnd(a) = a + blocks[a]) =>
                free'[p] = free[p]
  PROVE  Accounted(blocks', free', cursor)
<1>1. /\ Typed(blocks, free, cursor)
      /\ Apart(blocks) /\ Apart(free) /\ Outside(blocks, free)
      /\ Under(blocks, cursor) /\ Under(free, cursor)
      /\ Full(blocks, free, cursor)
  BY DEF Accounted
<1>2. cursor \in Nat /\ cursor <= Size /\ a \in Nat /\ start \in Nat  BY <1>1 DEF Typed, Pages
<1>3. \A p \in Pages : blocks[p] \in 0..Size /\ free[p] \in 0..Size /\ p \in Nat
  BY <1>1 DEF Typed, Pages
<1>4. \A p \in Pages : blocks'[p] = IF p = a THEN 0 ELSE blocks[p]  BY <1>1, <1>2 DEF Typed
<1> DEFINE stop == JoinedEnd(a)
<1> stop \in Nat /\ (stop = a + blocks[a] \/
      (a + blocks[a] \in Pages /\ free[a + blocks[a]] > 0 /\
       stop = a + blocks[a] + free[a + blocks[a]]))
  BY <1>2, <1>3 DEF JoinedEnd
<1> \A p \in Pages :
      /\ p = start => free'[p] = stop - start
      /\ p = a + blocks[a] /\ stop > a + blocks[a] => free'[p] = 0
      /\ p # start /\ (p = a + blocks[a] => stop = a + blocks[a]) => free'[p] = free[p]
  OBVIOUS
<1> HIDE DEF stop
<1>5. start <= a /\ a + blocks[a] <= stop /\ stop <= cursor
  BY <1>1, <1>2, <1>3 DEF Under
\* What is free now was free, or is the joined range.
<1>6. \A p \in Pages : free'[p] > 0 => p = start \/ (free'[p] = free[p] /\ free[p] > 0)
  BY <1>2, <1>3
<1>7. free'[start] = stop - start /\ free'[start] > 0  BY <1>2, <1>3, <1>5
<1>8. \A p \in Pages : free'[p] > 0 /\ p # start => p + free[p] <= start \/ stop <= p
  BY <1>1, <1>2, <1>3, <1>5, <1>6 DEF Apart, Outside
<1>9. Typed(blocks', free', cursor)
  <2>1. blocks' \in [Pages -> 0..Size]  BY <1>1, <1>2 DEF Typed
  <2>2. \A p \in Pages : free'[p] \in 0..Size
    BY <1>2, <1>3, <1>5, <1>7
  <2> QED BY <2>1, <2>2, <1>1 DEF Typed
<1>10. Apart(blocks')  BY <1>1, <1>2, <1>3, <1>4 DEF Apart
<1>11. Apart(free')  BY <1>1, <1>2, <1>3, <1>6, <1>7, <1>8 DEF Apart
<1>12. Outside(blocks', free')
  BY <1>1, <1>2, <1>3, <1>4, <1>5, <1>6, <1>7 DEF Apart, Outside
<1>13. Under(blocks', cursor) /\ Under(free', cursor)
  BY <1>1, <1>2, <1>3, <1>4, <1>5, <1>6, <1>7 DEF Under
<1>14. Full(blocks', free', cursor)
  <2> SUFFICES ASSUME NEW p \in Pages, p < cursor  PROVE In(blocks', p) \/ In(free', p)
    BY DEF Full
  <2>1. CASE start <= p /\ p < stop  BY <2>1, <1>2, <1>3, <1>5, <1>7 DEF In
  <2>2. CASE ~(start <= p /\ p < stop) /\ In(blocks, p)
    BY <2>2, <1>2, <1>3, <1>4, <1>5 DEF In
  <2>3. CASE ~(start <= p /\ p < stop) /\ In(free, p)
    <3>1. PICK q \in Pages : free[q] > 0 /\ q <= p /\ p < q + free[q]  BY <2>3 DEF In
    <3>2. q # start /\ (q = a + blocks[a] => stop = a + blocks[a])
      BY <2>3, <3>1, <1>1, <1>2, <1>3, <1>5 DEF Outside
    <3>3. free'[q] = free[q]  BY <3>2
    <3> QED BY <3>1, <3>3 DEF In
  <2> QED BY <2>1, <2>2, <2>3, <1>1 DEF Full
<1> QED BY <1>9, <1>10, <1>11, <1>12, <1>13, <1>14 DEF Accounted

-----------------------------------------------------------------------------
(* Keys in order. *)

LEMMA LessThanWellFounded == IsWellFoundedOn({ss \in Nat \X Nat : ss[1] < ss[2]}, Nat)
BY NatLessThanWellFounded DEF OpToRel

\* The least-number principle, for sets.
LEMMA LeastElement ==
  ASSUME NEW T, T \subseteq Nat, T # {}
  PROVE  \E x \in T : \A y \in T : x <= y
<1> DEFINE LT == {ss \in Nat \X Nat : ss[1] < ss[2]}
<1>1. IsWellFoundedOn(LT, Nat)  BY LessThanWellFounded
<1> HIDE DEF LT
<1>2. PICK x \in T : \A y \in T : ~ (<<y, x>> \in LT)  BY <1>1, WFMin
<1>3. ASSUME NEW y \in T, y < x  PROVE FALSE
  <2>1. <<y, x>> \in LT  BY <1>3 DEF LT
  <2> QED BY <2>1, <1>2
<1> QED BY <1>3

\* Among the keys below a, if there are any, one is the last.
LEMMA LastBelow ==
  ASSUME NEW K, K \subseteq Pages, NEW a \in Nat, NEW j \in K, j < a
  PROVE  \E k \in K : k < a /\ \A i \in K : i < a => i <= k
<1> DEFINE D == {d \in Nat : \E k \in K : k < a /\ d = a - k}
<1>1. a - j \in D  BY DEF Pages
<1>2. PICK d \in D : \A y \in D : d <= y  BY <1>1, LeastElement
<1>3. PICK k \in K : k < a /\ d = a - k  BY <1>2
<1>4. ASSUME NEW i \in K, i < a  PROVE i <= k
  <2>1. a - i \in D  BY <1>4 DEF Pages
  <2>2. d <= a - i  BY <2>1, <1>2
  <2>3. i \in Nat /\ k \in Nat  BY DEF Pages
  <2> QED BY <2>2, <2>3, <1>3
<1> QED BY <1>3, <1>4

\* allocAt looks at two blocks; that is enough when no two blocks overlap.
LEMMA TwoBlocksDecide ==
  ASSUME Accounted(blocks, free, cursor), NEW a \in Pages, NEW n \in Nat, n > 0
  PROVE  InUse(a, n) <=>
           \E x \in Pages : blocks[x] > 0 /\ x < a + n /\ a < x + blocks[x]
<1>1. Apart(blocks) /\ \A x \in Pages : blocks[x] \in 0..Size /\ x \in Nat
  BY DEF Accounted, Typed, Pages
<1>2. Keys(blocks) \subseteq Pages /\ a \in Nat  BY <1>1 DEF Keys
<1>3. ASSUME InUse(a, n)
      PROVE  \E x \in Pages : blocks[x] > 0 /\ x < a + n /\ a < x + blocks[x]
  BY <1>3, <1>1, <1>2 DEF InUse, Before, Keys, End
<1>4. ASSUME NEW x \in Pages, blocks[x] > 0, x < a + n, a < x + blocks[x]
      PROVE  InUse(a, n)
  <2>1. CASE a <= x  BY <2>1, <1>4 DEF InUse, Keys
  <2>2. CASE x < a
    <3>1. x \in Keys(blocks)  BY <1>4 DEF Keys
    <3>2. PICK k \in Keys(blocks) : k < a /\ \A i \in Keys(blocks) : i < a => i <= k
      BY <3>1, <2>2, <1>2, LastBelow
    <3>3. k \in Before(blocks, a)  BY <3>2 DEF Before
    <3>4. x <= k /\ k \in Pages /\ blocks[k] > 0  BY <3>1, <3>2, <2>2 DEF Keys
    <3>5. End(blocks, k) > a
      BY <3>2, <3>4, <1>4, <1>1 DEF Apart, End
    <3> QED BY <3>3, <3>5 DEF InUse
  <2> QED BY <2>1, <2>2, <1>1, <1>2
<1> QED BY <1>3, <1>4

-----------------------------------------------------------------------------
(* The actions keep the invariant. *)

LEMMA AllocFromFreeKeeps ==
  ASSUME Inv, NEW n \in Sizes, NEW align \in Aligns, AllocFromFree(n, align)
  PROVE  Inv'
<1>1. n \in Nat /\ n > 0 /\ align \in Nat \ {0}  OBVIOUS
<1>2. PICK r \in Keys(free) :
        /\ Fits(r, n, align)
        /\ LET at == AlignUp(r, align) IN
             /\ free' = [p \in Pages |->
                           CASE p = at + n /\ at + n < End(free, r) -> End(free, r) - (at + n)
                             [] p = r -> at - r
                             [] OTHER -> free[p]]
             /\ blocks' = [blocks EXCEPT ![at] = n]
        /\ UNCHANGED cursor
  BY DEF AllocFromFree
<1>3. r \in Pages /\ free[r] > 0 /\ r \in Nat  BY <1>2 DEF Keys, Pages
<1>4. AlignUp(r, align) \in Nat /\ r <= AlignUp(r, align)  BY <1>1, <1>3, AlignUpNotBelow
<1>5. AlignUp(r, align) + n <= r + free[r]  BY <1>2 DEF Fits, End
<1>6. Accounted(blocks, free, cursor)  BY InvMeans
<1> DEFINE at == AlignUp(r, align)
<1>7. /\ free' = [p \in Pages |->
                    CASE p = at + n /\ at + n < End(free, r) -> End(free, r) - (at + n)
                      [] p = r -> at - r
                      [] OTHER -> free[p]]
      /\ blocks' = [blocks EXCEPT ![at] = n]
  BY <1>2
<1>8. at \in Nat /\ r <= at /\ at + n <= r + free[r]  BY <1>4, <1>5
<1> HIDE DEF at
<1>9. Accounted(blocks', free', cursor)  BY <1>1, <1>3, <1>6, <1>7, <1>8, SplitKeeps
<1> QED BY <1>2, <1>9, InvMeansNext

LEMMA AllocFromCursorKeeps ==
  ASSUME Inv, NEW n \in Sizes, NEW align \in Aligns, AllocFromCursor(n, align)
  PROVE  Inv'
<1>1. n \in Nat /\ n > 0 /\ align \in Nat \ {0}  OBVIOUS
<1>2. Accounted(blocks, free, cursor)  BY InvMeans
<1>3. cursor \in Nat  BY <1>2 DEF Accounted, Typed
<1> DEFINE at == AlignUp(cursor, align)
<1>4. at \in Nat /\ cursor <= at  BY <1>1, <1>3, AlignUpNotBelow
<1>5. /\ at + n <= Size
      /\ free' = IF at > cursor THEN [free EXCEPT ![cursor] = at - cursor] ELSE free
      /\ blocks' = [blocks EXCEPT ![at] = n]
      /\ cursor' = at + n
  BY DEF AllocFromCursor
<1> HIDE DEF at
<1>6. Accounted(blocks', free', at + n)  BY <1>1, <1>2, <1>4, <1>5, BumpKeeps
<1> QED BY <1>5, <1>6, InvMeansNext

LEMMA AllocAtKeeps ==
  ASSUME Inv, ~FixedAboveCursor, NEW a \in Pages, NEW n \in Sizes, AllocAt(a, n)
  PROVE  Inv'
<1>1. n \in Nat /\ n > 0 /\ a \in Nat  BY DEF Pages
<1>2. Accounted(blocks, free, cursor)  BY InvMeans
<1>3. /\ Apart(free)
      /\ \A p \in Pages : blocks[p] \in Nat /\ free[p] \in Nat /\ p \in Nat
  BY <1>2 DEF Accounted, Typed, Pages
<1>4. /\ a + n <= cursor /\ ~InUse(a, n) /\ free' = Trimmed(a, n)
      /\ blocks' = [blocks EXCEPT ![a] = n] /\ cursor' = cursor
  BY DEF AllocAt
<1>5. \A x \in Pages : blocks[x] > 0 => x + blocks[x] <= a \/ a + n <= x
  BY <1>1, <1>2, <1>3, <1>4, TwoBlocksDecide
<1> DEFINE tails == {r \in Cut(a, n) : End(free, r) > a + n}
           last  == CHOOSE r \in tails : \A q \in tails : q <= r
<1>6. \A p : p \in Cut(a, n) <=>
              p \in Pages /\ free[p] > 0 /\ p < a + n /\ p + free[p] > a
  BY DEF Cut, Keys, End
<1>7. \A p : p \in tails <=>
              p \in Pages /\ free[p] > 0 /\ p < a + n /\ p + free[p] > a + n
  <2>1. \A p : p \in tails <=> p \in Cut(a, n) /\ p + free[p] > a + n  BY DEF End
  <2>2. \A p \in Pages : p + free[p] > a + n => p + free[p] > a  BY <1>1, <1>3
  <2> HIDE DEF tails
  <2> QED BY <2>1, <2>2, <1>6
<1>8. ASSUME NEW r \in tails  PROVE last = r
  <2>1. ASSUME NEW q \in tails  PROVE q = r
    <3>1. /\ q \in Pages /\ free[q] > 0 /\ q < a + n /\ q + free[q] > a + n
          /\ r \in Pages /\ free[r] > 0 /\ r < a + n /\ r + free[r] > a + n
      BY <2>1, <1>7, <1>8
    <3> QED BY <3>1, <1>1, <1>3 DEF Apart
  <2>2. \A q \in tails : q <= r  BY <2>1, <1>7, <1>3
  <2> HIDE DEF tails
  <2>3. last \in tails  BY <2>2, <1>8
  <2> QED BY <2>1, <2>3
<1>9. free' = [p \in Pages |->
                 CASE p = a + n /\ tails # {} -> End(free, last) - (a + n)
                   [] p \in Cut(a, n) /\ p < a -> a - p
                   [] p \in Cut(a, n) /\ p >= a -> 0
                   [] OTHER -> free[p]]
  BY <1>4 DEF Trimmed
<1> HIDE DEF tails, last
<1>10. \A p \in Pages :
         /\ p = a + n /\ tails # {} => free'[p] = End(free, last) - (a + n)
         /\ p \in Cut(a, n) /\ p < a => free'[p] = a - p
         /\ p \in Cut(a, n) /\ p >= a => free'[p] = 0
         /\ ~(p = a + n /\ tails # {}) /\ p \notin Cut(a, n) => free'[p] = free[p]
  BY <1>1, <1>3, <1>6, <1>9
<1>11. ASSUME NEW p \in Pages
       PROVE  /\ p < a /\ free[p] > 0 /\ p + free[p] > a => free'[p] = a - p
              /\ p < a /\ (free[p] = 0 \/ p + free[p] <= a) => free'[p] = free[p]
              /\ p >= a /\ p < a + n => free'[p] = 0
              /\ p > a + n => free'[p] = free[p]
  BY <1>1, <1>3, <1>6, <1>10
<1>12. ASSUME a + n \in Pages
       PROVE  /\ \A r \in Pages : free[r] > 0 /\ r < a + n /\ r + free[r] > a + n =>
                   free'[a + n] = r + free[r] - (a + n)
              /\ (\A r \in Pages : free[r] > 0 /\ r < a + n => r + free[r] <= a + n) =>
                   free'[a + n] = free[a + n]
  <2>1. ASSUME NEW r \in Pages, free[r] > 0, r < a + n, r + free[r] > a + n
        PROVE  free'[a + n] = r + free[r] - (a + n)
    <3>1. r \in tails  BY <2>1, <1>7
    <3>2. last = r  BY <3>1, <1>8
    <3>3. tails # {}  BY <3>1
    <3>4. free'[a + n] = End(free, last) - (a + n)  BY <3>3, <1>10, <1>12
    <3> HIDE DEF last
    <3> QED BY <3>2, <3>4, <1>1, <1>3, <2>1 DEF End
  <2>2. ASSUME \A r \in Pages : free[r] > 0 /\ r < a + n => r + free[r] <= a + n
        PROVE  free'[a + n] = free[a + n]
    <3>1. \A r : r \notin tails
      <4> SUFFICES ASSUME NEW r \in tails  PROVE FALSE  OBVIOUS
      <4>1. r \in Pages /\ free[r] > 0 /\ r < a + n /\ r + free[r] > a + n  BY <1>7
      <4> QED BY <4>1, <2>2, <1>1, <1>3
    <3>2. a + n \notin Cut(a, n)  BY <1>1, <1>6
    <3> QED BY <3>1, <3>2, <1>10, <1>12
  <2> QED BY <2>1, <2>2
<1>13. free' \in [Pages -> Int]
  <2>1. \A p \in Pages : free'[p] \in Int
    <3> SUFFICES ASSUME NEW p \in Pages PROVE free'[p] \in Int  OBVIOUS
    <3>1. CASE p # a + n  BY <3>1, <1>1, <1>3, <1>11
    <3>2. CASE p = a + n
      <4>1. CASE tails = {}  BY <4>1, <3>2, <1>1, <1>3, <1>6, <1>10
      <4>2. CASE tails # {}
        <5>1. PICK r \in tails : TRUE  BY <4>2
        <5>2. last = r /\ r \in Pages  BY <5>1, <1>7, <1>8
        <5> QED BY <5>2, <4>2, <3>2, <1>1, <1>3, <1>10 DEF End
      <4> QED BY <4>1, <4>2
    <3> QED BY <3>1, <3>2
  <2> QED BY <2>1, <1>9
<1>14. Accounted(blocks', free', cursor)
  BY <1>1, <1>2, <1>4, <1>5, <1>11, <1>12, <1>13, TrimKeeps
<1> QED BY <1>4, <1>14, InvMeansNext

LEMMA FreeKeeps ==
  ASSUME Inv, NEW a \in Pages, Free(a)
  PROVE  Inv'
<1>1. Accounted(blocks, free, cursor)  BY InvMeans
<1>2. /\ Apart(free) /\ Outside(blocks, free) /\ Under(blocks, cursor) /\ cursor \in 0..Size
      /\ \A p \in Pages : blocks[p] \in Nat /\ free[p] \in Nat /\ p \in Nat
  BY <1>1 DEF Accounted, Typed, Pages
<1> DEFINE next == a + blocks[a]
           len  == blocks[a] + (IF next \in Pages THEN free[next] ELSE 0)
           prev == {r \in Before(free, a) : End(free, r) = a}
<1>3. /\ blocks[a] > 0 /\ blocks' = [blocks EXCEPT ![a] = 0] /\ cursor' = cursor
      /\ free' = [p \in Pages |-> CASE p = next -> 0
                                     [] p \in prev -> free[p] + len
                                     [] p = a /\ prev = {} -> len
                                     [] OTHER -> free[p]]
  BY DEF Free
<1>4. len \in Nat /\ len >= blocks[a] /\ next \in Nat /\ next > a
  BY <1>2, <1>3
<1>5. \A p : p \in prev => p \in Pages /\ free[p] > 0 /\ p < a /\ p + free[p] = a
  BY DEF Before, Keys, End
<1>6. \A p \in Pages : free[p] > 0 /\ p < a /\ p + free[p] = a => p \in prev
  <2> SUFFICES ASSUME NEW p \in Pages, free[p] > 0, p < a, p + free[p] = a
               PROVE  p \in Before(free, a) /\ End(free, p) = a
    OBVIOUS
  <2>1. ASSUME NEW j \in Pages, free[j] > 0, j < a  PROVE j <= p
    BY <2>1, <1>2 DEF Apart
  <2> QED BY <2>1 DEF Before, Keys, End
<1>7. \A p, q \in prev : p = q
  BY <1>2, <1>5 DEF Apart
<1> HIDE DEF prev, len, next
<1>8. \A p \in Pages : free'[p] = IF p = next THEN 0
                                 ELSE IF p \in prev THEN free[p] + len
                                 ELSE IF p = a /\ prev = {} THEN len ELSE free[p]
  BY <1>2, <1>3, <1>4, <1>5
<1>9. free' \in [Pages -> Int]
  BY <1>2, <1>3, <1>4, <1>8
<1>10. JoinedEnd(a) = a + len /\ JoinedEnd(a) \in Nat
  BY <1>2, <1>4 DEF JoinedEnd, len, next
<1>11. \A p \in Pages : p = a + blocks[a] /\ JoinedEnd(a) = a + blocks[a] => free[p] = 0
  BY <1>2 DEF JoinedEnd
<1>12. CASE prev = {}
  <2>1. \A p \in Pages :
          /\ p = a => free'[p] = JoinedEnd(a) - a
          /\ p = a + blocks[a] /\ JoinedEnd(a) > a + blocks[a] => free'[p] = 0
          /\ p # a /\ (p = a + blocks[a] => JoinedEnd(a) = a + blocks[a]) => free'[p] = free[p]
    BY <1>2, <1>4, <1>8, <1>10, <1>11, <1>12 DEF next
  <2>2. Accounted(blocks', free', cursor)
    BY <2>1, <1>1, <1>3, <1>9, JoinKeeps
  <2> QED BY <2>2, <1>3, InvMeansNext
<1>13. CASE prev # {}
  <2>1. PICK start \in prev : TRUE  BY <1>13
  <2>2. start \in Pages /\ start < a /\ free[start] > 0 /\ start + free[start] = a
    BY <1>5
  <2>3. \A p : p \in prev <=> p = start  BY <1>7
  <2>4. \A p \in Pages :
          /\ p = start => free'[p] = JoinedEnd(a) - start
          /\ p = a + blocks[a] /\ JoinedEnd(a) > a + blocks[a] => free'[p] = 0
          /\ p # start /\ (p = a + blocks[a] => JoinedEnd(a) = a + blocks[a]) =>
                free'[p] = free[p]
    BY <2>2, <2>3, <1>2, <1>4, <1>8, <1>10, <1>11, <1>13 DEF next
  <2>5. Accounted(blocks', free', cursor)
    BY <2>2, <2>4, <1>1, <1>3, <1>9, JoinKeeps
  <2> QED BY <2>5, <1>3, InvMeansNext
<1> QED BY <1>12, <1>13

LEMMA ResetKeeps == Reset => Inv'
<1> SUFFICES ASSUME Reset PROVE Accounted(blocks', free', cursor')
  BY InvMeansNext
<1>1. blocks' = Empty /\ free' = Empty /\ cursor' = 0  BY DEF Reset
<1> QED BY <1>1 DEF Accounted, Typed, Apart, Outside, Under, In, Full, Empty, Pages

LEMMA StepKeeps == ~FixedAboveCursor /\ Inv /\ [Next]_vars => Inv'
<1> SUFFICES ASSUME ~FixedAboveCursor, Inv, [Next]_vars PROVE Inv'  OBVIOUS
<1>1. CASE \E n \in Sizes, align \in Aligns : Alloc(n, align)
  BY <1>1, AllocFromFreeKeeps, AllocFromCursorKeeps DEF Alloc
<1>2. CASE \E a \in Pages, n \in Sizes : AllocAt(a, n)
  BY <1>2, AllocAtKeeps
<1>3. CASE \E a \in Pages : Free(a)
  BY <1>3, FreeKeeps
<1>4. CASE Reset
  BY <1>4, ResetKeeps
<1>5. CASE UNCHANGED vars
  <2>1. Accounted(blocks', free', cursor')  BY <1>5, InvMeans DEF vars
  <2> QED BY <2>1, InvMeansNext
<1> QED BY <1>1, <1>2, <1>3, <1>4, <1>5 DEF Next

\* Every page of the window that alloc has reached is in one block or in one free range,
\* through any sequence of alloc, allocAt, free and reset.
THEOREM PagesAlwaysAccounted == ~FixedAboveCursor /\ Spec => []PagesAccounted
<1> SUFFICES ASSUME ~FixedAboveCursor PROVE Spec => []PagesAccounted  OBVIOUS
<1>1. Inv /\ [Next]_vars => Inv'  BY StepKeeps
<1>2. Inv => PagesAccounted  BY DEF Inv
<1> QED BY <1>1, <1>2, InitInv, PTL DEF Spec

\* No block, free range or cursor of alloc, allocAt and free leaves the window.
THEOREM TypeCorrect == ~FixedAboveCursor /\ Spec => []TypeOK
<1> SUFFICES ASSUME ~FixedAboveCursor PROVE Spec => []TypeOK  OBVIOUS
<1>1. Inv /\ [Next]_vars => Inv'  BY StepKeeps
<1>2. Inv => TypeOK  BY DEF Inv
<1> QED BY <1>1, <1>2, InitInv, PTL DEF Spec

\* allocAt's look at the block before and the block after decides exactly whether a page
\* of the range is in use.
THEOREM FixedRequestsAlwaysExact ==
  ~FixedAboveCursor /\ Spec => []FixedRequestsAreExact
<1> SUFFICES ASSUME ~FixedAboveCursor PROVE Spec => []FixedRequestsAreExact  OBVIOUS
<1>1. Inv /\ [Next]_vars => Inv'  BY StepKeeps
<1>2. Inv => FixedRequestsAreExact
  <2> SUFFICES ASSUME Inv, NEW a \in Pages, NEW n \in Sizes
               PROVE  InUse(a, n) <=>
                        \E p \in Pages : a <= p /\ p < a + n /\ Held(blocks, p)
    BY DEF FixedRequestsAreExact
  <2>1. n \in Nat /\ n > 0 /\ Accounted(blocks, free, cursor)  BY InvMeans
  <2>2. InUse(a, n) <=>
          \E x \in Pages : blocks[x] > 0 /\ x < a + n /\ a < x + blocks[x]
    BY <2>1, TwoBlocksDecide
  <2>3. \A p : Held(blocks, p) <=>
                \E x \in Pages : blocks[x] > 0 /\ x <= p /\ p < x + blocks[x]
    BY DEF Held, Holds, Keys, End
  <2>4. \A x \in Pages : x \in Nat /\ blocks[x] \in Nat  BY <2>1 DEF Accounted, Typed, Pages
  <2>5. ASSUME NEW x \in Pages, blocks[x] > 0, x < a + n, a < x + blocks[x]
        PROVE  \E p \in Pages : a <= p /\ p < a + n /\ Held(blocks, p)
    <3>1. CASE a <= x  BY <3>1, <2>3, <2>4, <2>5
    <3>2. CASE x < a  BY <3>2, <2>1, <2>3, <2>4, <2>5
    <3> QED BY <3>1, <3>2, <2>4
  <2>6. ASSUME NEW p \in Pages, a <= p, p < a + n, Held(blocks, p)
        PROVE  \E x \in Pages : blocks[x] > 0 /\ x < a + n /\ a < x + blocks[x]
    <3>1. PICK x \in Pages : blocks[x] > 0 /\ x <= p /\ p < x + blocks[x]  BY <2>3, <2>6
    <3> QED BY <3>1, <2>1, <2>4, <2>6
  <2> QED BY <2>2, <2>5, <2>6
<1> QED BY <1>1, <1>2, InitInv, PTL DEF Spec

-----------------------------------------------------------------------------
(* What regionAt answers. *)

\* Among the keys above a, if there are any, one is the first.
LEMMA FirstAbove ==
  ASSUME NEW K, K \subseteq Pages, NEW a \in Nat, NEW j \in K, j > a
  PROVE  \E k \in K : k > a /\ \A i \in K : i > a => i >= k
<1> DEFINE D == {d \in Nat : d \in K /\ d > a}
<1>1. j \in D  BY DEF Pages
<1>2. PICK d \in D : \A y \in D : d <= y  BY <1>1, LeastElement
<1>3. ASSUME NEW i \in K, i > a  PROVE i >= d
  <2>1. i \in D  BY <1>3 DEF Pages
  <2> QED BY <2>1, <1>2 DEF Pages
<1> QED BY <1>2, <1>3

\* The blocks before and after a page, as regionAt finds them.
PrevOf(a) == {k \in Keys(blocks) : k <= a /\ \A j \in Keys(blocks) : j <= a => j <= k}
NextOf(a) == {k \in Keys(blocks) : k > a /\ \A j \in Keys(blocks) : j > a => j >= k}

\* There is one block before, or no block begins at or below the page.
LEMMA PrevIs ==
  ASSUME NEW a \in Pages
  PROVE  \/ /\ PrevOf(a) = {}
            /\ \A x \in Keys(blocks) : x > a
         \/ \E k \in Keys(blocks) :
              /\ PrevOf(a) = {k} /\ k <= a
              /\ \A x \in Keys(blocks) : x <= a => x <= k
<1>1. Keys(blocks) \subseteq Nat /\ Keys(blocks) \subseteq Pages /\ a \in Nat  BY DEF Keys, Pages
<1>2. CASE \A x \in Keys(blocks) : x > a  BY <1>1, <1>2 DEF PrevOf
<1>3. CASE \E x \in Keys(blocks) : x <= a
  <2>1. PICK x \in Keys(blocks) : x < a + 1  BY <1>1, <1>3
  <2>2. PICK k \in Keys(blocks) :
          k < a + 1 /\ \A i \in Keys(blocks) : i < a + 1 => i <= k
    <3>1. a + 1 \in Nat  BY <1>1
    <3> QED BY <1>1, <2>1, <3>1, LastBelow
  <2>3. k <= a /\ \A i \in Keys(blocks) : i <= a => i <= k  BY <1>1, <2>2
  <2>4. k \in PrevOf(a)  BY <2>3 DEF PrevOf
  <2>5. ASSUME NEW i \in PrevOf(a) PROVE i = k  BY <1>1, <2>3, <2>5 DEF PrevOf
  <2>6. PrevOf(a) = {k}  BY <2>4, <2>5
  <2> QED BY <2>3, <2>6
<1> QED BY <1>1, <1>2, <1>3

\* There is one block after, or no block begins above the page.
LEMMA NextIs ==
  ASSUME NEW a \in Pages
  PROVE  \/ /\ NextOf(a) = {}
            /\ \A x \in Keys(blocks) : x <= a
         \/ \E k \in Keys(blocks) :
              /\ NextOf(a) = {k} /\ k > a
              /\ \A x \in Keys(blocks) : x > a => x >= k
<1>1. Keys(blocks) \subseteq Nat /\ Keys(blocks) \subseteq Pages /\ a \in Nat  BY DEF Keys, Pages
<1>2. CASE \A x \in Keys(blocks) : x <= a  BY <1>1, <1>2 DEF NextOf
<1>3. CASE \E x \in Keys(blocks) : x > a
  <2>1. PICK k \in Keys(blocks) : k > a /\ \A i \in Keys(blocks) : i > a => i >= k
    BY <1>1, <1>3, FirstAbove
  <2>2. k \in NextOf(a)  BY <2>1 DEF NextOf
  <2>3. ASSUME NEW i \in NextOf(a) PROVE i = k  BY <1>1, <2>1, <2>3 DEF NextOf
  <2>4. NextOf(a) = {k}  BY <2>2, <2>3
  <2> QED BY <2>1, <2>4
<1> QED BY <1>1, <1>2, <1>3

LEMMA TheOf == \A d : The({}, d) = d /\ \A k : The({k}, d) = k
<1>1. \A k : (CHOOSE x \in {k} : TRUE) = k  OBVIOUS
<1> QED BY <1>1 DEF The

\* The page is in the block before it.
LEMMA InABlock ==
  ASSUME Accounted(blocks, free, cursor), NEW a \in Pages, NEW k \in Keys(blocks),
         PrevOf(a) = {k}, k <= a, a < End(blocks, k)
  PROVE  LET r == RegionAt(a) IN
           /\ r.lo <= a /\ a < r.hi /\ r.hi <= Size
           /\ r.committed /\ blocks[r.lo] = r.hi - r.lo
<1>1. RegionAt(a) = [lo |-> k, hi |-> End(blocks, k), committed |-> TRUE]
  <2>1. \E x \in PrevOf(a) : a < End(blocks, x)  OBVIOUS
  <2>2. The(PrevOf(a), 0) = k  BY TheOf
  <2> QED BY <2>1, <2>2 DEF RegionAt, PrevOf
<1>2. k \in Nat /\ blocks[k] \in Nat /\ cursor \in Nat /\ cursor <= Size /\ blocks[k] > 0 /\ k \in Pages
  BY DEF Accounted, Typed, Keys, Pages
<1>3. End(blocks, k) = k + blocks[k] /\ k + blocks[k] <= cursor
  BY <1>2 DEF Accounted, Under, End
<1> QED BY <1>1, <1>2, <1>3

\* Where the gap around a page begins: at 0, or where the block before it ends.
GapFrom(a, lo) ==
  /\ lo \in Nat /\ lo <= a
  /\ \A x \in Keys(blocks) : x <= a => End(blocks, x) <= lo
  /\ lo > 0 => Held(blocks, lo - 1)

\* Where it ends: at the end of the window, or where the block after it begins.
GapTo(a, hi) ==
  /\ hi \in Nat /\ a < hi /\ hi <= Size
  /\ \A x \in Keys(blocks) : x > a => x >= hi
  /\ hi < Size => Held(blocks, hi)

\* The page is in no block.
LEMMA InAGap ==
  ASSUME Accounted(blocks, free, cursor), NEW a \in Pages,
         \A k \in PrevOf(a) : ~(a < End(blocks, k))
  PROVE  \E lo, hi : /\ RegionAt(a) = [lo |-> lo, hi |-> hi, committed |-> FALSE]
                     /\ GapFrom(a, lo) /\ GapTo(a, hi)
<1>1. /\ Apart(blocks) /\ a \in Nat /\ Size \in Nat /\ a < Size
      /\ \A x \in Keys(blocks) : x \in Nat /\ x \in Pages /\ blocks[x] \in Nat /\ blocks[x] > 0
                                 /\ x < Size
      /\ \A x : End(blocks, x) = x + blocks[x]
      /\ \A p : (\E x \in Keys(blocks) : x <= p /\ p < End(blocks, x)) => Held(blocks, p)
  BY DEF Accounted, Typed, Keys, Pages, Held, Holds, End
<1> DEFINE lo == The({End(blocks, k) : k \in PrevOf(a)}, 0)
           hi == The(NextOf(a), Size)
<1>2. RegionAt(a) = [lo |-> lo, hi |-> hi, committed |-> FALSE]
  BY DEF RegionAt, PrevOf, NextOf
<1>3. GapFrom(a, lo)
  <2>1. CASE PrevOf(a) = {} /\ \A x \in Keys(blocks) : x > a
    <3>1. lo = 0  BY <2>1, TheOf
    <3> HIDE DEF lo
    <3> QED BY <2>1, <3>1, <1>1 DEF GapFrom
  <2>2. ASSUME NEW k \in Keys(blocks), PrevOf(a) = {k}, k <= a,
               \A x \in Keys(blocks) : x <= a => x <= k
        PROVE  GapFrom(a, lo)
    <3>1. {End(blocks, x) : x \in PrevOf(a)} = {End(blocks, k)}  BY <2>2
    <3>2. lo = k + blocks[k]  BY <3>1, <1>1, TheOf
    <3> HIDE DEF lo
    <3>3. lo <= a /\ lo \in Nat /\ lo > k  BY <3>2, <2>2, <1>1
    <3>4. \A x \in Keys(blocks) : x <= a => End(blocks, x) <= lo
      BY <3>2, <2>2, <1>1 DEF Apart
    <3>5. Held(blocks, lo - 1)  BY <3>2, <3>3, <1>1
    <3> QED BY <3>3, <3>4, <3>5 DEF GapFrom
  <2> QED BY <2>1, <2>2, PrevIs
<1>4. GapTo(a, hi)
  <2>1. CASE NextOf(a) = {} /\ \A x \in Keys(blocks) : x <= a
    <3>1. hi = Size  BY <2>1, TheOf
    <3> HIDE DEF hi
    <3> QED BY <2>1, <3>1, <1>1 DEF GapTo
  <2>2. ASSUME NEW k \in Keys(blocks), NextOf(a) = {k}, k > a,
               \A x \in Keys(blocks) : x > a => x >= k
        PROVE  GapTo(a, hi)
    <3>1. hi = k  BY <2>2, TheOf
    <3> HIDE DEF hi
    <3>2. Held(blocks, k)  BY <1>1
    <3> QED BY <3>1, <3>2, <2>2, <1>1 DEF GapTo
  <2> QED BY <2>1, <2>2, NextIs
<1> QED BY <1>2, <1>3, <1>4

\* regionAt answers with one whole block, or with a gap that is all there is between two blocks.
THEOREM RegionsAlwaysTrue == ~FixedAboveCursor /\ Spec => []RegionsAreTrue
<1> SUFFICES ASSUME ~FixedAboveCursor PROVE Spec => []RegionsAreTrue  OBVIOUS
<1>1. Inv /\ [Next]_vars => Inv'  BY StepKeeps
<1>2. Inv => RegionsAreTrue
  <2> DEFINE Answer(r, a) ==
        /\ r.lo <= a /\ a < r.hi /\ r.hi <= Size
        /\ r.committed => blocks[r.lo] = r.hi - r.lo
        /\ ~r.committed =>
             /\ \A p \in Pages : r.lo <= p /\ p < r.hi => ~Held(blocks, p)
             /\ r.lo > 0 => Held(blocks, r.lo - 1)
             /\ r.hi < Size => Held(blocks, r.hi)
  <2> SUFFICES ASSUME Inv, NEW a \in Pages PROVE Answer(RegionAt(a), a)
    BY DEF RegionsAreTrue
  <2>1. Accounted(blocks, free, cursor)  BY InvMeans
  <2>2. CASE \E k \in PrevOf(a) : a < End(blocks, k)
    <3>1. PICK k \in Keys(blocks) : PrevOf(a) = {k} /\ k <= a /\ a < End(blocks, k)
      BY <2>2, PrevIs
    <3>2. LET r == RegionAt(a) IN
            /\ r.lo <= a /\ a < r.hi /\ r.hi <= Size
            /\ r.committed /\ blocks[r.lo] = r.hi - r.lo
      BY <2>1, <3>1, InABlock
    <3> QED BY <3>2
  <2>3. CASE \A k \in PrevOf(a) : ~(a < End(blocks, k))
    <3>1. PICK lo, hi : /\ RegionAt(a) = [lo |-> lo, hi |-> hi, committed |-> FALSE]
                        /\ GapFrom(a, lo) /\ GapTo(a, hi)
      BY <2>1, <2>3, InAGap
    <3>2. ASSUME NEW p \in Pages, lo <= p, p < hi, Held(blocks, p) PROVE FALSE
      <4>1. PICK x \in Keys(blocks) : x <= p /\ p < End(blocks, x)
        BY <3>2 DEF Held, Holds
      <4>2. x \in Nat /\ p \in Nat /\ a \in Nat /\ End(blocks, x) \in Nat
        BY <2>1 DEF Keys, Pages, End, Accounted, Typed
      <4>3. CASE x <= a  BY <4>1, <4>2, <4>3, <3>1, <3>2 DEF GapFrom
      <4>4. CASE x > a  BY <4>1, <4>2, <4>4, <3>1, <3>2 DEF GapTo
      <4> QED BY <4>2, <4>3, <4>4
    <3>3. Answer([lo |-> lo, hi |-> hi, committed |-> FALSE], a)
      BY <3>1, <3>2 DEF GapFrom, GapTo
    <3> HIDE DEF Answer
    <3> QED BY <3>1, <3>3
  <2> QED BY <2>2, <2>3
<1> QED BY <1>1, <1>2, InitInv, PTL DEF Spec

-----------------------------------------------------------------------------
(* The window implements PageGrants. *)

Of(f, a) == {p \in Pages : a <= p /\ p < a + f[a]}

LEMMA GrantsAre == Grants = {Of(blocks, a) : a \in Keys(blocks)}
BY DEF Grants, Of, Holds, End

LEMMA GrantsAreNext == Grants' = {Of(blocks', a) : a \in Keys(blocks')}
BY DEF Grants, Of, Holds, End, Keys

LEMMA AddsOneGrant ==
  ASSUME blocks \in [Pages -> 0..Size], Apart(blocks'),
         NEW at \in Pages, NEW n \in Nat, n > 0, at + n <= Size, blocks[at] = 0,
         blocks' = [blocks EXCEPT ![at] = n]
  PROVE  Promise!Next
<1> DEFINE g == Of(blocks', at)
<1>1. \A p \in Pages : p \in Nat /\ blocks'[p] = IF p = at THEN n ELSE blocks[p]
  BY DEF Pages
<1>2. g \in SUBSET Pages /\ at \in g  BY <1>1 DEF Of
<1>3. \A a : a \in Keys(blocks') <=> a \in Keys(blocks) \/ a = at  BY <1>1 DEF Keys
<1>4. \A a \in Keys(blocks) : a \in Pages /\ a # at /\ Of(blocks', a) = Of(blocks, a)
  BY <1>1 DEF Keys, Of
<1>5. ASSUME NEW h \in Grants  PROVE g \intersect h = {}
  <2>1. PICK a \in Keys(blocks) : h = Of(blocks', a)  BY <1>4, GrantsAre
  <2>2. a \in Pages /\ a # at /\ blocks'[a] > 0 /\ blocks'[at] > 0
        /\ blocks'[a] \in Nat /\ blocks'[at] \in Nat
    BY <1>1, <1>4 DEF Keys
  <2>3. ASSUME NEW p \in Pages, p \in Of(blocks', at), p \in Of(blocks', a)  PROVE FALSE
    BY <2>2, <2>3, <1>1 DEF Apart, Of
  <2> QED BY <2>1, <2>3, <1>2
<1>6. Grants' = Grants \union {g}
  <2>1. Grants' = {Of(blocks', a) : a \in Keys(blocks) \union {at}}
    BY <1>3, GrantsAreNext
  <2>2. {Of(blocks', a) : a \in Keys(blocks) \union {at}}
          = {Of(blocks', a) : a \in Keys(blocks)} \union {g}
    OBVIOUS
  <2>3. {Of(blocks', a) : a \in Keys(blocks)} = {Of(blocks, a) : a \in Keys(blocks)}
    BY <1>4
  <2> QED BY <2>1, <2>2, <2>3, GrantsAre
<1>7. Promise!Grant(g)
  <2> HIDE DEF g
  <2> QED BY <1>2, <1>5, <1>6 DEF Promise!Grant
<1> HIDE DEF g
<1> QED BY <1>2, <1>7 DEF Promise!Next

LEMMA RemovesOneGrant ==
  ASSUME blocks \in [Pages -> 0..Size], Apart(blocks),
         NEW a \in Pages, blocks[a] > 0, blocks' = [blocks EXCEPT ![a] = 0]
  PROVE  Promise!Next
<1> DEFINE g == Of(blocks, a)
<1>1. \A p \in Pages : /\ p \in Nat /\ blocks[p] \in Nat
                       /\ blocks'[p] = IF p = a THEN 0 ELSE blocks[p]
  BY DEF Pages
<1>2. g \in SUBSET Pages /\ a \in g /\ a \in Keys(blocks)  BY <1>1 DEF Of, Keys
<1>3. \A x : x \in Keys(blocks') <=> x \in Keys(blocks) /\ x # a  BY <1>1 DEF Keys
<1>4. \A x \in Keys(blocks') : Of(blocks', x) = Of(blocks, x)  BY <1>1 DEF Keys, Of
<1>5. ASSUME NEW x \in Keys(blocks'), Of(blocks, x) = g  PROVE FALSE
  <2>1. x \in Pages /\ x # a /\ blocks[x] > 0  BY <1>3 DEF Keys
  <2>2. a \in Of(blocks, x) /\ x \in Of(blocks, a)
    BY <2>1, <1>1, <1>2, <1>5 DEF Of
  <2> QED BY <2>1, <2>2, <1>1 DEF Of, Apart
<1>6. Grants' = Grants \ {g}
  <2>1. Grants' = {Of(blocks, x) : x \in Keys(blocks')}  BY <1>4, GrantsAreNext
  <2> HIDE DEF g
  <2>2. ASSUME NEW h \in Grants'  PROVE h \in Grants /\ h # g
    BY <2>1, <1>3, <1>5, GrantsAre
  <2>3. ASSUME NEW h \in Grants, h # g  PROVE h \in Grants'
    <3>1. PICK x \in Keys(blocks) : h = Of(blocks, x)  BY GrantsAre
    <3>2. x # a  BY <3>1, <2>3 DEF g
    <3> QED BY <3>1, <3>2, <2>1, <1>3
  <2> QED BY <2>2, <2>3
<1>7. g \in Grants  BY <1>2, GrantsAre
<1> HIDE DEF g
<1>8. Promise!Release(g)  BY <1>6, <1>7 DEF Promise!Release
<1> QED BY <1>2, <1>8 DEF Promise!Next

LEMMA StepKeepsPromise ==
  ASSUME ~FixedAboveCursor, Inv, Inv', [Next]_vars
  PROVE  [Promise!Next]_Grants
<1>1. Accounted(blocks, free, cursor)  BY InvMeans
<1>2. /\ blocks \in [Pages -> 0..Size] /\ Apart(blocks) /\ cursor \in 0..Size
      /\ Outside(blocks, free) /\ Under(blocks, cursor)
      /\ \A p \in Pages : p \in Nat /\ blocks[p] \in 0..Size /\ free[p] \in 0..Size
  BY <1>1 DEF Accounted, Typed, Pages
<1>3. Apart(blocks')  BY DEF Inv, PagesAccounted, NoPageTwice, Apart, Keys, End, Pages
<1>4. ASSUME NEW n \in Sizes, NEW align \in Aligns, AllocFromFree(n, align)
      PROVE  Promise!Next
  <2>1. n \in Nat /\ n > 0 /\ align \in Nat \ {0}  OBVIOUS
  <2>2. PICK r \in Keys(free) : /\ Fits(r, n, align)
                                /\ blocks' = [blocks EXCEPT ![AlignUp(r, align)] = n]
    BY <1>4 DEF AllocFromFree
  <2> DEFINE at == AlignUp(r, align)
  <2>3. r \in Pages /\ free[r] > 0  BY DEF Keys
  <2>4. at \in Nat /\ r <= at  BY <2>1, <2>3, AlignUpNotBelow DEF Pages
  <2>5. at + n <= r + free[r]  BY <2>2 DEF Fits, End
  <2>6. r + free[r] <= cursor  BY <1>1, <2>3 DEF Accounted, Under
  <2>7. blocks' = [blocks EXCEPT ![at] = n]  BY <2>2
  <2> HIDE DEF at
  <2>8. at \in Pages /\ at + n <= Size  BY <1>2, <2>1, <2>3, <2>4, <2>5, <2>6 DEF Pages
  <2>9. blocks[at] = 0  BY <1>2, <2>1, <2>3, <2>4, <2>5, <2>8 DEF Outside
  <2> QED BY <1>2, <1>3, <2>1, <2>7, <2>8, <2>9, AddsOneGrant
<1>5. ASSUME NEW n \in Sizes, NEW align \in Aligns, AllocFromCursor(n, align)
      PROVE  Promise!Next
  <2>1. n \in Nat /\ n > 0 /\ align \in Nat \ {0}  OBVIOUS
  <2> DEFINE at == AlignUp(cursor, align)
  <2>2. at \in Nat /\ cursor <= at  BY <1>2, <2>1, AlignUpNotBelow
  <2>3. at + n <= Size /\ blocks' = [blocks EXCEPT ![at] = n]  BY <1>5 DEF AllocFromCursor
  <2> HIDE DEF at
  <2>4. at \in Pages  BY <2>1, <2>2, <2>3 DEF Pages
  <2>5. blocks[at] = 0  BY <1>2, <2>2, <2>4 DEF Under
  <2> QED BY <1>2, <1>3, <2>1, <2>3, <2>4, <2>5, AddsOneGrant
<1>6. ASSUME NEW a \in Pages, NEW n \in Sizes, AllocAt(a, n)
      PROVE  Promise!Next
  <2>1. n \in Nat /\ n > 0 /\ a \in Nat  BY DEF Pages
  <2>2. a + n <= Size /\ ~InUse(a, n) /\ blocks' = [blocks EXCEPT ![a] = n]
    BY <1>6 DEF AllocAt
  <2>3. blocks[a] = 0
    BY <1>1, <1>2, <2>1, <2>2, TwoBlocksDecide
  <2> QED BY <1>2, <1>3, <2>1, <2>2, <2>3, AddsOneGrant
<1>7. ASSUME NEW a \in Pages, Free(a)  PROVE Promise!Next
  <2>1. blocks[a] > 0 /\ blocks' = [blocks EXCEPT ![a] = 0]  BY <1>7 DEF Free
  <2> QED BY <2>1, <1>2, RemovesOneGrant
<1>8. ASSUME Reset  PROVE Promise!Next
  <2>1. \A a : a \notin Keys(blocks')  BY <1>8 DEF Reset, Empty, Keys
  <2>2. Grants' = {}  BY <2>1, GrantsAreNext
  <2> QED BY <2>2 DEF Promise!Next, Promise!Reset
<1>9. ASSUME UNCHANGED vars  PROVE UNCHANGED Grants
  <2>1. blocks' = blocks  BY <1>9 DEF vars
  <2> QED BY <2>1, GrantsAre, GrantsAreNext
<1> QED BY <1>4, <1>5, <1>6, <1>7, <1>8, <1>9 DEF Next, Alloc

\* The allocator implements PageGrants: every block alloc and allocAt return is exclusive
\* until free(its address) or reset().
THEOREM Refinement == ~FixedAboveCursor /\ Spec => EveryGrantIsExclusive
<1> SUFFICES ASSUME ~FixedAboveCursor PROVE Spec => Promise!Spec
  BY DEF EveryGrantIsExclusive
<1>1. Init => Promise!Init
  <2> SUFFICES ASSUME Init PROVE Grants = {}  BY DEF Promise!Init
  <2>1. \A a : a \notin Keys(blocks)  BY DEF Init, Empty, Keys
  <2> QED BY <2>1, GrantsAre
<1>2. Inv /\ [Next]_vars => Inv'  BY StepKeeps
<1>3. Inv /\ Inv' /\ [Next]_vars => [Promise!Next]_Grants  BY StepKeepsPromise
<1> QED BY <1>1, <1>2, <1>3, InitInv, PTL DEF Spec, Promise!Spec
=============================================================================
