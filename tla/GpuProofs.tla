------------------------------ MODULE GpuProofs ------------------------------
(***************************************************************************)
(* Proofs about the path of a frame: the command processor that takes it   *)
(* out of the guest's ring (CommandProcessor), for any ring, packets and   *)
(* memory, and the Vulkan backend that presents it (VulkanBackend), for    *)
(* any windows, sizes, images and bounds.                                  *)
(***************************************************************************)
EXTENDS CommandProcessor, VulkanBackend, FiniteSetTheorems, SequenceTheorems,
        WellFoundedInduction, TLAPS

----------------------------------------------------------------------------
(* Distances around the ring *)

\* The places of the ring.
Index == 0..(RingDwords - 1)
\* How many cells there are from i up to j.
Dist(i, j) == (j - i) % RingDwords

\* The sizes that the ring may have.
LEMMA RingSize == RingDwords \in 4..256
  <1>1. PICK n \in 2..8 : RingDwords = 2^n
    BY PowerOfTwo
  <1>2. CASE n = 2
    BY <1>1, <1>2
  <1>3. CASE n = 3
    BY <1>1, <1>3
  <1>4. CASE n = 4
    BY <1>1, <1>4
  <1>5. CASE n = 5
    BY <1>1, <1>5
  <1>6. CASE n = 6
    BY <1>1, <1>6
  <1>7. CASE n = 7
    BY <1>1, <1>7
  <1>8. CASE n = 8
    BY <1>1, <1>8
  <1> QED
    BY <1>2, <1>3, <1>4, <1>5, <1>6, <1>7, <1>8

\* The remainder of a number that is out of the ring by less than one round.
LEMMA Mods ==
  ASSUME NEW x \in Int, x >= -RingDwords, x < 2 * RingDwords
  PROVE  /\ x < 0 => x % RingDwords = x + RingDwords
         /\ x >= 0 /\ x < RingDwords => x % RingDwords = x
         /\ x >= RingDwords => x % RingDwords = x - RingDwords
  <1>1. CASE x < 0
    BY <1>1, RingSize
  <1>2. CASE x >= 0 /\ x < RingDwords
    BY <1>2, RingSize
  <1>3. CASE x >= RingDwords
    BY <1>3, RingSize
  <1> QED
    BY <1>1, <1>2, <1>3, RingSize

\* The distance without the remainder.
LEMMA Distance ==
  ASSUME NEW i \in Index, NEW j \in Index
  PROVE  /\ Dist(i, j) \in Index
         /\ i <= j => Dist(i, j) = j - i
         /\ j < i => Dist(i, j) = j - i + RingDwords
  <1>1. j - i \in Int /\ j - i >= -RingDwords /\ j - i < 2 * RingDwords
    BY RingSize DEF Index
  <1>2. /\ j - i < 0 => Dist(i, j) = j - i + RingDwords
        /\ j - i >= 0 /\ j - i < RingDwords => Dist(i, j) = j - i
    BY <1>1, Mods DEF Dist
  <1> QED
    BY <1>2, RingSize DEF Index

\* Going d cells on from i.
Step(i, d) == (i + d) % RingDwords

\* The place stepped to without the remainder.
LEMMA Stepping ==
  ASSUME NEW i \in Index, NEW d \in 0..RingDwords
  PROVE  /\ Step(i, d) \in Index
         /\ i + d < RingDwords => Step(i, d) = i + d
         /\ i + d >= RingDwords => Step(i, d) = i + d - RingDwords
  <1>1. i + d \in Int /\ i + d >= -RingDwords /\ i + d < 2 * RingDwords
    BY RingSize DEF Index
  <1>2. /\ i + d >= 0 /\ i + d < RingDwords => Step(i, d) = i + d
        /\ i + d >= RingDwords => Step(i, d) = i + d - RingDwords
    BY <1>1, Mods, RingSize DEF Step, Index
  <1> QED
    BY <1>1, <1>2, RingSize DEF Index

\* The distance to t tells the places apart.
LEMMA Distinct ==
  ASSUME NEW i \in Index, NEW j \in Index, NEW t \in Index, Dist(i, t) = Dist(j, t)
  PROVE  i = j
  <1>1. /\ i <= t => Dist(i, t) = t - i
        /\ t < i => Dist(i, t) = t - i + RingDwords
        /\ j <= t => Dist(j, t) = t - j
        /\ t < j => Dist(j, t) = t - j + RingDwords
    BY Distance
  <1> QED
    BY <1>1, RingSize DEF Index

\* Not going beyond t.
LEMMA Stepped ==
  ASSUME NEW i \in Index, NEW t \in Index, NEW d \in 0..Dist(i, t)
  PROVE  Step(i, d) \in Index /\ Dist(Step(i, d), t) = Dist(i, t) - d
  <1>1. d \in 0..RingDwords /\ Dist(i, t) \in Index
    BY Distance, RingSize DEF Index
  <1>2. Step(i, d) \in Index
    BY <1>1, Stepping
  <1>3. /\ i + d < RingDwords => Step(i, d) = i + d
        /\ i + d >= RingDwords => Step(i, d) = i + d - RingDwords
    BY <1>1, Stepping
  <1>4. /\ i <= t => Dist(i, t) = t - i
        /\ t < i => Dist(i, t) = t - i + RingDwords
    BY Distance
  <1>5. /\ Step(i, d) <= t => Dist(Step(i, d), t) = t - Step(i, d)
        /\ t < Step(i, d) => Dist(Step(i, d), t) = t - Step(i, d) + RingDwords
    BY <1>2, Distance
  <1> QED
    BY <1>1, <1>2, <1>3, <1>4, <1>5, RingSize DEF Index

\* The tail moves on by n cells, not as far as i.
LEMMA TailMoved ==
  ASSUME NEW i \in Index, NEW t \in Index, NEW n \in Nat, Dist(i, t) + n < RingDwords
  PROVE  Step(t, n) \in Index /\ Dist(i, Step(t, n)) = Dist(i, t) + n
  <1>1. n \in 0..RingDwords /\ Dist(i, t) \in Index
    BY Distance, RingSize DEF Index
  <1>2. Step(t, n) \in Index
    BY <1>1, Stepping
  <1>3. /\ t + n < RingDwords => Step(t, n) = t + n
        /\ t + n >= RingDwords => Step(t, n) = t + n - RingDwords
    BY <1>1, Stepping
  <1>4. /\ i <= t => Dist(i, t) = t - i
        /\ t < i => Dist(i, t) = t - i + RingDwords
    BY Distance
  <1>5. /\ i <= Step(t, n) => Dist(i, Step(t, n)) = Step(t, n) - i
        /\ Step(t, n) < i => Dist(i, Step(t, n)) = Step(t, n) - i + RingDwords
    BY <1>2, Distance
  <1> QED
    BY <1>1, <1>2, <1>3, <1>4, <1>5, RingSize DEF Index

\* A cell that the tail passes.
LEMMA TailPassed ==
  ASSUME NEW i \in Index, NEW t \in Index, NEW n \in 0..(RingDwords - 1), Dist(t, i) < n
  PROVE  Step(t, n) \in Index /\ Dist(i, Step(t, n)) = n - Dist(t, i)
  <1>1. n \in 0..RingDwords /\ Dist(t, i) \in Index
    BY Distance, RingSize DEF Index
  <1>2. Step(t, n) \in Index
    BY <1>1, Stepping
  <1>3. /\ t + n < RingDwords => Step(t, n) = t + n
        /\ t + n >= RingDwords => Step(t, n) = t + n - RingDwords
    BY <1>1, Stepping
  <1>4. /\ t <= i => Dist(t, i) = i - t
        /\ i < t => Dist(t, i) = i - t + RingDwords
    BY Distance
  <1>5. /\ i <= Step(t, n) => Dist(i, Step(t, n)) = Step(t, n) - i
        /\ Step(t, n) < i => Dist(i, Step(t, n)) = Step(t, n) - i + RingDwords
    BY <1>2, Distance
  <1> QED
    BY <1>1, <1>2, <1>3, <1>4, <1>5, RingSize DEF Index

\* One that it does not pass.
LEMMA Around ==
  ASSUME NEW i \in Index, NEW t \in Index
  PROVE  /\ i = t => Dist(t, i) = 0 /\ Dist(i, t) = 0
         /\ i # t => Dist(t, i) = RingDwords - Dist(i, t)
  <1>1. /\ i <= t => Dist(i, t) = t - i
        /\ t < i => Dist(i, t) = t - i + RingDwords
        /\ t <= i => Dist(t, i) = i - t
        /\ i < t => Dist(t, i) = i - t + RingDwords
    BY Distance
  <1> QED
    BY <1>1, RingSize DEF Index

----------------------------------------------------------------------------
(* Induction over numbers, as a fact about sets *)

\* A set of numbers has a least element.
LEMMA Smallest ==
  ASSUME NEW S \in SUBSET Nat, S # {}
  PROVE  \E x \in S : \A y \in S : x <= y
  <1> DEFINE L == OpToRel(<, Nat)
  <1>1. IsWellFoundedOn(L, Nat)
    BY NatLessThanWellFounded
  <1>2. \A x, y \in Nat : x < y => <<x, y>> \in L
    BY DEF OpToRel
  <1>3. \E x \in S : \A y \in S : <<y, x>> \notin L
    <2> HIDE DEF L
    <2> QED
      BY <1>1, WFMin
  <1>4. PICK x \in S : \A y \in S : <<y, x>> \notin L
    BY <1>3
  <1>5. \A y \in S : x <= y
    <2> SUFFICES ASSUME NEW y \in S, y < x PROVE FALSE
      OBVIOUS
    <2> QED
      BY <1>2, <1>4
  <1> QED
    BY <1>5

\* The principle of induction.
LEMMA AllNumbers ==
  ASSUME NEW S \in SUBSET Nat, 0 \in S, \A n \in S : n + 1 \in S
  PROVE  S = Nat
  <1> DEFINE T == Nat \ S
  <1> SUFFICES ASSUME T # {} PROVE FALSE
    OBVIOUS
  <1>1. PICK x \in T : \A y \in T : x <= y
    BY Smallest
  <1>2. x # 0 /\ x - 1 \in Nat /\ x - 1 \notin T
    BY <1>1
  <1> QED
    BY <1>1, <1>2

----------------------------------------------------------------------------
(* Tags in order *)

\* The tags of the packets lo to hi of boot b.
TagRun(b, lo, hi) == {<<b, j>> : j \in lo..hi}
\* The same in a sequence.
TagList(b, lo, hi) == [k \in 1..(hi - lo + 1) |-> <<b, lo + k - 1>>]

\* A run of tags has as many elements as it has numbers.
LEMMA RunOfTags ==
  ASSUME NEW b, NEW lo \in Nat, NEW hi \in Nat, lo <= hi + 1
  PROVE  /\ IsFiniteSet({<<b, j>> : j \in lo..hi})
         /\ Cardinality({<<b, j>> : j \in lo..hi}) = hi - lo + 1
  <1> DEFINE S == {<<b, j>> : j \in lo..hi}
             n == hi - lo + 1
             f == [k \in 1..n |-> <<b, lo + k - 1>>]
  <1>1. n \in Nat
    OBVIOUS
  <1>2. f \in Bijection(1..n, S)
    <2>1. \A k \in 1..n : lo + k - 1 \in lo..hi
      OBVIOUS
    <2>2. f \in [1..n -> S]
      BY <2>1
    <2>3. \A k, l \in 1..n : f[k] = f[l] => k = l
      OBVIOUS
    <2>4. \A x \in S : \E k \in 1..n : f[k] = x
      <3> SUFFICES ASSUME NEW j \in lo..hi PROVE \E k \in 1..n : f[k] = <<b, j>>
        OBVIOUS
      <3>1. j - lo + 1 \in 1..n /\ f[j - lo + 1] = <<b, j>>
        OBVIOUS
      <3> QED
        BY <3>1
    <2> QED
      BY <2>2, <2>3, <2>4 DEF Bijection, Injection, IsInjective, Surjection
  <1>3. IsFiniteSet(S) /\ Cardinality(S) = n
    <2> HIDE DEF S, n, f
    <2>1. ExistsBijection(1..n, S)
      BY <1>2 DEF ExistsBijection
    <2>2. Cardinality(S) = n
      BY <1>1, <2>1, FS_CountingElements
    <2>3. IsFiniteSet(S)
      <3>1. IsFiniteSet(1..n) /\ f \in Surjection(1..n, S)
        BY <1>1, <1>2, FS_Interval DEF Bijection
      <3> QED
        BY <3>1, FS_Surjection
    <2> QED
      BY <2>2, <2>3
  <1> QED
    BY <1>3

\* Tags of one boot are ordered by their numbers.
LEMMA InOrderIs ==
  ASSUME NEW b, NEW lo \in Nat, NEW hi \in Nat, lo <= hi + 1
  PROVE  InOrder(TagRun(b, lo, hi)) = TagList(b, lo, hi)
  <1> DEFINE S == {<<b, j>> : j \in lo..hi}
  <1>1. Cardinality(S) = hi - lo + 1
    BY RunOfTags
  <1>2. ASSUME NEW j \in lo..hi
        PROVE  Cardinality({y \in S : y[2] < <<b, j>>[2]}) = j - lo
    <2>1. {y \in S : y[2] < <<b, j>>[2]} = {<<b, i>> : i \in lo..(j - 1)}
      <3>1. ASSUME NEW i \in lo..hi PROVE <<b, i>>[2] < <<b, j>>[2] <=> i \in lo..(j - 1)
        OBVIOUS
      <3>2. lo..(j - 1) \subseteq lo..hi
        OBVIOUS
      <3> QED
        BY <3>1, <3>2
    <2>2. j - 1 \in Nat \/ j = 0
      OBVIOUS
    <2>3. CASE j = 0
      <3>1. {<<b, i>> : i \in lo..(j - 1)} = {}
        BY <2>3
      <3> QED
        BY <2>1, <2>3, <3>1, FS_EmptySet
    <2>4. CASE j - 1 \in Nat
      <3>1. PICK m \in Nat : m = j - 1
        BY <2>4
      <3>2. lo <= m + 1
        BY <3>1
      <3>3. Cardinality({<<b, i>> : i \in lo..m}) = m - lo + 1
        BY <3>2, RunOfTags
      <3> QED
        BY <2>1, <3>1, <3>3
    <2> QED
      BY <2>2, <2>3, <2>4
  <1>3. ASSUME NEW k \in 1..(hi - lo + 1)
        PROVE  (CHOOSE x \in S : Cardinality({y \in S : y[2] < x[2]}) = k - 1) = <<b, lo + k - 1>>
    <2>1. lo + k - 1 \in lo..hi
      OBVIOUS
    <2>2. <<b, lo + k - 1>> \in S /\ Cardinality({y \in S : y[2] < <<b, lo + k - 1>>[2]}) = k - 1
      BY <1>2, <2>1
    <2>3. ASSUME NEW x \in S, Cardinality({y \in S : y[2] < x[2]}) = k - 1 PROVE x = <<b, lo + k - 1>>
      <3>1. PICK j \in lo..hi : x = <<b, j>>
        OBVIOUS
      <3>2. Cardinality({y \in S : y[2] < <<b, j>>[2]}) = j - lo
        BY <1>2, <3>1
      <3>3. j - lo = k - 1
        BY <2>3, <3>1, <3>2
      <3> QED
        BY <3>1, <3>3
    <2> QED
      BY <2>2, <2>3
  <1> QED
    BY <1>1, <1>3 DEF InOrder, TagRun, TagList

\* What a word may be.
Words == 0..WordMax

\* The powers of two that a word is made of.
LEMMA Powers ==
  2^0 = 1 /\ 2^1 = 2 /\ 2^2 = 4 /\ 2^3 = 8 /\ 2^4 = 16 /\ 2^5 = 32 /\ 2^6 = 64 /\ 2^7 = 128
  OBVIOUS

\* A word is the sum of its bits.
LEMMA BitsOfWord ==
  ASSUME NEW v \in Words
  PROVE  /\ \A i \in 0..7 : Bit(v, i) \in {0, 1}
         /\ v = Bit(v, 0) + 2 * Bit(v, 1) + 4 * Bit(v, 2) + 8 * Bit(v, 3) + 16 * Bit(v, 4)
                + 32 * Bit(v, 5) + 64 * Bit(v, 6) + 128 * Bit(v, 7)
  <1>0. v \in 0..255
    BY DEF Words, WordMax
  <1>1. /\ Bit(v, 0) = v % 2  /\ Bit(v, 1) = (v \div 2) % 2  /\ Bit(v, 2) = (v \div 4) % 2
        /\ Bit(v, 3) = (v \div 8) % 2  /\ Bit(v, 4) = (v \div 16) % 2  /\ Bit(v, 5) = (v \div 32) % 2
        /\ Bit(v, 6) = (v \div 64) % 2  /\ Bit(v, 7) = (v \div 128) % 2
    BY <1>0, Powers DEF Bit
  <1>2. v = 2 * (v \div 2) + (v % 2) /\ v \div 2 = 2 * (v \div 4) + ((v \div 2) % 2)
    BY <1>0
  <1>3. v \div 4 = 2 * (v \div 8) + ((v \div 4) % 2) /\ v \div 8 = 2 * (v \div 16) + ((v \div 8) % 2)
    BY <1>0
  <1>4. v \div 16 = 2 * (v \div 32) + ((v \div 16) % 2)
        /\ v \div 32 = 2 * (v \div 64) + ((v \div 32) % 2)
    BY <1>0
  <1>5. v \div 64 = 2 * (v \div 128) + ((v \div 64) % 2) /\ v \div 128 = (v \div 128) % 2
    BY <1>0
  <1>6. /\ v \div 2 \in Int /\ v \div 4 \in Int /\ v \div 8 \in Int /\ v \div 16 \in Int
        /\ v \div 32 \in Int /\ v \div 64 \in Int /\ v \div 128 \in Int
    BY <1>0
  <1>7. /\ Bit(v, 0) \in {0, 1} /\ Bit(v, 1) \in {0, 1} /\ Bit(v, 2) \in {0, 1} /\ Bit(v, 3) \in {0, 1}
        /\ Bit(v, 4) \in {0, 1} /\ Bit(v, 5) \in {0, 1} /\ Bit(v, 6) \in {0, 1} /\ Bit(v, 7) \in {0, 1}
    BY <1>0, <1>1
  <1>8. v = Bit(v, 0) + 2 * Bit(v, 1) + 4 * Bit(v, 2) + 8 * Bit(v, 3) + 16 * Bit(v, 4)
                  + 32 * Bit(v, 5) + 64 * Bit(v, 6) + 128 * Bit(v, 7)
    <2> DEFINE q1 == v \div 2 q2 == v \div 4 q3 == v \div 8 q4 == v \div 16 q5 == v \div 32 q6 == v \div 64 q7 == v \div 128
    <2>1. v = 2 * q1 + Bit(v, 0) /\ q1 = 2 * q2 + Bit(v, 1) /\ q2 = 2 * q3 + Bit(v, 2)
      BY <1>1, <1>2, <1>3
    <2>2. q3 = 2 * q4 + Bit(v, 3) /\ q4 = 2 * q5 + Bit(v, 4) /\ q5 = 2 * q6 + Bit(v, 5)
      BY <1>1, <1>3, <1>4
    <2>3. q6 = 2 * q7 + Bit(v, 6) /\ q7 = Bit(v, 7)
      BY <1>1, <1>5
    <2>4. q1 \in Int /\ q2 \in Int /\ q3 \in Int /\ q4 \in Int /\ q5 \in Int /\ q6 \in Int /\ q7 \in Int
      BY <1>6
    <2> HIDE DEF q1, q2, q3, q4, q5, q6, q7
    <2>5. v = 4 * q2 + 2 * Bit(v, 1) + Bit(v, 0)
      BY <1>0, <1>7, <2>1, <2>4
    <2>6. q2 = 4 * q4 + 2 * Bit(v, 3) + Bit(v, 2)
      BY <1>7, <2>1, <2>2, <2>4
    <2>7. q4 = 4 * q6 + 2 * Bit(v, 5) + Bit(v, 4)
      BY <1>7, <2>2, <2>4
    <2>8. q6 = 2 * Bit(v, 7) + Bit(v, 6)
      BY <1>7, <2>3, <2>4
    <2>9. q2 = 16 * q6 + 8 * Bit(v, 5) + 4 * Bit(v, 4) + 2 * Bit(v, 3) + Bit(v, 2)
      BY <1>7, <2>6, <2>7, <2>4
    <2>10. v = 64 * q6 + 32 * Bit(v, 5) + 16 * Bit(v, 4) + 8 * Bit(v, 3) + 4 * Bit(v, 2) + 2 * Bit(v, 1) + Bit(v, 0)
      BY <1>0, <1>7, <2>5, <2>9, <2>4
    <2>12. PICK b0, b1, b2, b3, b4, b5, b6, b7 \in {0, 1}, q \in Int :
             /\ b0 = Bit(v, 0) /\ b1 = Bit(v, 1) /\ b2 = Bit(v, 2) /\ b3 = Bit(v, 3)
             /\ b4 = Bit(v, 4) /\ b5 = Bit(v, 5) /\ b6 = Bit(v, 6) /\ b7 = Bit(v, 7) /\ q = q6
      BY <1>7, <2>4
    <2>13. v = 64 * q + 32 * b5 + 16 * b4 + 8 * b3 + 4 * b2 + 2 * b1 + b0 /\ q = 2 * b7 + b6
      BY <2>8, <2>10, <2>12
    <2>14. v = b0 + 2 * b1 + 4 * b2 + 8 * b3 + 16 * b4 + 32 * b5 + 64 * b6 + 128 * b7
      BY <1>0, <2>13
    <2> QED
      BY <2>12, <2>14
  <1> QED
    <2>1. \A i \in 0..7 : i = 0 \/ i = 1 \/ i = 2 \/ i = 3 \/ i = 4 \/ i = 5 \/ i = 6 \/ i = 7
      OBVIOUS
    <2> QED
      BY <1>7, <1>8, <2>1

\* A weight times two bits.
LEMMA Products ==
  ASSUME NEW u \in {0, 1}, NEW w \in {0, 1}, NEW c \in Nat
  PROVE  /\ (c * u) * w \in Nat
         /\ u = 0 \/ w = 0 => (c * u) * w = 0
         /\ u = 1 /\ w = 1 => (c * u) * w = c
  <1>1. CASE u = 0
    BY <1>1
  <1>2. CASE w = 0
    BY <1>2
  <1>3. CASE u = 1 /\ w = 1
    BY <1>3
  <1> QED
    BY <1>1, <1>2, <1>3

\* And and or of two words are words.
LEMMA WordsOfBits ==
  ASSUME NEW x \in Words, NEW y \in Words
  PROVE  BitAnd(x, y) \in Words /\ BitOr(x, y) \in Words
  <1> DEFINE B(i) == 2^i * Bit(x, i) * Bit(y, i)
             O(i, c) == c * Bit(x, i) + c * Bit(y, i) - B(i)
  <1>1. ASSUME NEW i \in 0..7, NEW c \in Nat, 2^i = c
        PROVE  B(i) \in 0..c /\ O(i, c) \in 0..c
    <2>1. Bit(x, i) \in {0, 1} /\ Bit(y, i) \in {0, 1}
      BY BitsOfWord
    <2>2. /\ B(i) \in Nat
          /\ Bit(x, i) = 0 \/ Bit(y, i) = 0 => B(i) = 0
          /\ Bit(x, i) = 1 /\ Bit(y, i) = 1 => B(i) = c
      BY <1>1, <2>1, Products
    <2> HIDE DEF B
    <2> QED
      BY <2>1, <2>2
  <1>2. BitAnd(x, y) = B(0) + B(1) + B(2) + B(3) + B(4) + B(5) + B(6) + B(7)
    BY DEF BitAnd
  <1>3. /\ B(0) \in 0..1 /\ O(0, 1) \in 0..1
        /\ B(1) \in 0..2 /\ O(1, 2) \in 0..2
        /\ B(2) \in 0..4 /\ O(2, 4) \in 0..4
        /\ B(3) \in 0..8 /\ O(3, 8) \in 0..8
        /\ B(4) \in 0..16 /\ O(4, 16) \in 0..16
        /\ B(5) \in 0..32 /\ O(5, 32) \in 0..32
        /\ B(6) \in 0..64 /\ O(6, 64) \in 0..64
        /\ B(7) \in 0..128 /\ O(7, 128) \in 0..128
    <2> HIDE DEF B, O
    <2> QED
      BY <1>1, Powers
  <1>4. \A i \in 0..7 : Bit(x, i) \in {0, 1} /\ Bit(y, i) \in {0, 1}
    BY BitsOfWord
  <1>5. /\ x = Bit(x, 0) + 2 * Bit(x, 1) + 4 * Bit(x, 2) + 8 * Bit(x, 3) + 16 * Bit(x, 4)
                  + 32 * Bit(x, 5) + 64 * Bit(x, 6) + 128 * Bit(x, 7)
        /\ y = Bit(y, 0) + 2 * Bit(y, 1) + 4 * Bit(y, 2) + 8 * Bit(y, 3) + 16 * Bit(y, 4)
                  + 32 * Bit(y, 5) + 64 * Bit(y, 6) + 128 * Bit(y, 7)
    BY BitsOfWord
  <1>6. BitAnd(x, y) \in Words
    <2>1. PICK b0 \in 0..1, b1 \in 0..2, b2 \in 0..4, b3 \in 0..8, b4 \in 0..16, b5 \in 0..32,
          b6 \in 0..64,
               b7 \in 0..128 :
            /\ b0 = B(0) /\ b1 = B(1) /\ b2 = B(2) /\ b3 = B(3)
            /\ b4 = B(4) /\ b5 = B(5) /\ b6 = B(6) /\ b7 = B(7)
      <3> HIDE DEF B
      <3> QED
        BY <1>3
    <2>2. BitAnd(x, y) = b0 + b1 + b2 + b3 + b4 + b5 + b6 + b7
      <3> HIDE DEF B
      <3> QED
        BY <1>2, <2>1
    <2>3. b0 + b1 + b2 + b3 + b4 + b5 + b6 + b7 \in 0..255
      OBVIOUS
    <2> QED
      BY <2>2, <2>3 DEF Words, WordMax
  <1>7. x + y - BitAnd(x, y) \in Words
    <2> DEFINE X(i) == Bit(x, i)
               Y(i) == Bit(y, i)
    <2>1. PICK b0 \in 0..1, b1 \in 0..2, b2 \in 0..4, b3 \in 0..8, b4 \in 0..16, b5 \in 0..32,
          b6 \in 0..64,
               b7 \in 0..128 :
            /\ b0 = B(0) /\ b1 = B(1) /\ b2 = B(2) /\ b3 = B(3)
            /\ b4 = B(4) /\ b5 = B(5) /\ b6 = B(6) /\ b7 = B(7)
      <3> HIDE DEF B
      <3> QED
        BY <1>3
    <2>2. PICK x0, x1, x2, x3, x4, x5, x6, x7 \in {0, 1} :
            /\ x0 = X(0) /\ x1 = X(1) /\ x2 = X(2) /\ x3 = X(3)
            /\ x4 = X(4) /\ x5 = X(5) /\ x6 = X(6) /\ x7 = X(7)
      <3> QED
        BY <1>4
    <2>3. PICK y0, y1, y2, y3, y4, y5, y6, y7 \in {0, 1} :
            /\ y0 = Y(0) /\ y1 = Y(1) /\ y2 = Y(2) /\ y3 = Y(3)
            /\ y4 = Y(4) /\ y5 = Y(5) /\ y6 = Y(6) /\ y7 = Y(7)
      <3> QED
        BY <1>4
    <2>4. /\ x = x0 + 2 * x1 + 4 * x2 + 8 * x3 + 16 * x4 + 32 * x5 + 64 * x6 + 128 * x7
          /\ y = y0 + 2 * y1 + 4 * y2 + 8 * y3 + 16 * y4 + 32 * y5 + 64 * y6 + 128 * y7
      BY <1>5, <2>2, <2>3
    <2>5. /\ x0 + y0 - b0 \in 0..1 /\ 2 * x1 + 2 * y1 - b1 \in 0..2
          /\ 4 * x2 + 4 * y2 - b2 \in 0..4 /\ 8 * x3 + 8 * y3 - b3 \in 0..8
          /\ 16 * x4 + 16 * y4 - b4 \in 0..16 /\ 32 * x5 + 32 * y5 - b5 \in 0..32
          /\ 64 * x6 + 64 * y6 - b6 \in 0..64 /\ 128 * x7 + 128 * y7 - b7 \in 0..128
      <3> HIDE DEF B
      <3> QED
        BY <1>3, <2>1, <2>2, <2>3
    <2>6. BitAnd(x, y) = b0 + b1 + b2 + b3 + b4 + b5 + b6 + b7
      <3> HIDE DEF B
      <3> QED
        BY <1>2, <2>1
    <2> HIDE DEF B, X, Y
    <2>7. PICK o0 \in 0..1, o1 \in 0..2, o2 \in 0..4, o3 \in 0..8, o4 \in 0..16, o5 \in 0..32,
          o6 \in 0..64,
               o7 \in 0..128 :
            /\ o0 = x0 + y0 - b0 /\ o1 = 2 * x1 + 2 * y1 - b1
            /\ o2 = 4 * x2 + 4 * y2 - b2 /\ o3 = 8 * x3 + 8 * y3 - b3
            /\ o4 = 16 * x4 + 16 * y4 - b4 /\ o5 = 32 * x5 + 32 * y5 - b5
            /\ o6 = 64 * x6 + 64 * y6 - b6 /\ o7 = 128 * x7 + 128 * y7 - b7
      BY <2>5
    <2>8. o0 + o1 + o2 + o3 + o4 + o5 + o6 + o7 \in 0..255
      OBVIOUS
    <2>9. x + y - BitAnd(x, y) = o0 + o1 + o2 + o3 + o4 + o5 + o6 + o7
      BY <2>4, <2>6, <2>7
    <2> QED
      BY <2>8, <2>9 DEF Words, WordMax
  <1> QED
    BY <1>6, <1>7 DEF BitOr

\* Physical memory, as the model has it.
Addresses == 0..(WriteBackAt + 7)

\* The entries of the table of headers: the three of VdSwap, then the title's.
LEMMA Tables ==
  /\ Len(Table) = 3 + Len(Headers) /\ Len(Headers) \in Nat
  /\ \A k \in 1..Len(Table) : /\ Table[k] \in HeaderSet
                              /\ Table[k].n = 0 <=> Table[k].type \in {"type1", "type2"}
  /\ Table[1] = SwapHeaders[1] /\ Table[2] = SwapHeaders[2] /\ Table[3] = SwapHeaders[3]
  <1>1. Headers \in Seq(HeaderSet) /\ \A k \in 1..Len(Headers) : Headers[k].n = 0
        <=> Headers[k].type \in {"type1", "type2"}
    BY HeadersAssumption
  <1>2. \A k \in 1..3 : SwapHeaders[k] \in HeaderSet
        /\ (SwapHeaders[k].n = 0 <=> SwapHeaders[k].type \in {"type1", "type2"})
    <2>1. ASSUME NEW type \in {"type0", "type3"}, NEW op \in Ops, NEW n \in Nat \ {0}, NEW base \in Nat
          PROVE  Header(type, op, n, base) \in HeaderSet /\ Header(type, op, n, base).n # 0
                 /\ Header(type, op, n, base).type = type
      BY DEF Header, HeaderSet
    <2>2. Header("type2", "NOP", 0, 0) \in HeaderSet /\ Header("type2", "NOP", 0, 0).n = 0
          /\ Header("type2", "NOP", 0, 0).type = "type2"
      BY DEF Header, HeaderSet, Ops
    <2>3. /\ SwapHeaders[1] = Header("type0", "NOP", 2, FETCH_00)
          /\ SwapHeaders[2] = Header("type3", "XE_SWAP", 4, 0)
          /\ SwapHeaders[3] = Header("type2", "NOP", 0, 0)
      BY DEF SwapHeaders
    <2>4. \A k \in 1..3 : k = 1 \/ k = 2 \/ k = 3
      OBVIOUS
    <2>5. /\ SwapHeaders[1] \in HeaderSet /\ SwapHeaders[1].n # 0 /\ SwapHeaders[1].type = "type0"
          /\ SwapHeaders[2] \in HeaderSet /\ SwapHeaders[2].n # 0 /\ SwapHeaders[2].type = "type3"
          /\ SwapHeaders[3] \in HeaderSet /\ SwapHeaders[3].n = 0 /\ SwapHeaders[3].type = "type2"
      <3>1. "NOP" \in Ops /\ "XE_SWAP" \in Ops /\ FETCH_00 \in Nat
        BY DEF Ops, FETCH_00
      <3>2. 2 \in Nat \ {0} /\ 4 \in Nat \ {0} /\ 0 \in Nat
        OBVIOUS
      <3> QED
        BY <2>1, <2>2, <2>3, <3>1, <3>2
    <2> QED
      BY <2>4, <2>5
  <1>3. SwapHeaders \in Seq(HeaderSet) /\ Len(SwapHeaders) = 3
    <2>1. \A k \in 1..3 : SwapHeaders[k] \in HeaderSet
      BY <1>2
    <2> QED
      BY <2>1 DEF SwapHeaders
  <1>4. /\ Len(Table) = 3 + Len(Headers) /\ Len(Headers) \in Nat
        /\ \A k \in 1..Len(Table) : Table[k] = IF k <= 3 THEN SwapHeaders[k] ELSE Headers[k - 3]
    <2>1. Table \in Seq(HeaderSet) /\ Len(Table) = Len(SwapHeaders) + Len(Headers)
      BY <1>1, <1>3, ConcatProperties DEF Table
    <2>2. \A k \in 1..(Len(SwapHeaders) + Len(Headers)) :
            Table[k] = IF k <= Len(SwapHeaders) THEN SwapHeaders[k] ELSE Headers[k - Len(SwapHeaders)]
      BY <1>1, <1>3, ConcatProperties DEF Table
    <2>3. Len(Headers) \in Nat
      BY <1>1, LenProperties
    <2> QED
      BY <1>3, <2>1, <2>2, <2>3
  <1>5. ASSUME NEW k \in 1..Len(Table)
        PROVE  Table[k] \in HeaderSet /\ (Table[k].n = 0 <=> Table[k].type \in {"type1", "type2"})
    <2>1. CASE k <= 3
      BY <1>2, <1>4, <2>1
    <2>2. CASE k > 3
      <3>1. k - 3 \in 1..Len(Headers) /\ Table[k] = Headers[k - 3]
        BY <1>4, <2>2
      <3>2. Headers[k - 3] \in HeaderSet
        BY <1>1, <3>1, ElementOfSeq
      <3> QED
        BY <1>1, <3>1, <3>2
    <2> QED
      BY <2>1, <2>2
  <1> QED
    BY <1>4, <1>5

\* What is read in a cell is a header, and a word if it is read as a value.
LEMMA HeadersOfCells ==
  ASSUME NEW cell \in Cells
  PROVE  /\ HeaderOf(cell) \in HeaderSet
         /\ HeaderOf(cell).n = 0 <=> HeaderOf(cell).type \in {"type1", "type2"}
         /\ ~IsHeader(cell) => /\ cell \in Words /\ ~IsSwap(cell) /\ Value(cell) = cell
         /\ Value(cell) \in Words
  <1>1. CASE IsHeader(cell)
    <2>1. cell - WordMax \in 1..Len(Table)
      BY <1>1, Tables DEF IsHeader, Cells, WordMax
    <2> QED
      BY <1>1, <2>1, Tables DEF HeaderOf, IsHeader, Value, Cells, Words, WordMax
  <1>2. CASE ~IsHeader(cell)
    <2>1. cell \in 0..255 /\ Value(cell) = cell
      BY <1>2 DEF IsHeader, Cells, WordMax, Value
    <2>2. HeaderOf(cell) = Header("type0", "NOP", 1, cell)
      BY <1>2 DEF HeaderOf
    <2> QED
      <3>1. /\ HeaderOf(cell) \in HeaderSet /\ HeaderOf(cell).n = 1 /\ HeaderOf(cell).type = "type0"
            /\ HeaderOf(cell).op = "NOP"
        BY <2>1, <2>2 DEF Header, HeaderSet, Ops
      <3> QED
        BY <1>2, <2>1, <3>1 DEF Words, WordMax, IsSwap
  <1> QED
    BY <1>1, <1>2

\* The three headers of VdSwap, written into a cell, are read back.
LEMMA SwapCells ==
  \A k \in 1..3 : /\ Cell(SwapHeaders[k]) \in Cells
                  /\ IsHeader(Cell(SwapHeaders[k]))
                  /\ HeaderOf(Cell(SwapHeaders[k])) = SwapHeaders[k]
  <1> SUFFICES ASSUME NEW k \in 1..3
               PROVE  /\ Cell(SwapHeaders[k]) \in Cells
                      /\ IsHeader(Cell(SwapHeaders[k]))
                      /\ HeaderOf(Cell(SwapHeaders[k])) = SwapHeaders[k]
    OBVIOUS
  <1>1. k \in 1..Len(Table) /\ Table[k] = SwapHeaders[k]
    <2>1. k = 1 \/ k = 2 \/ k = 3
      OBVIOUS
    <2> QED
      BY <2>1, Tables
  <1>2. PICK j \in 1..Len(Table) : Table[j] = SwapHeaders[k] /\ Cell(SwapHeaders[k]) = WordMax + j
    BY <1>1 DEF Cell
  <1> QED
    BY <1>2, Tables DEF IsHeader, HeaderOf, Cells, WordMax

\* A word in a cell is no header and no swap.
LEMMA WordsAreCells == \A v \in Words : v \in Cells /\ ~IsHeader(v) /\ ~IsSwap(v)
  <1>1. \A v \in Words : v \in Cells /\ ~IsHeader(v)
    BY Tables DEF Words, Cells, IsHeader, WordMax
  <1> QED
    BY <1>1, HeadersOfCells

\* A word whose bytes are exchanged is a word.
LEMMA SwappedWords ==
  ASSUME NEW v \in Words, NEW order \in Nat
  PROVE  GpuSwap(v, order) \in Words
  <1>1. v \in 0..255
    BY DEF Words, WordMax
  <1>2. (v % 16) * 16 + v \div 16 \in 0..255
    BY <1>1
  <1>3. (v % 4) * 64 + ((v \div 4) % 4) * 16 + ((v \div 16) % 4) * 4 + v \div 64 \in 0..255
    BY <1>1
  <1> QED
    BY <1>1, <1>2, <1>3 DEF GpuSwap, Words, WordMax

\* The registers, the memories and the machine states there may be.
Regs == [0..(kRegCount - 1) -> Words]
Mems == [Addresses -> Cells]
Good(g) == g \in [regs : Regs, mem : Mems, bins : {g.bins}, screen : {g.screen}]
\* What an instruction may make of a machine state: words in memory, nothing on the screen.
Writes(g, r) ==
  /\ Good(r) /\ r.screen = g.screen
  /\ \A a \in Addresses : r.mem[a] = g.mem[a] \/ r.mem[a] \in Words

\* One instruction after another.
LEMMA WritesAgain ==
  ASSUME NEW g, NEW r, NEW q, Writes(g, r), Writes(r, q)
  PROVE  Writes(g, q)
  BY DEF Writes

\* Doing nothing.
LEMMA WritesNothing ==
  ASSUME NEW g, Good(g)
  PROVE  Writes(g, g)
  BY DEF Writes

\* A word that is written into memory, or beside it.
LEMMA PhysWritten ==
  ASSUME NEW m \in Mems, NEW pa, NEW v \in Words
  PROVE  /\ WritePhys(m, pa, v) \in Mems
         /\ \A a \in Addresses : WritePhys(m, pa, v)[a] = m[a] \/ WritePhys(m, pa, v)[a] \in Words
  BY WordsAreCells DEF WritePhys, Mems

\* What is read from memory, or beside it.
LEMMA PhysRead ==
  ASSUME NEW m \in Mems, NEW pa
  PROVE  ReadPhys(m, pa) \in Cells /\ Value(ReadPhys(m, pa)) \in Words
  <1>1. ReadPhys(m, pa) \in Cells
    BY WordsAreCells DEF ReadPhys, Mems, Words, WordMax
  <1> QED
    BY <1>1, HeadersOfCells

\* The write of a register: the others keep their values, and a scratch register may be written back.
LEMMA RegisterWritten ==
  ASSUME NEW g, Good(g), NEW i \in Nat, NEW v \in Words
  PROVE  /\ Writes(g, WriteRegister(g, i, v))
         /\ i < kRegCount /\ i # COHER_STATUS => WriteRegister(g, i, v).regs[i] = v
         /\ \A j \in 0..(kRegCount - 1) : j # i => WriteRegister(g, i, v).regs[j] = g.regs[j]
         /\ WriteRegister(g, i, v).bins = g.bins
  <1>1. CASE i >= kRegCount
    BY <1>1, WritesNothing DEF WriteRegister, kRegCount
  <1>2. CASE i < kRegCount
    <2> DEFINE w == IF i = COHER_STATUS THEN BitOr(v, 128) ELSE v
               r == [g EXCEPT !.regs[i] = w]
               q == [r EXCEPT !.mem = WritePhys(@, r.regs[SCRATCH_ADDR] \div 4 + i, v)]
    <2>1. w \in Words
      <3>1. 128 \in Words
        BY DEF Words, WordMax
      <3> QED
        BY <3>1, WordsOfBits
    <2>2. g.regs \in Regs /\ g.mem \in Mems
      BY DEF Good
    <2>3. /\ r.regs = [g.regs EXCEPT ![i] = w] /\ r.mem = g.mem /\ r.bins = g.bins
          /\ r.screen = g.screen
          /\ DOMAIN r = DOMAIN g
      BY DEF Good
    <2>4. i \in 0..(kRegCount - 1)
      BY <1>2 DEF kRegCount
    <2>5. r.regs \in Regs /\ r.regs[i] = w /\ \A j \in 0..(kRegCount - 1) : j # i
          => r.regs[j] = g.regs[j]
      <3> HIDE DEF r, w
      <3> QED
        BY <2>1, <2>2, <2>3, <2>4 DEF Regs
    <2>6. Good(r)
      <3> HIDE DEF w
      <3> QED
        BY <2>1, <2>2, <2>4, <2>5 DEF Good
    <2>7. Writes(g, r)
      BY <2>3, <2>6 DEF Writes
    <2>8. q.regs = r.regs /\ q.bins = r.bins /\ q.screen = r.screen /\ Writes(r, q)
      <3> HIDE DEF r
      <3>1. r.mem \in Mems
        BY <2>6 DEF Good
      <3>2. q.mem = WritePhys(r.mem, r.regs[SCRATCH_ADDR] \div 4 + i, v)
        BY <2>6 DEF Good
      <3>3. q.regs = r.regs /\ q.bins = r.bins /\ q.screen = r.screen
        BY <2>6 DEF Good
      <3>4. q.mem \in Mems /\ \A a \in Addresses : q.mem[a] = r.mem[a] \/ q.mem[a] \in Words
        BY <3>1, <3>2, PhysWritten
      <3>5. Good(q)
        BY <2>6, <3>4 DEF Good
      <3> QED
        BY <3>3, <3>4, <3>5 DEF Writes
    <2>9. WriteRegister(g, i, v) = IF i \in 0..1 /\ Bit(r.regs[SCRATCH_UMSK], i) = 1 THEN q ELSE r
      BY <1>2 DEF WriteRegister, kRegCount
    <2>10. Writes(g, q)
      <3> HIDE DEF r, q
      <3> QED
        BY <2>7, <2>8, WritesAgain
    <2>11. i # COHER_STATUS => w = v
      OBVIOUS
    <2> HIDE DEF r, q, w
    <2> QED
      BY <2>3, <2>5, <2>7, <2>8, <2>9, <2>10, <2>11
  <1> QED
    BY <1>1, <1>2 DEF kRegCount

\* A chain of register writes, one after the other.
InTurn(f, g, first, values, oneReg) ==
  /\ f[0] = g
  /\ \A k \in 1..Len(values) :
       f[k] = WriteRegister(f[k - 1], IF oneReg THEN first ELSE first + k - 1, values[k])

\* WriteRegisters writes one register after the other.
LEMMA RegistersInTurn ==
  ASSUME NEW g, NEW first, NEW values, Len(values) \in Nat, NEW oneReg
  PROVE  \E f : /\ InTurn(f, g, first, values, oneReg)
                /\ WriteRegisters(g, first, values, oneReg) = f[Len(values)]
  <1> DEFINE Stage(f, k) == IF k = 0 THEN g
                            ELSE WriteRegister(f[k - 1], IF oneReg THEN first ELSE first + k - 1, values[k])
             Run(m, f) == f = [k \in 0..m |-> Stage(f, k)]
             S == {m \in Nat : \E f : Run(m, f)}
             Last_ == CHOOSE f : f = [k \in 0..Len(values) |-> Stage(f, k)]
  <1>1. 0 \in S
    <2>1. Run(0, [k \in 0..0 |-> g])
      OBVIOUS
    <2> QED
      BY <2>1
  <1>2. ASSUME NEW m \in S PROVE m + 1 \in S
    <2>1. PICK f : Run(m, f)
      OBVIOUS
    <2> DEFINE h == [k \in 0..(m + 1) |-> Stage(f, k)]
    <2>2. \A k \in 0..m : h[k] = f[k]
      BY <2>1
    <2>3. \A k \in 0..(m + 1) : Stage(h, k) = Stage(f, k)
      <3> SUFFICES ASSUME NEW k \in 0..(m + 1) PROVE Stage(h, k) = Stage(f, k)
        OBVIOUS
      <3>1. CASE k = 0
        BY <3>1
      <3>2. CASE k # 0
        <4>1. k - 1 \in 0..m
          BY <3>2
        <4>2. h[k - 1] = f[k - 1]
          BY <2>2, <4>1
        <4> HIDE DEF h
        <4> QED
          BY <4>2
      <3> QED
        BY <3>1, <3>2
    <2>4. Run(m + 1, h)
      <3> HIDE DEF Stage
      <3> QED
        BY <2>3
    <2> HIDE DEF Run, h
    <2> QED
      BY <2>4
  <1>3. S = Nat
    <2> HIDE DEF S
    <2> QED
      BY <1>1, <1>2, AllNumbers DEF S
  <1>4. \E f : f = [k \in 0..Len(values) |-> Stage(f, k)]
    BY <1>3
  <1>5. Last_ = [k \in 0..Len(values) |-> Stage(Last_, k)]
    <2> HIDE DEF Stage
    <2> QED
      BY <1>4
  <1>6. WriteRegisters(g, first, values, oneReg) = Last_[Len(values)]
    BY DEF WriteRegisters
  <1> HIDE DEF Last_
  <1>7. Last_[0] = g
    BY <1>5
  <1>8. \A k \in 1..Len(values) : Last_[k] = Stage(Last_, k)
    <2> HIDE DEF Stage
    <2> QED
      BY <1>5
  <1>9. InTurn(Last_, g, first, values, oneReg)
    BY <1>7, <1>8 DEF InTurn
  <1> QED
    BY <1>6, <1>9

\* The stages of the writing: each writes one register more.
Staged(f, g, first, n, values, oneReg) ==
  /\ \A k \in 1..n : f[k] = WriteRegister(f[k - 1], IF oneReg THEN first ELSE first + k - 1, values[k])
  /\ \A k \in 0..n : Writes(g, f[k]) /\ f[k].bins = g.bins
  /\ WriteRegisters(g, first, values, oneReg) = f[n]

\* And each stage is a machine state.
LEMMA RegistersStaged ==
  ASSUME NEW g, Good(g), NEW first \in Nat, NEW n \in Nat, NEW values, Len(values) = n,
         \A k \in 1..n : values[k] \in Words, NEW oneReg
  PROVE  \E f : Staged(f, g, first, n, values, oneReg)
  <1>01. Len(values) \in Nat
    OBVIOUS
  <1>0. PICK f : /\ InTurn(f, g, first, values, oneReg)
                 /\ WriteRegisters(g, first, values, oneReg) = f[Len(values)]
    BY <1>01, RegistersInTurn
  <1>1. /\ f[0] = g
        /\ \A k \in 1..n :
              f[k] = WriteRegister(f[k - 1], IF oneReg THEN first ELSE first + k - 1, values[k])
        /\ WriteRegisters(g, first, values, oneReg) = f[n]
    BY <1>0 DEF InTurn
  <1> DEFINE S == {m \in Nat : m <= n => Writes(g, f[m]) /\ f[m].bins = g.bins}
  <1>2. 0 \in S
    BY <1>1, WritesNothing
  <1>3. ASSUME NEW m \in S PROVE m + 1 \in S
    <2> SUFFICES ASSUME m + 1 <= n PROVE Writes(g, f[m + 1]) /\ f[m + 1].bins = g.bins
      OBVIOUS
    <2>1. Writes(g, f[m]) /\ f[m].bins = g.bins
      OBVIOUS
    <2> DEFINE i == IF oneReg THEN first ELSE first + (m + 1) - 1
    <2>2. i \in Nat /\ m + 1 \in 1..n /\ (m + 1) - 1 = m
      OBVIOUS
    <2>3. f[m + 1] = WriteRegister(f[m], i, values[m + 1])
      BY <1>1, <2>2
    <2> HIDE DEF i
    <2>4. Good(f[m]) /\ values[m + 1] \in Words
      BY <2>1, <2>2 DEF Writes
    <2>5. Writes(f[m], WriteRegister(f[m], i, values[m + 1]))
          /\ WriteRegister(f[m], i, values[m + 1]).bins = f[m].bins
      BY <2>2, <2>4, RegisterWritten
    <2> QED
      BY <2>1, <2>3, <2>5, WritesAgain
  <1>4. S = Nat
    <2> HIDE DEF S
    <2> QED
      BY <1>2, <1>3, AllNumbers DEF S
  <1>5. \A k \in 0..n : Writes(g, f[k]) /\ f[k].bins = g.bins
    BY <1>4
  <1>6. Staged(f, g, first, n, values, oneReg)
    BY <1>1, <1>5 DEF Staged
  <1> QED
    BY <1>6

\* The write of any number of registers.
LEMMA RegistersWritten ==
  ASSUME NEW g, Good(g), NEW first \in Nat, NEW n \in Nat, NEW values, Len(values) = n,
         \A k \in 1..n : values[k] \in Words, NEW oneReg
  PROVE  /\ Writes(g, WriteRegisters(g, first, values, oneReg))
         /\ WriteRegisters(g, first, values, oneReg).bins = g.bins
  <1>1. PICK f : Staged(f, g, first, n, values, oneReg)
    BY RegistersStaged
  <1>2. n \in 0..n
    OBVIOUS
  <1> QED
    BY <1>1, <1>2 DEF Staged

\* The second of two registers, the page of a fetch constant.
LEMMA SecondRegisterWritten ==
  ASSUME NEW g, Good(g), NEW values, Len(values) = 2, \A k \in 1..2 : values[k] \in Words
  PROVE  WriteRegisters(g, FETCH_00, values, FALSE).regs[FETCH_00 + 1] = values[2]
  <1>0. FETCH_00 \in Nat /\ FETCH_00 + 2 - 1 = FETCH_00 + 1 /\ FETCH_00 + 1 \in Nat /\ 2 - 1 = 1
        /\ FETCH_00 + 1 < kRegCount /\ FETCH_00 + 1 # COHER_STATUS
        /\ 2 \in Nat /\ 2 \in 1..2 /\ 1 \in 0..2
    BY DEF FETCH_00, kRegCount, COHER_STATUS
  <1>1. PICK f : Staged(f, g, FETCH_00, 2, values, FALSE)
    BY <1>0, RegistersStaged
  <1>2. Good(f[1])
    BY <1>0, <1>1 DEF Staged, Writes
  <1>3. WriteRegisters(g, FETCH_00, values, FALSE) = WriteRegister(f[1], FETCH_00 + 1, values[2])
    BY <1>0, <1>1 DEF Staged
  <1>4. values[2] \in Words
    BY <1>0
  <1>5. WriteRegister(f[1], FETCH_00 + 1, values[2]).regs[FETCH_00 + 1] = values[2]
    BY <1>0, <1>2, <1>4, RegisterWritten
  <1> QED
    BY <1>3, <1>5

\* Another memory, in which only words are new.
LEMMA MemoryWritten ==
  ASSUME NEW g, Good(g), NEW m \in Mems, \A a \in Addresses : m[a] = g.mem[a] \/ m[a] \in Words
  PROVE  Writes(g, [g EXCEPT !.mem = m])
  BY DEF Good, Writes

\* The write of a word in the byte order of its address.
LEMMA WordWritten ==
  ASSUME NEW g, Good(g), NEW address \in Words, NEW v \in Words
  PROVE  Writes(g, [g EXCEPT !.mem = MemWrite(@, address, v)])
  <1>1. g.mem \in Mems
    BY DEF Good
  <1>2. address % 4 \in Nat
    BY DEF Words, WordMax
  <1>3. GpuSwap(v, address % 4) \in Words
    BY <1>2, SwappedWords
  <1>4. MemWrite(g.mem, address, v) \in Mems /\ \A a \in Addresses :
          MemWrite(g.mem, address, v)[a] = g.mem[a] \/ MemWrite(g.mem, address, v)[a] \in Words
    BY <1>1, <1>3, PhysWritten DEF MemWrite
  <1> QED
    BY <1>4, MemoryWritten

\* The read of a register, or of one that is not there.
LEMMA RegisterRead ==
  ASSUME NEW g, Good(g), NEW i \in Nat
  PROVE  Register(g, i) \in Words
  BY DEF Register, Good, Regs, kRegCount, Words, WordMax

\* The words of a block of memory.
LEMMA Blocks ==
  ASSUME NEW m \in Mems, NEW pa, NEW n \in Nat
  PROVE  Len(Block(m, pa, n)) = n /\ \A k \in 1..n : Block(m, pa, n)[k] \in Words
  BY PhysRead DEF Block

\* Every type-3 packet but the swap writes words and registers and nothing else (executeType3).
LEMMA Executed ==
  ASSUME NEW g, Good(g), NEW op, NEW n \in Nat \ {0}, NEW a,
         \A k \in 1..ArgsRead(n) : a[k] \in Words
  PROVE  op # "XE_SWAP" => Writes(g, Execute(g, op, n, a))
  <1>0. \A k \in 1..n : a[k] \in Words
    BY DEF ArgsRead, MaxArgs
  <1>1. /\ a[1] \in Words /\ a[2] \in Words /\ a[3] \in Words /\ a[4] \in Words /\ a[5] \in Words
        /\ a[6] \in Words
    BY DEF ArgsRead, MaxArgs
  <1>2. g.mem \in Mems
    BY DEF Good
  <1>3. ASSUME NEW v \in Words
        PROVE  v \in Nat /\ v % 64 \in Words /\ v % 8 \in Nat /\ v % 8 < 8 /\ v % 16 \in 0..15
    BY DEF Words, WordMax
  <1>4. ASSUME NEW v \in Words
        PROVE  Writes(g, Event(g, v))
    BY <1>3, RegisterWritten DEF Event, EVENT_INITIATOR
  <1>5. ASSUME NEW v \in Words, NEW address \in Words, NEW w \in Words
        PROVE  Writes(g, [Event(g, v) EXCEPT !.mem = MemWrite(@, address, w)])
    <2>1. Good(Event(g, v))
      BY <1>4 DEF Writes
    <2>2. Writes(Event(g, v), [Event(g, v) EXCEPT !.mem = MemWrite(@, address, w)])
      BY <2>1, WordWritten
    <2> QED
      BY <1>4, <2>2, WritesAgain
  <1>6. Writes(g, RegRmw(g, a[1], a[2], a[3]))
    <2> DEFINE i == a[1] % 8
               x == IF Bit(a[1], 7) = 1 THEN Register(g, a[2] % 8) ELSE a[2]
               o == IF Bit(a[1], 6) = 1 THEN Register(g, a[3] % 8) ELSE a[3]
    <2>1. i \in Nat /\ x \in Words /\ o \in Words
      BY <1>1, <1>3, RegisterRead
    <2>2. RegRmw(g, a[1], a[2], a[3]) = WriteRegister(g, i, BitOr(BitAnd(Register(g, i), x), o))
      BY DEF RegRmw
    <2> HIDE DEF i, x, o
    <2>3. BitOr(BitAnd(Register(g, i), x), o) \in Words
      BY <2>1, RegisterRead, WordsOfBits
    <2> QED
      BY <2>1, <2>2, <2>3, RegisterWritten
  <1>7. Writes(g, [g EXCEPT !.mem = MemWrite(@, a[2], Register(g, a[1]))])
    BY <1>1, <1>3, RegisterRead, WordWritten
  <1>8. Writes(g, MemWrites(g, n, a))
    <2> DEFINE m == [i \in DOMAIN g.mem |-> LET k == i - a[1] \div 4 IN
          IF k \in 0..(n - 2) THEN GpuSwap(a[k + 2], a[1]) ELSE g.mem[i]]
    <2>1. MemWrites(g, n, a) = [g EXCEPT !.mem = m]
      BY DEF MemWrites, Good
    <2>2. ASSUME NEW i \in Addresses, NEW k \in 0..(n - 2)
          PROVE  GpuSwap(a[k + 2], a[1]) \in Words
      <3>1. k + 2 \in 1..n
        OBVIOUS
      <3> QED
        BY <1>0, <1>1, <1>3, <3>1, SwappedWords
    <2>3. \A i \in Addresses : g.mem[i] \in Cells /\ (m[i] = g.mem[i] \/ m[i] \in Words)
      BY <1>2, <2>2 DEF Mems
    <2>4. m = [i \in Addresses |-> m[i]]
      BY <1>2 DEF Mems
    <2>5. m \in Mems
      <3> HIDE DEF m
      <3>1. \A i \in Addresses : m[i] \in Cells
        BY <2>3, WordsAreCells
      <3> QED
        BY <2>4, <3>1 DEF Mems
    <2> HIDE DEF m
    <2> QED
      BY <2>1, <2>3, <2>5, MemoryWritten
  <1>9. Writes(g, CondWrite(g, a))
    <2>1. Writes(g, [g EXCEPT !.mem = MemWrite(@, a[5], a[6])])
      BY <1>1, WordWritten
    <2>2. Writes(g, WriteRegister(g, a[5], a[6]))
      BY <1>1, <1>3, RegisterWritten
    <2> QED
      BY <2>1, <2>2, WritesNothing DEF CondWrite
  <1>10. Writes(g, EventWrite(g, n, a))
    BY <1>1, <1>4, <1>5 DEF EventWrite
  <1>11. Writes(g, [Event(g, a[1]) EXCEPT !.mem = MemWrite(@, a[2], IF Bit(a[1], 7) = 1 THEN 0 ELSE a[3])])
    <2>1. 0 \in Words
      BY DEF Words, WordMax
    <2>2. CASE Bit(a[1], 7) = 1
      BY <1>1, <1>5, <2>1, <2>2
    <2>3. CASE Bit(a[1], 7) # 1
      BY <1>1, <1>5, <2>3
    <2> QED
      BY <2>2, <2>3
  <1>12. Writes(g, EventWriteExt(g, a))
    <2> DEFINE e == Event(g, a[1])
               at == a[2] \div 4
               m == IF at \notin DOMAIN e.mem THEN e.mem
                    ELSE [i \in DOMAIN e.mem |-> IF i - at \in 0..2 THEN Extents[i - at + 1] ELSE e.mem[i]]
    <2>1. Writes(g, e) /\ Good(e) /\ e.mem \in Mems
      BY <1>1, <1>4 DEF Writes, Good
    <2>2. EventWriteExt(g, a) = [e EXCEPT !.mem = m]
      BY <2>1 DEF EventWriteExt, Good
    <2> HIDE DEF e
    <2>3. at \in Int
      BY <1>1 DEF Words, WordMax
    <2> HIDE DEF at
    <2>4. \A k \in 0..2 : Extents[k + 1] \in Words
      BY DEF Extents, Words, WordMax
    <2>5. \A i \in Addresses : e.mem[i] \in Cells /\ (m[i] = e.mem[i] \/ m[i] \in Words)
      BY <2>1, <2>3, <2>4 DEF Mems
    <2>6. m = [i \in Addresses |-> m[i]]
      BY <2>1 DEF Mems
    <2>7. m \in Mems
      <3> HIDE DEF m
      <3>1. \A i \in Addresses : m[i] \in Cells
        BY <2>5, WordsAreCells
      <3> QED
        BY <2>6, <3>1 DEF Mems
    <2> HIDE DEF m
    <2>8. Writes(e, [e EXCEPT !.mem = m])
      BY <2>1, <2>5, <2>7, MemoryWritten
    <2> QED
      BY <2>1, <2>2, <2>8, WritesAgain
  <1>13. Writes(g, VizQuery(g, a[1]))
    <2>0. 1 \in Words /\ 2 \in Words
      BY DEF Words, WordMax
    <2> DEFINE e == Event(g, 2)
               id == a[1] % 16
               r == VIZ_STATUS + id \div 8
    <2>1. Writes(g, e) /\ Good(e)
      BY <1>4, <2>0 DEF Writes
    <2>2. id \in 0..15
      BY <1>1, <1>3
    <2>3. r \in 0..(kRegCount - 1) /\ 2^(id % 8) \in Words
      <3> HIDE DEF id
      <3>1. id % 8 \in 0..7
        BY <2>2
      <3>2. \A k \in 0..7 : k = 0 \/ k = 1 \/ k = 2 \/ k = 3 \/ k = 4 \/ k = 5 \/ k = 6 \/ k = 7
        OBVIOUS
      <3>3. 2^0 \in Words /\ 2^1 \in Words /\ 2^2 \in Words /\ 2^3 \in Words /\ 2^4 \in Words
            /\ 2^5 \in Words /\ 2^6 \in Words /\ 2^7 \in Words
        BY Powers DEF Words, WordMax
      <3>4. \A k \in 0..7 : 2^k \in Words
        BY <3>2, <3>3, Zenon
      <3>5. id \div 8 \in 0..1
        BY <2>2
      <3>6. 2^(id % 8) \in Words
        BY <3>1, <3>4, Zenon
      <3>7. r \in 0..(kRegCount - 1)
        BY <3>5 DEF VIZ_STATUS, kRegCount
      <3> QED
        BY <3>6, <3>7
    <2>4. VizQuery(g, a[1]) = IF Bit(a[1], 7) = 0 THEN Event(g, 1)
                              ELSE [e EXCEPT !.regs[r] = BitOr(@, 2^(id % 8))]
      BY DEF VizQuery
    <2> HIDE DEF e, id, r
    <2>5. e.regs[r] \in Words
      BY <2>1, <2>3 DEF Good, Regs
    <2>6. PICK w \in Words : w = BitOr(e.regs[r], 2^(id % 8))
      BY <2>3, <2>5, WordsOfBits
    <2>7. Writes(e, [e EXCEPT !.regs[r] = w])
      BY <2>1, <2>3 DEF Good, Writes, Regs
    <2>8. [e EXCEPT !.regs[r] = BitOr(@, 2^(id % 8))] = [e EXCEPT !.regs[r] = w]
      BY <2>1, <2>3, <2>6 DEF Good, Regs
    <2> QED
      BY <1>4, <2>0, <2>1, <2>4, <2>7, <2>8, WritesAgain
  <1>14. \A v \in Words : IsBank(v) => Bank(v) \in Nat
    <2>1. SUFFICES ASSUME NEW v \in Words, IsBank(v) PROVE Bank(v) \in Nat
      OBVIOUS
    <2>2. v % 16 \in Nat /\ v \div 16 \in 0..4
      BY <2>1 DEF IsBank, Words, WordMax
    <2>3. \A k \in 0..4 : <<8, FETCH_00, 11, 12, 7>>[k + 1] \in Nat
      BY DEF FETCH_00
    <2> QED
      BY <2>2, <2>3 DEF Bank
  <1>15. /\ Len(Rest(n, a)) = n - 1 /\ n - 1 \in Nat
         /\ \A k \in 1..(n - 1) : Rest(n, a)[k] \in Words
    <2>1. \A k \in 1..(n - 1) : k + 1 \in 1..n
      OBVIOUS
    <2>2. \A k \in 1..(n - 1) : Rest(n, a)[k] \in Words
      BY <1>0, <2>1 DEF Rest
    <2>3. Len(Rest(n, a)) = n - 1
      BY DEF Rest
    <2> QED
      BY <2>2, <2>3
  <1>16. Writes(g, SetConstants(g, n, a))
    BY <1>1, <1>14, <1>15, RegistersWritten, WritesNothing DEF SetConstants
  <1>17. Writes(g, WriteRegisters(g, a[1], Rest(n, a), FALSE))
    BY <1>1, <1>3, <1>15, RegistersWritten
  <1>18. Writes(g, LoadConstants(g, a[1], a[2], a[3]))
    <2> DEFINE values == Block(g.mem, a[1] \div 4, a[3])
    <2>1. a[3] \in Nat
      BY <1>1, <1>3
    <2>2. Len(values) = a[3] /\ \A k \in 1..a[3] : values[k] \in Words
      BY <1>2, <2>1, Blocks
    <2>3. LoadConstants(g, a[1], a[2], a[3])
          = IF ~IsBank(a[2]) THEN g ELSE WriteRegisters(g, Bank(a[2]), values, FALSE)
      BY DEF LoadConstants
    <2> HIDE DEF values
    <2> QED
      <3>1. CASE ~IsBank(a[2])
        BY <2>3, <3>1, WritesNothing
      <3>2. CASE IsBank(a[2])
        <4>1. Bank(a[2]) \in Nat
          BY <1>1, <1>14, <3>2
        <4>2. Writes(g, WriteRegisters(g, Bank(a[2]), values, FALSE))
          BY <2>1, <2>2, <4>1, RegistersWritten
        <4> QED
          BY <2>3, <3>2, <4>2
      <3> QED
        BY <3>1, <3>2
  <1>19. /\ Writes(g, [g EXCEPT !.bins.mask = <<a[1], a[2]>>])
         /\ Writes(g, [g EXCEPT !.bins.select = <<a[1], a[2]>>])
         /\ Writes(g, [g EXCEPT !.bins.mask[2] = a[1]])
         /\ Writes(g, [g EXCEPT !.bins.mask[1] = a[1]])
         /\ Writes(g, [g EXCEPT !.bins.select[2] = a[1]])
         /\ Writes(g, [g EXCEPT !.bins.select[1] = a[1]])
    <2>1. ASSUME NEW b PROVE Writes(g, [g EXCEPT !.bins = b])
      BY DEF Good, Writes
    <2> QED
      BY <2>1
  <1> QED
    BY <1>1, <1>4, <1>6, <1>7, <1>8, <1>9, <1>10, <1>11, <1>12, <1>13, <1>16, <1>17, <1>18, <1>19,
       WritesNothing
    DEF Execute

\* The ring as the driver sees it: its cells, those not yet read, and the headers among them.
RingOf(m) == [i \in Index |-> m[RingBase + i]]
Unread(i, rd, t) == Dist(i, t) >= 1 /\ Dist(i, t) <= Dist(rd, t)
Size(s, i) == HeaderOf(s[i]).n
Heads(s, rd, t) == {i \in Index : Unread(i, rd, t) /\ IsHeader(s[i])}

\* No unread packet reaches from before w to w or beyond it.
Boundary(s, w, rd, t) ==
  \A h \in Heads(s, rd, t) : Dist(w, t) < Dist(h, t) => Dist(w, t) + Size(s, h) < Dist(h, t)
\* What is unread is whole packets and zeros.
Parsed(s, rd, t) ==
  /\ Boundary(s, t, rd, t)
  /\ \A h \in Heads(s, rd, t) : Boundary(s, h, rd, t)
  /\ \A i \in Index : Unread(i, rd, t) /\ ~IsHeader(s[i]) =>
       s[i] = 0 \/ \E h \in Heads(s, rd, t) : Dist(h, t) > Dist(i, t)
         /\ Dist(h, t) <= Dist(i, t) + Size(s, h)
\* The unread headers are those of the packets c + 1 to n of boot b, in order.
Tagged(s, tg, b, rd, t, c, n) ==
  /\ \A i \in Index : Unread(i, rd, t) /\ ~IsHeader(s[i]) => tg[i] = <<0, 0>>
  /\ \A i \in Heads(s, rd, t) : tg[i][1] = b /\ tg[i][2] > c /\ tg[i][2] <= n
  /\ \A i, j \in Heads(s, rd, t) : Dist(j, t) < Dist(i, t) => tg[i][2] < tg[j][2]
  /\ \A k \in (c + 1)..n : \E i \in Heads(s, rd, t) : tg[i][2] = k
\* Those before w are the first p.
PublishedTo(s, tg, rd, t, w, p) ==
  \A i \in Heads(s, rd, t) : tg[i][2] <= p <=> Dist(w, t) < Dist(i, t)
\* All other cells have older tags.
Past(tg, b, rd, t, c) == \A i \in Index : ~Unread(i, rd, t) /\ tg[i][1] = b => tg[i][2] <= c

\* What holds of a ring s with tags tg in boot b: what is unread is whole packets with the tags of the
\* packets c + 1 to n, those of the first p stand before the write pointer w.
RingIs(s, tg, b, rd, t, c, n, w, p) ==
  /\ Parsed(s, rd, t) /\ Tagged(s, tg, b, rd, t, c, n) /\ PublishedTo(s, tg, rd, t, w, p)
  /\ Boundary(s, w, rd, t) /\ Past(tg, b, rd, t, c)

\* The rings and the tags there may be.
Rings == [Index -> Cells]
TagTables == [Index -> Nat \X Nat]

\* The reader goes on to q, where the packets up to d end.
LEMMA RingRead ==
  ASSUME NEW s \in Rings, NEW tg \in TagTables, NEW b \in Nat \ {0}, NEW rd \in Index, NEW t \in Index,
         NEW c \in Nat, NEW n \in Nat, NEW w \in Index, NEW p \in Nat,
         RingIs(s, tg, b, rd, t, c, n, w, p),
         NEW q \in Index, NEW d \in Nat, c <= d, Dist(q, t) <= Dist(rd, t), Boundary(s, q, rd, t),
         \A h \in Heads(s, rd, t) : tg[h][2] > d <=> Dist(h, t) <= Dist(q, t)
  PROVE  RingIs(s, tg, b, q, t, d, n, w, p)
  <1>1. \A i \in Index : Dist(i, t) \in Nat
    BY Distance DEF Index
  <1>2. \A i \in Index : HeaderOf(s[i]).n \in Nat
    BY HeadersOfCells DEF Rings, HeaderSet
  <1>3. \A i \in Index : Unread(i, q, t) => Unread(i, rd, t)
    BY <1>1 DEF Unread
  <1>4. Heads(s, q, t) \subseteq Heads(s, rd, t)
    BY <1>3 DEF Heads
  <1>5. \A h \in Heads(s, rd, t) : h \in Heads(s, q, t) <=> tg[h][2] > d
    BY DEF Heads, Unread
  <1>6. \A v \in Index : Boundary(s, v, rd, t) => Boundary(s, v, q, t)
    BY <1>4 DEF Boundary
  <1>7. Parsed(s, q, t)
    <2>1. Boundary(s, t, q, t) /\ \A h \in Heads(s, q, t) : Boundary(s, h, q, t)
      BY <1>4, <1>6 DEF RingIs, Parsed, Heads
    <2>2. ASSUME NEW i \in Index, Unread(i, q, t), ~IsHeader(s[i]), s[i] # 0
          PROVE  \E h \in Heads(s, q, t) : Dist(h, t) > Dist(i, t)
                 /\ Dist(h, t) <= Dist(i, t) + Size(s, h)
      <3>1. PICK h \in Heads(s, rd, t) : Dist(h, t) > Dist(i, t)
            /\ Dist(h, t) <= Dist(i, t) + Size(s, h)
        BY <1>3, <2>2 DEF RingIs, Parsed
      <3>2. h \in Index /\ Dist(h, t) \in Nat /\ Dist(i, t) \in Nat /\ Dist(q, t) \in Nat
            /\ Size(s, h) \in Nat
        BY <1>1, <1>2 DEF Heads, Size
      <3>3. Dist(q, t) < Dist(h, t) => Dist(q, t) + Size(s, h) < Dist(h, t)
        BY DEF Boundary
      <3>4. Dist(h, t) <= Dist(q, t)
        BY <2>2, <3>1, <3>2, <3>3 DEF Unread
      <3>5. h \in Heads(s, q, t)
        BY <3>2, <3>4 DEF Heads, Unread
      <3> QED
        BY <3>1, <3>5
    <2> QED
      BY <2>1, <2>2 DEF Parsed
  <1>8. Tagged(s, tg, b, q, t, d, n)
    <2>1. \A i \in Index : Unread(i, q, t) /\ ~IsHeader(s[i]) => tg[i] = <<0, 0>>
      BY <1>3 DEF RingIs, Tagged
    <2>2. \A i \in Heads(s, q, t) : tg[i][1] = b /\ tg[i][2] > d /\ tg[i][2] <= n
      BY <1>4, <1>5 DEF RingIs, Tagged
    <2>3. \A i, j \in Heads(s, q, t) : Dist(j, t) < Dist(i, t) => tg[i][2] < tg[j][2]
      BY <1>4 DEF RingIs, Tagged
    <2>4. ASSUME NEW k \in (d + 1)..n PROVE \E i \in Heads(s, q, t) : tg[i][2] = k
      <3>1. k \in (c + 1)..n /\ k > d
        OBVIOUS
      <3>2. PICK i \in Heads(s, rd, t) : tg[i][2] = k
        BY <3>1 DEF RingIs, Tagged
      <3> QED
        BY <1>5, <3>1, <3>2
    <2> QED
      BY <2>1, <2>2, <2>3, <2>4 DEF Tagged
  <1>9. PublishedTo(s, tg, q, t, w, p) /\ Boundary(s, w, q, t)
    BY <1>4, <1>6 DEF RingIs, PublishedTo
  <1>10. Past(tg, b, q, t, d)
    <2> SUFFICES ASSUME NEW i \in Index, ~Unread(i, q, t), tg[i][1] = b
                 PROVE  tg[i][2] <= d
      BY DEF Past
    <2>1. tg[i][2] \in Nat
      BY DEF TagTables
    <2>2. CASE ~Unread(i, rd, t)
      BY <2>1, <2>2 DEF RingIs, Past
    <2>3. CASE Unread(i, rd, t) /\ ~IsHeader(s[i])
      BY <2>3 DEF RingIs, Tagged
    <2>4. CASE Unread(i, rd, t) /\ IsHeader(s[i])
      <3>1. i \in Heads(s, rd, t) /\ i \notin Heads(s, q, t)
        BY <2>4 DEF Heads
      <3> QED
        BY <1>5, <2>1, <3>1
    <2> QED
      BY <2>2, <2>3, <2>4
  <1> QED
    BY <1>7, <1>8, <1>9, <1>10 DEF RingIs

\* The write pointer is moved to the tail: all that is written is published.
LEMMA RingPublished ==
  ASSUME NEW s \in Rings, NEW tg \in TagTables, NEW b \in Nat \ {0}, NEW rd \in Index, NEW t \in Index,
         NEW c \in Nat, NEW n \in Nat, NEW w \in Index, NEW p \in Nat,
         RingIs(s, tg, b, rd, t, c, n, w, p)
  PROVE  RingIs(s, tg, b, rd, t, c, n, t, n)
  <1>1. Dist(t, t) = 0
    BY Around
  <1>0. \A i \in Index : Dist(i, t) \in Nat
    BY Distance DEF Index
  <1>2. \A h \in Heads(s, rd, t) : 0 < Dist(h, t) /\ tg[h][2] <= n
    BY <1>0 DEF Heads, Unread, RingIs, Tagged
  <1>3. PublishedTo(s, tg, rd, t, t, n)
    BY <1>1, <1>2 DEF PublishedTo
  <1> QED
    BY <1>3 DEF RingIs, Parsed

\* A new ring, of which nothing is unread.
LEMMA RingStarted ==
  ASSUME NEW s \in Rings, NEW tg \in TagTables, NEW b \in Nat \ {0},
         \A i \in Index : tg[i][1] < b
  PROVE  RingIs(s, tg, b, 0, 0, 0, 0, 0, 0)
  <1>0. 0 \in Index
    BY RingSize DEF Index
  <1>1. Dist(0, 0) = 0
    BY <1>0, Around
  <1>2. \A i \in Index : ~Unread(i, 0, 0)
    BY <1>0, <1>1, Distance DEF Unread, Index
  <1>3. Heads(s, 0, 0) = {}
    BY <1>2 DEF Heads
  <1>4. \A i \in Index : tg[i][1] # b
    BY DEF TagTables
  <1>5. Past(tg, b, 0, 0, 0)
    BY <1>4 DEF Past
  <1>6. Tagged(s, tg, b, 0, 0, 0, 0)
    BY <1>2, <1>3 DEF Tagged
  <1>7. Parsed(s, 0, 0) /\ PublishedTo(s, tg, 0, 0, 0, 0) /\ Boundary(s, 0, 0, 0)
    BY <1>2, <1>3 DEF Parsed, PublishedTo, Boundary
  <1> QED
    BY <1>5, <1>6, <1>7 DEF RingIs

\* What is known of the cell at the reader when there is something to read.
LEMMA NextCell ==
  ASSUME NEW s \in Rings, NEW tg \in TagTables, NEW b \in Nat \ {0}, NEW rd \in Index, NEW t \in Index,
         NEW c \in Nat, NEW n \in Nat, NEW w \in Index, NEW p \in Nat,
         RingIs(s, tg, b, rd, t, c, n, w, p), rd # t
  PROVE  /\ Unread(rd, rd, t) /\ Dist(rd, t) \in 1..(RingDwords - 1)
         /\ s[rd] # 0 => rd \in Heads(s, rd, t)
         /\ \A h \in Heads(s, rd, t) : h # rd => Dist(h, t) < Dist(rd, t)
  <1>1. \A i \in Index : Dist(i, t) \in Nat
    BY Distance DEF Index
  <1>2. Dist(rd, t) \in 1..(RingDwords - 1)
    <2>1. Dist(t, rd) = RingDwords - Dist(rd, t) /\ Dist(t, rd) \in Index /\ Dist(rd, t) \in Index
      BY Around, Distance
    <2> QED
      BY <2>1, RingSize DEF Index
  <1>3. Unread(rd, rd, t)
    BY <1>2 DEF Unread
  <1>4. \A h \in Heads(s, rd, t) : h \in Index /\ Dist(h, t) <= Dist(rd, t)
    BY DEF Heads, Unread
  <1>5. \A h \in Heads(s, rd, t) : h # rd => Dist(h, t) < Dist(rd, t)
    BY <1>1, <1>4, Distinct
  <1>6. s[rd] # 0 => IsHeader(s[rd])
    <2> SUFFICES ASSUME s[rd] # 0, ~IsHeader(s[rd]) PROVE FALSE
      OBVIOUS
    <2>1. PICK h \in Heads(s, rd, t) : Dist(h, t) > Dist(rd, t)
      BY <1>3 DEF RingIs, Parsed
    <2> QED
      BY <1>1, <1>4, <2>1
  <1> QED
    BY <1>2, <1>3, <1>5, <1>6 DEF Heads

\* A zero is skipped.
LEMMA RingSkips ==
  ASSUME NEW s \in Rings, NEW tg \in TagTables, NEW b \in Nat \ {0}, NEW rd \in Index, NEW t \in Index,
         NEW c \in Nat, NEW n \in Nat, NEW w \in Index, NEW p \in Nat,
         RingIs(s, tg, b, rd, t, c, n, w, p), rd # t, s[rd] = 0
  PROVE  /\ Step(rd, 1) \in Index /\ Dist(Step(rd, 1), t) = Dist(rd, t) - 1
         /\ RingIs(s, tg, b, Step(rd, 1), t, c, n, w, p)
  <1>1. \A i \in Index : Dist(i, t) \in Nat
    BY Distance DEF Index
  <1>2. Dist(rd, t) \in 1..(RingDwords - 1) /\ \A h \in Heads(s, rd, t) : h # rd
        => Dist(h, t) < Dist(rd, t)
    BY NextCell
  <1> DEFINE q == Step(rd, 1)
  <1>3. q \in Index /\ Dist(q, t) = Dist(rd, t) - 1
    BY <1>2, Stepped
  <1>4. \A h \in Heads(s, rd, t) : h # rd /\ h \in Index
    BY DEF Heads, IsHeader, WordMax
  <1> HIDE DEF q
  <1>5. \A h \in Heads(s, rd, t) : Dist(h, t) <= Dist(q, t)
    BY <1>1, <1>2, <1>3, <1>4
  <1>6. Boundary(s, q, rd, t)
    BY <1>1, <1>3, <1>4, <1>5 DEF Boundary
  <1>7. \A h \in Heads(s, rd, t) : tg[h][2] > c
    BY DEF RingIs, Tagged
  <1>8. \A h \in Heads(s, rd, t) : tg[h][2] > c <=> Dist(h, t) <= Dist(q, t)
    BY <1>5, <1>7
  <1>9. Dist(q, t) <= Dist(rd, t)
    BY <1>1, <1>3
  <1>10. RingIs(s, tg, b, q, t, c, n, w, p)
    <2>1. c <= c
      OBVIOUS
    <2> QED
      BY <1>3, <1>6, <1>8, <1>9, <2>1, RingRead
  <1> QED
    BY <1>3, <1>10 DEF q

\* A packet is taken: it is the next one, and the reader goes to its end.
LEMMA RingTakes ==
  ASSUME NEW s \in Rings, NEW tg \in TagTables, NEW b \in Nat \ {0}, NEW rd \in Index, NEW t \in Index,
         NEW c \in Nat, NEW n \in Nat, NEW w \in Index, NEW p \in Nat,
         RingIs(s, tg, b, rd, t, c, n, w, p), rd # t, s[rd] # 0,
         NEW q, q = Step(rd, 1 + Size(s, rd))
  PROVE  /\ IsHeader(s[rd]) /\ tg[rd] = <<b, c + 1>>
         /\ q \in Index /\ Dist(q, t) = Dist(rd, t) - 1 - Size(s, rd) /\ 1 + Size(s, rd) <= Dist(rd, t)
         /\ \A v \in Index : Boundary(s, v, rd, t) /\ Dist(v, t) < Dist(rd, t)
            => Dist(v, t) <= Dist(q, t)
         /\ RingIs(s, tg, b, q, t, c + 1, n, w, p)
  <1>1. \A i \in Index : Dist(i, t) \in Nat
    BY Distance DEF Index
  <1>2. /\ Dist(rd, t) \in 1..(RingDwords - 1) /\ rd \in Heads(s, rd, t)
        /\ \A h \in Heads(s, rd, t) : h # rd => Dist(h, t) < Dist(rd, t)
    BY NextCell
  <1>3. \A h \in Heads(s, rd, t) : h \in Index /\ Size(s, h) \in Nat
    BY HeadersOfCells DEF Heads, Size, Rings, HeaderSet
  <1>4. Dist(t, t) = 0
    BY Around
  <1>5. Size(s, rd) < Dist(rd, t)
    <2>1. Boundary(s, t, rd, t)
      BY DEF RingIs, Parsed
    <2> QED
      BY <1>1, <1>2, <1>3, <1>4, <2>1 DEF Boundary
  <1>6. 1 + Size(s, rd) \in 0..Dist(rd, t)
    BY <1>2, <1>3, <1>5
  <1>7. q \in Index /\ Dist(q, t) = Dist(rd, t) - (1 + Size(s, rd))
    BY <1>6, Stepped
  <1>8. \A v \in Index : Boundary(s, v, rd, t) /\ Dist(v, t) < Dist(rd, t) => Dist(v, t) <= Dist(q, t)
    <2> SUFFICES ASSUME NEW v \in Index, Boundary(s, v, rd, t), Dist(v, t) < Dist(rd, t)
                 PROVE  Dist(v, t) <= Dist(q, t)
      OBVIOUS
    <2>1. Dist(v, t) + Size(s, rd) < Dist(rd, t)
      BY <1>2 DEF Boundary
    <2> QED
      BY <1>1, <1>2, <1>3, <1>7, <2>1
  <1>9. \A h \in Heads(s, rd, t) : h # rd => Dist(h, t) <= Dist(q, t)
    BY <1>2, <1>3, <1>8 DEF RingIs, Parsed
  <1>10. Boundary(s, q, rd, t)
    <2> SUFFICES ASSUME NEW h \in Heads(s, rd, t), Dist(q, t) < Dist(h, t)
                 PROVE  Dist(q, t) + Size(s, h) < Dist(h, t)
      BY DEF Boundary
    <2>1. h = rd
      BY <1>1, <1>3, <1>7, <1>9
    <2> QED
      BY <1>1, <1>2, <1>3, <1>7, <2>1
  <1>11. \A h \in Heads(s, rd, t) : tg[h][1] = b /\ tg[h][2] \in Nat /\ tg[h][2] > c /\ tg[h][2] <= n
    BY <1>3 DEF RingIs, Tagged, TagTables
  <1>12. tg[rd][2] = c + 1
    <2>1. c + 1 \in (c + 1)..n
      BY <1>2, <1>11
    <2>2. PICK i \in Heads(s, rd, t) : tg[i][2] = c + 1
      BY <2>1 DEF RingIs, Tagged
    <2>3. i # rd => tg[rd][2] < tg[i][2]
      BY <1>2 DEF RingIs, Tagged
    <2> QED
      BY <1>2, <1>11, <2>2, <2>3
  <1>13. tg[rd] = <<b, c + 1>>
    BY <1>2, <1>11, <1>12 DEF TagTables
  <1>14. \A h \in Heads(s, rd, t) : tg[h][2] > c + 1 <=> Dist(h, t) <= Dist(q, t)
    <2> SUFFICES ASSUME NEW h \in Heads(s, rd, t)
                 PROVE  tg[h][2] > c + 1 <=> Dist(h, t) <= Dist(q, t)
      OBVIOUS
    <2>1. CASE h = rd
      BY <1>2, <1>3, <1>7, <1>12, <2>1
    <2>2. CASE h # rd
      <3>1. tg[rd][2] < tg[h][2]
        BY <1>2, <2>2 DEF RingIs, Tagged
      <3> QED
        BY <1>9, <1>12, <2>2, <3>1
    <2> QED
      BY <2>1, <2>2
  <1>15. Dist(q, t) <= Dist(rd, t) /\ c + 1 \in Nat /\ c <= c + 1
    BY <1>1, <1>2, <1>3, <1>7
  <1>16. RingIs(s, tg, b, q, t, c + 1, n, w, p)
    BY <1>7, <1>10, <1>14, <1>15, RingRead
  <1>17. IsHeader(s[rd])
    BY <1>2 DEF Heads
  <1>18. Dist(q, t) = Dist(rd, t) - 1 - Size(s, rd) /\ 1 + Size(s, rd) <= Dist(rd, t)
    BY <1>2, <1>3, <1>6, <1>7
  <1> QED
    BY <1>7, <1>8, <1>13, <1>16, <1>17, <1>18

\* The unread cells before e; and that the tags among some cells are those of the packets c + 1 to d.
LeftOut(rd, e, t) == {i \in Index : Unread(i, rd, t) /\ Dist(e, t) < Dist(i, t)}
TagsAre(tg, cells, b, c, d) == {tg[i] : i \in cells} \ {<<0, 0>>} = TagRun(b, c + 1, d)
\* The reader gives up what is left of its batch: the packets up to some d are what it skips.
LEMMA RingAborts ==
  ASSUME NEW s \in Rings, NEW tg \in TagTables, NEW b \in Nat \ {0}, NEW rd \in Index, NEW t \in Index,
         NEW c \in Nat, NEW n \in Nat, NEW w \in Index, NEW p \in Nat,
         RingIs(s, tg, b, rd, t, c, n, w, p), c <= p, p <= n,
         NEW e \in Index, Dist(w, t) <= Dist(e, t), Dist(e, t) <= Dist(rd, t), Boundary(s, e, rd, t)
  PROVE  \E d \in c..p :
           /\ RingIs(s, tg, b, e, t, d, n, w, p)
           /\ TagsAre(tg, LeftOut(rd, e, t), b, c, d)
  <1> DEFINE H == Heads(s, rd, t)
             L == {k \in (c + 1)..n : \E h \in H : Dist(h, t) <= Dist(e, t) /\ tg[h][2] = k}
  <1>1. \A i \in Index : Dist(i, t) \in Nat
    BY Distance DEF Index
  <1>2. \A h \in H : /\ h \in Index /\ tg[h] = <<b, tg[h][2]>>
                     /\ tg[h][2] \in Nat /\ tg[h][2] > c /\ tg[h][2] <= n
    BY DEF Heads, RingIs, Tagged, TagTables
  <1>3. \E d \in c..n : \A h \in H : tg[h][2] > d <=> Dist(h, t) <= Dist(e, t)
    <2>1. CASE L = {}
      <3>1. \A h \in H : ~(Dist(h, t) <= Dist(e, t))
        BY <1>2, <2>1
      <3>2. \A h \in H : ~(tg[h][2] > n)
        BY <1>2
      <3>3. n \in c..n
        OBVIOUS
      <3> QED
        BY <3>1, <3>2, <3>3
    <2>2. CASE L # {}
      <3>1. L \in SUBSET Nat
        OBVIOUS
      <3> HIDE DEF L
      <3>2. PICK x \in L : \A y \in L : x <= y
        BY <2>2, <3>1, Smallest
      <3>3. x \in (c + 1)..n /\ \E h \in H : Dist(h, t) <= Dist(e, t) /\ tg[h][2] = x
        BY <3>2 DEF L
      <3>4. PICK g \in H : Dist(g, t) <= Dist(e, t) /\ tg[g][2] = x
        BY <3>3
      <3>5. ASSUME NEW h \in H PROVE tg[h][2] > x - 1 <=> Dist(h, t) <= Dist(e, t)
        <4>1. ASSUME Dist(h, t) <= Dist(e, t) PROVE tg[h][2] > x - 1
          <5>1. tg[h][2] \in L
            BY <1>2, <4>1 DEF L
          <5> QED
            BY <1>2, <3>2, <3>3, <5>1
        <4>2. ASSUME tg[h][2] > x - 1, ~(Dist(h, t) <= Dist(e, t)) PROVE FALSE
          <5>1. Dist(g, t) < Dist(h, t)
            BY <1>1, <1>2, <3>4, <4>2
          <5>2. tg[h][2] < tg[g][2]
            BY <5>1 DEF RingIs, Tagged
          <5> QED
            BY <1>2, <3>3, <3>4, <4>2, <5>2
        <4> QED
          BY <4>1, <4>2
      <3>6. x - 1 \in c..n
        BY <3>3
      <3> QED
        BY <3>5, <3>6
    <2> QED
      BY <2>1, <2>2
  <1>4. PICK d \in c..n : \A h \in H : tg[h][2] > d <=> Dist(h, t) <= Dist(e, t)
    BY <1>3
  <1>5. d \in Nat /\ c <= d
    OBVIOUS
  <1>6. RingIs(s, tg, b, e, t, d, n, w, p)
    BY <1>4, <1>5, RingRead
  <1>7. d <= p
    <2>1. CASE d = c
      BY <2>1
    <2>2. CASE d # c
      <3>1. d \in (c + 1)..n
        BY <2>2
      <3>2. PICK h \in H : tg[h][2] = d
        BY <3>1 DEF RingIs, Tagged
      <3>3. ~(Dist(h, t) <= Dist(e, t))
        BY <1>2, <1>4, <3>2
      <3>4. Dist(w, t) < Dist(h, t)
        BY <1>1, <1>2, <3>3
      <3> QED
        BY <3>2, <3>4 DEF RingIs, PublishedTo
    <2> QED
      BY <2>1, <2>2
  <1>8. {tg[i] : i \in {i \in Index : Unread(i, rd, t) /\ Dist(e, t) < Dist(i, t)}} \ {<<0, 0>>}
          = {<<b, j>> : j \in (c + 1)..d}
    <2> DEFINE U == {i \in Index : Unread(i, rd, t) /\ Dist(e, t) < Dist(i, t)}
    <2>1. ASSUME NEW i \in U, tg[i] # <<0, 0>> PROVE \E j \in (c + 1)..d : tg[i] = <<b, j>>
      <3>1. i \in H
        BY <2>1 DEF RingIs, Tagged, Heads
      <3>2. ~(Dist(i, t) <= Dist(e, t))
        BY <1>1
      <3>3. tg[i][2] \in (c + 1)..d
        BY <1>2, <1>4, <3>1, <3>2
      <3> QED
        BY <1>2, <3>1, <3>3
    <2>2. ASSUME NEW j \in (c + 1)..d PROVE <<b, j>> # <<0, 0>> /\ \E i \in U : tg[i] = <<b, j>>
      <3>1. j \in (c + 1)..n
        OBVIOUS
      <3>2. PICK h \in H : tg[h][2] = j
        BY <3>1 DEF RingIs, Tagged
      <3>3. ~(Dist(h, t) <= Dist(e, t))
        BY <1>2, <1>4, <3>2
      <3>4. h \in U
        BY <1>1, <1>2, <3>3 DEF Heads
      <3> QED
        BY <1>2, <3>2, <3>4
    <2> HIDE DEF U
    <2> QED
      BY <2>1, <2>2 DEF U
  <1>9. TagsAre(tg, LeftOut(rd, e, t), b, c, d)
    BY <1>8 DEF TagsAre, LeftOut, TagRun
  <1>10. d \in c..p
    BY <1>5, <1>7
  <1> QED
    BY <1>6, <1>9, <1>10

----------------------------------------------------------------------------
(* The driver's packets *)

\* The number of headers among the first cells, cell by cell.
LEMMA HeadedStep ==
  ASSUME NEW cells, NEW k \in Nat
  PROVE  /\ Headed(cells, 0) = 0 /\ Headed(cells, k) \in Nat
         /\ Headed(cells, k + 1) = Headed(cells, k) + (IF IsHeader(cells[k + 1]) THEN 1 ELSE 0)
  <1> DEFINE S(m) == {j \in 1..m : IsHeader(cells[j])}
  <1>1. S(0) = {}
    OBVIOUS
  <1>2. IsFiniteSet(S(k)) /\ Cardinality(S(k)) \in Nat
    <2>1. IsFiniteSet(1..k)
      BY FS_Interval
    <2>2. S(k) \subseteq 1..k
      OBVIOUS
    <2> QED
      BY <2>1, <2>2, FS_Subset, FS_CardinalityType
  <1>3. CASE IsHeader(cells[k + 1])
    <2>1. S(k + 1) = S(k) \cup {k + 1} /\ k + 1 \notin S(k)
      BY <1>3
    <2>2. Cardinality(S(k + 1)) = Cardinality(S(k)) + 1
      <3> HIDE DEF S
      <3> QED
        BY <1>2, <2>1, FS_AddElement
    <2> QED
      BY <1>1, <1>2, <1>3, <2>2, FS_EmptySet DEF Headed
  <1>4. CASE ~IsHeader(cells[k + 1])
    <2>1. S(k + 1) = S(k)
      BY <1>4
    <2> QED
      BY <1>1, <1>2, <1>4, <2>1, FS_EmptySet DEF Headed
  <1> QED
    BY <1>3, <1>4

\* The headers are numbered one after the other.
Numbered(cells, m) ==
  /\ \A k \in 0..m : Headed(cells, k) \in Nat /\ Headed(cells, k) <= Headed(cells, m)
  /\ \A k \in 1..m : IsHeader(cells[k]) => Headed(cells, k) >= 1
  /\ \A k, l \in 1..m : k < l /\ IsHeader(cells[l]) => Headed(cells, k) < Headed(cells, l)
  /\ \A r \in 1..Headed(cells, m) : \E k \in 1..m : IsHeader(cells[k]) /\ Headed(cells, k) = r

\* Any sequence of cells has its headers numbered.
LEMMA HeadersNumbered ==
  ASSUME NEW cells, NEW n \in Nat
  PROVE  Numbered(cells, n)
  <1> DEFINE S == {m \in Nat : Numbered(cells, m)}
  <1>1. 0 \in S
    <2>1. Headed(cells, 0) = 0
      BY HeadedStep
    <2> QED
      BY <2>1 DEF Numbered
  <1>2. ASSUME NEW m \in S PROVE m + 1 \in S
    <2>0. m \in Nat /\ Numbered(cells, m)
      OBVIOUS
    <2>1. Headed(cells, m) \in Nat
      BY HeadedStep
    <2>2. /\ IsHeader(cells[m + 1]) => Headed(cells, m + 1) = Headed(cells, m) + 1
          /\ ~IsHeader(cells[m + 1]) => Headed(cells, m + 1) = Headed(cells, m)
      BY <2>1, HeadedStep
    <2>3. \A k \in 0..(m + 1) : Headed(cells, k) \in Nat /\ Headed(cells, k) <= Headed(cells, m + 1)
      BY <2>0, <2>1, <2>2 DEF Numbered
    <2>4. \A k \in 1..(m + 1) : IsHeader(cells[k]) => Headed(cells, k) >= 1
      BY <2>0, <2>1, <2>2 DEF Numbered
    <2>5. ASSUME NEW k \in 1..(m + 1), NEW l \in 1..(m + 1), k < l, IsHeader(cells[l])
          PROVE  Headed(cells, k) < Headed(cells, l)
      <3>1. CASE l = m + 1
        <4>1. k \in 0..m
          BY <2>0, <2>5, <3>1
        <4>2. Headed(cells, k) \in Nat /\ Headed(cells, k) <= Headed(cells, m)
          BY <2>0, <4>1 DEF Numbered
        <4> QED
          BY <2>1, <2>2, <2>5, <3>1, <4>2
      <3>2. CASE l # m + 1
        <4>1. k \in 1..m /\ l \in 1..m
          BY <2>0, <2>5, <3>2
        <4> QED
          BY <2>0, <2>5, <4>1 DEF Numbered
      <3> QED
        BY <3>1, <3>2
    <2>6. ASSUME NEW r \in 1..Headed(cells, m + 1)
          PROVE  \E k \in 1..(m + 1) : IsHeader(cells[k]) /\ Headed(cells, k) = r
      <3>1. CASE r <= Headed(cells, m)
        <4>1. PICK k \in 1..m : IsHeader(cells[k]) /\ Headed(cells, k) = r
          BY <2>0, <2>1, <3>1 DEF Numbered
        <4> QED
          BY <2>0, <4>1
      <3>2. CASE r > Headed(cells, m)
        <4>1. IsHeader(cells[m + 1]) /\ Headed(cells, m + 1) = r
          BY <2>1, <2>2, <3>2
        <4> QED
          BY <2>0, <4>1
      <3> QED
        BY <2>1, <3>1, <3>2
    <2>7. m + 1 \in Nat
      BY <2>0
    <2>8. Numbered(cells, m + 1)
      BY <2>3, <2>4, <2>5, <2>6 DEF Numbered
    <2> QED
      BY <2>7, <2>8
  <1>3. S = Nat
    <2> HIDE DEF S
    <2> QED
      BY <1>1, <1>2, AllNumbers DEF S
  <1> QED
    BY <1>3

\* Where the driver puts a cell: which of the new cells goes to i, if there are that many.
Place(i, t) == ((i - t) % RingDwords) + 1

\* The new cells go to the places behind the tail, and the unread ones are further away than before.
LEMMA Places ==
  ASSUME NEW t \in Index, NEW rd \in Index, NEW n \in Nat, Dist(rd, t) + n < RingDwords
  PROVE  /\ Step(t, n) \in Index
         /\ \A i \in Index : Place(i, t) = Dist(t, i) + 1 /\ Place(i, t) \in 1..RingDwords
         /\ \A i \in Index : Unread(i, rd, t) =>
              Place(i, t) > n /\ Dist(i, Step(t, n)) = Dist(i, t) + n
         /\ \A i \in Index : Place(i, t) <= n =>
              ~Unread(i, rd, t) /\ Dist(i, Step(t, n)) = n + 1 - Place(i, t)
         /\ \A i \in Index : Dist(i, t) <= Dist(rd, t) => Dist(i, Step(t, n)) = Dist(i, t) + n
         /\ \A i \in Index : Unread(i, rd, Step(t, n)) <=> Unread(i, rd, t) \/ Place(i, t) <= n
         /\ \A k \in 1..n : \E i \in Index : Place(i, t) = k
  <1>1. \A i, j \in Index : Dist(i, j) \in Nat /\ Dist(i, j) < RingDwords
    <2> SUFFICES ASSUME NEW i \in Index, NEW j \in Index PROVE Dist(i, j) \in Nat
        /\ Dist(i, j) < RingDwords
      OBVIOUS
    <2>1. Dist(i, j) \in Index
      BY Distance
    <2> QED
      BY <2>1, RingSize DEF Index
  <1>2. n < RingDwords /\ RingDwords \in Nat
    BY <1>1, RingSize
  <1>3. Dist(rd, Step(t, n)) = Dist(rd, t) + n /\ Step(t, n) \in Index
    BY TailMoved
  <1>4. ASSUME NEW i \in Index
        PROVE  Place(i, t) = Dist(t, i) + 1 /\ Place(i, t) \in 1..RingDwords
    BY <1>1, <1>2 DEF Place, Dist
  <1>5. ASSUME NEW i \in Index, Dist(i, t) <= Dist(rd, t)
        PROVE  Dist(i, Step(t, n)) = Dist(i, t) + n
    <2>1. Dist(i, t) + n < RingDwords
      BY <1>1, <1>2, <1>5
    <2> QED
      BY <2>1, TailMoved
  <1>6. ASSUME NEW i \in Index, Unread(i, rd, t)
        PROVE  Place(i, t) > n
    <2>1. Dist(i, t) >= 1 /\ Dist(i, t) <= Dist(rd, t)
      BY <1>6 DEF Unread
    <2>2. i # t
      BY <2>1, Around
    <2>3. Dist(t, i) = RingDwords - Dist(i, t)
      BY <2>2, Around
    <2> QED
      BY <1>1, <1>2, <1>4, <2>1, <2>3
  <1>7. ASSUME NEW i \in Index, Place(i, t) <= n
        PROVE  ~Unread(i, rd, t) /\ Dist(i, Step(t, n)) = n + 1 - Place(i, t)
    <2>1. Dist(t, i) < n /\ n \in 0..(RingDwords - 1)
      BY <1>1, <1>2, <1>4, <1>7
    <2>2. Dist(i, Step(t, n)) = n - Dist(t, i)
      BY <2>1, TailPassed
    <2> QED
      BY <1>1, <1>2, <1>4, <1>6, <1>7, <2>2
  <1>8. ASSUME NEW i \in Index
        PROVE  Unread(i, rd, Step(t, n)) <=> Unread(i, rd, t) \/ Place(i, t) <= n
    <2>1. ASSUME Unread(i, rd, t) PROVE Unread(i, rd, Step(t, n))
      BY <1>1, <1>2, <1>3, <1>5, <2>1 DEF Unread
    <2>2. ASSUME Place(i, t) <= n PROVE Unread(i, rd, Step(t, n))
      BY <1>1, <1>2, <1>3, <1>4, <1>7, <2>2 DEF Unread
    <2>3. ASSUME ~Unread(i, rd, t), Place(i, t) > n PROVE ~Unread(i, rd, Step(t, n))
      <3>1. CASE i = t
        <4>1. Dist(t, i) = 0 /\ Dist(i, t) = 0
          BY <3>1, Around
        <4>2. n = 0
          BY <1>2, <1>4, <2>3, <4>1
        <4>3. Dist(i, Step(t, n)) = 0
          BY <1>1, <1>5, <4>1, <4>2
        <4> QED
          BY <4>3 DEF Unread
      <3>2. CASE i # t
        <4>1. Dist(t, i) = RingDwords - Dist(i, t)
          BY <3>2, Around
        <4>2. Dist(i, t) > Dist(rd, t)
          BY <1>1, <1>2, <2>3, <4>1 DEF Unread
        <4>3. Dist(i, t) + n <= RingDwords
          BY <1>1, <1>2, <1>4, <2>3, <4>1
        <4>4. CASE Dist(i, t) + n < RingDwords
          <5>1. Dist(i, Step(t, n)) = Dist(i, t) + n
            BY <4>4, TailMoved
          <5> QED
            BY <1>1, <1>2, <1>3, <4>2, <5>1 DEF Unread
        <4>5. CASE Dist(i, t) + n = RingDwords
          <5>1. Dist(i, t) = t - i \/ Dist(i, t) = t - i + RingDwords
            BY Distance DEF Index
          <5>2. n \in 0..RingDwords
            BY <1>2
          <5>3. /\ t + n < RingDwords => Step(t, n) = t + n
                /\ t + n >= RingDwords => Step(t, n) = t + n - RingDwords
            BY <5>2, Stepping
          <5>4. Step(t, n) = i
            BY <4>5, <5>1, <5>3, <1>2, <1>3 DEF Index
          <5>5. Dist(i, Step(t, n)) = 0
            BY <5>4, Around
          <5> QED
            BY <5>5 DEF Unread
        <4> QED
          BY <1>1, <1>2, <4>3, <4>4, <4>5
      <3> QED
        BY <3>1, <3>2
    <2> QED
      BY <1>2, <1>4, <2>1, <2>2, <2>3
  <1>9. ASSUME NEW k \in 1..n PROVE \E i \in Index : Place(i, t) = k
    <2>1. PICK m \in 0..(RingDwords - 1) : m = k - 1
      BY <1>2
    <2>2. m \in 0..RingDwords
      BY <1>2
    <2>3. /\ Step(t, m) \in Index
          /\ t + m < RingDwords => Step(t, m) = t + m
          /\ t + m >= RingDwords => Step(t, m) = t + m - RingDwords
      BY <2>2, Stepping
    <2>4. /\ t <= Step(t, m) => Dist(t, Step(t, m)) = Step(t, m) - t
          /\ Step(t, m) < t => Dist(t, Step(t, m)) = Step(t, m) - t + RingDwords
      BY <2>3, Distance
    <2>5. Dist(t, Step(t, m)) = m
      BY <1>2, <2>1, <2>3, <2>4 DEF Index
    <2> QED
      BY <1>4, <2>1, <2>3, <2>5
  <1> QED
    BY <1>3, <1>4, <1>5, <1>6, <1>7, <1>8, <1>9 DEF Unread

\* n cells are put behind t, and the tags of their headers, which are numbered on from N.
CellsPut(s2, s, cells, n, t) ==
  \A i \in Index : s2[i] = IF Place(i, t) <= n THEN cells[Place(i, t)] ELSE s[i]
TagsPut(tg2, tg, cells, n, t, b, N) ==
  \A i \in Index : tg2[i] = IF Place(i, t) > n THEN tg[i]
                            ELSE IF ~IsHeader(cells[Place(i, t)]) THEN <<0, 0>>
                            ELSE <<b, N + Headed(cells, Place(i, t))>>

\* Whole packets put behind the tail continue what is unread, and no boundary in it is lost.
LEMMA RingPuts ==
  ASSUME NEW s \in Rings, NEW tg \in TagTables, NEW b \in Nat \ {0}, NEW rd \in Index, NEW t \in Index,
         NEW c \in Nat, NEW N \in Nat, c <= N, NEW w \in Index, NEW p \in Nat, p <= N,
         RingIs(s, tg, b, rd, t, c, N, w, p), Dist(w, t) <= Dist(rd, t),
         NEW cells, WellFormed(cells), NEW n \in Nat, n = Len(cells), Dist(rd, t) + n < RingDwords,
         NEW s2 \in Rings,
         CellsPut(s2, s, cells, n, t),
         NEW tg2 \in TagTables, TagsPut(tg2, tg, cells, n, t, b, N)
  PROVE  /\ RingIs(s2, tg2, b, rd, Step(t, n), c, N + Headed(cells, n), w, p)
         /\ \A v \in Index : Dist(v, t) <= Dist(rd, t) /\ Boundary(s, v, rd, t)
              => Boundary(s2, v, rd, Step(t, n))
  <1>0. /\ \A i \in Index : s2[i] = IF Place(i, t) <= n THEN cells[Place(i, t)] ELSE s[i]
        /\ \A i \in Index : tg2[i] = IF Place(i, t) > n THEN tg[i]
                                     ELSE IF ~IsHeader(cells[Place(i, t)]) THEN <<0, 0>>
                                     ELSE <<b, N + Headed(cells, Place(i, t))>>
    BY DEF CellsPut, TagsPut
  <1> DEFINE u == Step(t, n)
             New == {i \in Index : Place(i, t) <= n /\ IsHeader(cells[Place(i, t)])}
             Old == Heads(s, rd, t)
  <1>1. \A i, j \in Index : Dist(i, j) \in Nat /\ Dist(i, j) < RingDwords
    <2> SUFFICES ASSUME NEW i \in Index, NEW j \in Index PROVE Dist(i, j) \in Nat
        /\ Dist(i, j) < RingDwords
      OBVIOUS
    <2>1. Dist(i, j) \in Index
      BY Distance
    <2> QED
      BY <2>1, RingSize DEF Index
  <1>2. /\ u \in Index
        /\ \A i \in Index : Place(i, t) \in Nat /\ Place(i, t) >= 1
        /\ \A i \in Index : Unread(i, rd, t) => Place(i, t) > n /\ Dist(i, u) = Dist(i, t) + n
        /\ \A i \in Index : Place(i, t) <= n => ~Unread(i, rd, t) /\ Dist(i, u) = n + 1 - Place(i, t)
        /\ \A i \in Index : Dist(i, t) <= Dist(rd, t) => Dist(i, u) = Dist(i, t) + n
        /\ \A i \in Index : Unread(i, rd, u) <=> Unread(i, rd, t) \/ Place(i, t) <= n
        /\ \A k \in 1..n : \E i \in Index : Place(i, t) = k
    BY Places
  <1> HIDE DEF u
  <1>3. /\ cells \in Seq(Cells)
        /\ \A k \in 1..n : IsHeader(cells[k]) =>
             HeaderOf(cells[k]).n \in Nat /\ k + HeaderOf(cells[k]).n <= n
             /\ \A j \in (k + 1)..(k + HeaderOf(cells[k]).n) : ~IsHeader(cells[j])
        /\ \A k \in 1..n : ~IsHeader(cells[k]) =>
             cells[k] = 0 \/ \E h \in 1..n : IsHeader(cells[h]) /\ k > h
               /\ k <= h + HeaderOf(cells[h]).n
    <2>1. \A k \in 1..n : HeaderOf(cells[k]).n \in Nat
      BY ElementOfSeq, HeadersOfCells DEF WellFormed, HeaderSet
    <2>2. \A k \in 1..n : IsHeader(cells[k]) =>
             Params(cells, k) \subseteq 1..n /\ \A j \in Params(cells, k) : ~IsHeader(cells[j])
      BY DEF WellFormed
    <2>3. ASSUME NEW k \in 1..n, IsHeader(cells[k])
          PROVE  k + HeaderOf(cells[k]).n <= n
      <3>1. HeaderOf(cells[k]).n \in Nat /\ (k + 1)..(k + HeaderOf(cells[k]).n) \subseteq 1..n
        BY <2>1, <2>2, <2>3 DEF Params
      <3>2. HeaderOf(cells[k]).n # 0 => k + HeaderOf(cells[k]).n \in (k + 1)..(k + HeaderOf(cells[k]).n)
        BY <3>1
      <3> QED
        BY <3>1, <3>2
    <2>4. ASSUME NEW k \in 1..n, ~IsHeader(cells[k]), cells[k] # 0
          PROVE  \E h \in 1..n : IsHeader(cells[h]) /\ k > h /\ k <= h + HeaderOf(cells[h]).n
      <3>1. PICK h \in 1..n : IsHeader(cells[h]) /\ k \in Params(cells, h)
        BY <2>4 DEF WellFormed
      <3> QED
        BY <2>1, <3>1 DEF Params
    <2>5. cells \in Seq(Cells)
      BY DEF WellFormed
    <2> QED
      BY <2>1, <2>2, <2>3, <2>4, <2>5 DEF Params
  <1>4. /\ \A i \in Index : Unread(i, rd, t) => s2[i] = s[i] /\ tg2[i] = tg[i]
        /\ \A i \in Index : Place(i, t) <= n => s2[i] = cells[Place(i, t)]
    BY <1>0, <1>2
  <1>5. Heads(s2, rd, u) = Old \cup New
    BY <1>2, <1>4 DEF Heads
  <1>6. \A h \in Old : /\ h \in Index /\ Unread(h, rd, t) /\ s2[h] = s[h] /\ tg2[h] = tg[h]
                          /\ Size(s2, h) = Size(s, h)
                       /\ Size(s, h) \in Nat /\ Dist(h, u) = Dist(h, t) + n
                       /\ Dist(h, t) \in Nat /\ Dist(h, t) >= 1 /\ Dist(h, t) <= Dist(rd, t)
    BY <1>1, <1>2, <1>4, HeadersOfCells DEF Heads, Size, Unread, Rings, HeaderSet
  <1>7. \A h \in New : /\ h \in Index /\ Place(h, t) \in 1..n /\ IsHeader(cells[Place(h, t)])
                       /\ Size(s2, h) = HeaderOf(cells[Place(h, t)]).n /\ Size(s2, h) \in Nat
                       /\ Place(h, t) + Size(s2, h) <= n /\ Dist(h, u) = n + 1 - Place(h, t)
                       /\ tg2[h] = <<b, N + Headed(cells, Place(h, t))>>
    <2> SUFFICES ASSUME NEW h \in New
                 PROVE  /\ h \in Index /\ Place(h, t) \in 1..n /\ IsHeader(cells[Place(h, t)])
                        /\ Size(s2, h) = HeaderOf(cells[Place(h, t)]).n /\ Size(s2, h) \in Nat
                        /\ Place(h, t) + Size(s2, h) <= n /\ Dist(h, u) = n + 1 - Place(h, t)
                        /\ tg2[h] = <<b, N + Headed(cells, Place(h, t))>>
      OBVIOUS
    <2>1. h \in Index /\ Place(h, t) \in 1..n /\ IsHeader(cells[Place(h, t)])
      BY <1>2
    <2>2. Size(s2, h) = HeaderOf(cells[Place(h, t)]).n
      BY <1>4, <2>1 DEF Size
    <2>3. ~(Place(h, t) > n)
      BY <2>1
    <2>4. tg2[h] = <<b, N + Headed(cells, Place(h, t))>>
      BY <1>0, <2>1, <2>3
    <2>5. HeaderOf(cells[Place(h, t)]).n \in Nat /\ Place(h, t) + HeaderOf(cells[Place(h, t)]).n <= n
      BY <1>3, <2>1
    <2>6. Dist(h, u) = n + 1 - Place(h, t)
      BY <1>2, <2>1
    <2> QED
      BY <2>1, <2>2, <2>4, <2>5, <2>6
  <1> HIDE DEF New, Old
  <1>8. ASSUME NEW v \in Index, Dist(v, t) <= Dist(rd, t), Boundary(s, v, rd, t)
        PROVE  Boundary(s2, v, rd, u)
    <2> SUFFICES ASSUME NEW h \in Heads(s2, rd, u), Dist(v, u) < Dist(h, u)
                 PROVE  Dist(v, u) + Size(s2, h) < Dist(h, u)
      BY DEF Boundary
    <2>1. Dist(v, u) = Dist(v, t) + n /\ Dist(v, t) \in Nat
      BY <1>1, <1>2, <1>8
    <2>2. h \in Old
      BY <1>5, <1>7, <2>1
    <2>3. Dist(v, t) < Dist(h, t) => Dist(v, t) + Size(s, h) < Dist(h, t)
      BY <1>8, <2>2 DEF Boundary, Old
    <2> QED
      BY <1>6, <2>1, <2>2, <2>3
  <1>9. \A h \in Old : Size(s, h) < Dist(h, t)
    <2>1. Dist(t, t) = 0 /\ Boundary(s, t, rd, t)
      BY Around DEF RingIs, Parsed
    <2> QED
      BY <1>6, <2>1 DEF Boundary, Old
  <1>10. Boundary(s2, u, rd, u)
    <2>1. Dist(u, u) = 0
      BY <1>2, Around
    <2>2. \A h \in Old : Size(s2, h) < Dist(h, u)
      BY <1>6, <1>9
    <2>3. \A h \in New : Size(s2, h) < Dist(h, u)
      BY <1>7
    <2> QED
      BY <1>5, <1>6, <1>7, <2>1, <2>2, <2>3 DEF Boundary
  <1>11. ASSUME NEW v \in Heads(s2, rd, u)
         PROVE  Boundary(s2, v, rd, u)
    <2>1. CASE v \in Old
      <3>1. Boundary(s, v, rd, t)
        BY <2>1 DEF RingIs, Parsed, Old
      <3> QED
        BY <1>6, <1>8, <2>1, <3>1
    <2>2. CASE v \in New
      <3> SUFFICES ASSUME NEW h \in Heads(s2, rd, u), Dist(v, u) < Dist(h, u)
                   PROVE  Dist(v, u) + Size(s2, h) < Dist(h, u)
        BY DEF Boundary
      <3>1. CASE h \in Old
        BY <1>6, <1>7, <1>9, <2>2, <3>1
      <3>2. CASE h \in New
        <4>1. Place(h, t) < Place(v, t)
          BY <1>7, <2>2, <3>2
        <4>2. ~(Place(v, t) <= Place(h, t) + Size(s2, h))
          <5> SUFFICES ASSUME Place(v, t) <= Place(h, t) + Size(s2, h) PROVE FALSE
            OBVIOUS
          <5>1. Place(v, t) \in (Place(h, t) + 1)..(Place(h, t) + HeaderOf(cells[Place(h, t)]).n)
            BY <1>7, <2>2, <3>2, <4>1
          <5> QED
            BY <1>3, <1>7, <2>2, <3>2, <5>1
        <4> QED
          BY <1>7, <2>2, <3>2, <4>1, <4>2
      <3> QED
        BY <1>5, <3>1, <3>2
    <2> QED
      BY <1>5, <2>1, <2>2
  <1>12. ASSUME NEW i \in Index, Unread(i, rd, u), ~IsHeader(s2[i]), s2[i] # 0
         PROVE  \E h \in Heads(s2, rd, u) : Dist(h, u) > Dist(i, u)
                /\ Dist(h, u) <= Dist(i, u) + Size(s2, h)
    <2>1. CASE Unread(i, rd, t)
      <3>1. s2[i] = s[i] /\ Dist(i, u) = Dist(i, t) + n /\ Dist(i, t) \in Nat
        BY <1>1, <1>2, <1>4, <2>1
      <3>2. PICK h \in Old : Dist(h, t) > Dist(i, t) /\ Dist(h, t) <= Dist(i, t) + Size(s, h)
        BY <1>12, <2>1, <3>1 DEF RingIs, Parsed, Old
      <3> QED
        BY <1>5, <1>6, <3>1, <3>2
    <2>2. CASE Place(i, t) <= n
      <3>1. Place(i, t) \in 1..n /\ s2[i] = cells[Place(i, t)] /\ Dist(i, u) = n + 1 - Place(i, t)
        BY <1>2, <1>4, <2>2
      <3>2. PICK k \in 1..n : IsHeader(cells[k]) /\ Place(i, t) > k
            /\ Place(i, t) <= k + HeaderOf(cells[k]).n
        BY <1>3, <1>12, <3>1
      <3>3. PICK h \in Index : Place(h, t) = k
        BY <1>2
      <3>4. h \in New
        BY <3>2, <3>3 DEF New
      <3>5. Dist(h, u) = n + 1 - k /\ Size(s2, h) = HeaderOf(cells[k]).n /\ Size(s2, h) \in Nat
        BY <1>7, <3>3, <3>4
      <3>6. Dist(h, u) > Dist(i, u) /\ Dist(h, u) <= Dist(i, u) + Size(s2, h)
        BY <3>1, <3>2, <3>5
      <3> QED
        BY <1>5, <3>4, <3>6
    <2> QED
      BY <1>2, <1>12, <2>1, <2>2
  <1>13. Parsed(s2, rd, u)
    BY <1>10, <1>11, <1>12 DEF Parsed
  <1>14. /\ Headed(cells, n) \in Nat
         /\ \A k \in 1..n : Headed(cells, k) \in Nat /\ Headed(cells, k) <= Headed(cells, n)
         /\ \A k \in 1..n : IsHeader(cells[k]) => Headed(cells, k) >= 1
         /\ \A k, l \in 1..n : k < l /\ IsHeader(cells[l]) => Headed(cells, k) < Headed(cells, l)
         /\ \A r \in 1..Headed(cells, n) : \E k \in 1..n : IsHeader(cells[k]) /\ Headed(cells, k) = r
    <2>1. Numbered(cells, n)
      BY HeadersNumbered
    <2>2. n \in 0..n /\ \A k \in 1..n : k \in 0..n
      OBVIOUS
    <2> QED
      BY <2>1, <2>2 DEF Numbered
  <1>15. \A h \in Old : tg2[h][1] = b /\ tg2[h][2] \in Nat /\ tg2[h][2] > c /\ tg2[h][2] <= N
    BY <1>6 DEF RingIs, Tagged, TagTables, Old
  <1>16. \A h \in New : /\ tg2[h][1] = b /\ tg2[h][2] = N + Headed(cells, Place(h, t))
                        /\ Headed(cells, Place(h, t)) \in Nat /\ Headed(cells, Place(h, t)) >= 1
                        /\ Headed(cells, Place(h, t)) <= Headed(cells, n)
    BY <1>7, <1>14
  <1>17. Tagged(s2, tg2, b, rd, u, c, N + Headed(cells, n))
    <2>1. ASSUME NEW i \in Index, Unread(i, rd, u), ~IsHeader(s2[i]) PROVE tg2[i] = <<0, 0>>
      <3>1. CASE Unread(i, rd, t)
        BY <1>4, <2>1, <3>1 DEF RingIs, Tagged
      <3>2. CASE Place(i, t) <= n
        <4>1. ~(Place(i, t) > n) /\ ~IsHeader(cells[Place(i, t)])
          BY <1>2, <1>4, <2>1, <3>2
        <4> QED
          BY <1>0, <4>1
      <3> QED
        BY <1>2, <2>1, <3>1, <3>2
    <2>2. \A i \in Heads(s2, rd, u) : tg2[i][1] = b /\ tg2[i][2] > c
          /\ tg2[i][2] <= N + Headed(cells, n)
      BY <1>5, <1>14, <1>15, <1>16
    <2>3. ASSUME NEW i \in Heads(s2, rd, u), NEW j \in Heads(s2, rd, u), Dist(j, u) < Dist(i, u)
          PROVE  tg2[i][2] < tg2[j][2]
      <3>1. CASE i \in Old /\ j \in Old
        <4>1. Dist(j, t) < Dist(i, t)
          BY <1>6, <2>3, <3>1
        <4> QED
          BY <1>6, <3>1, <4>1 DEF RingIs, Tagged, Old
      <3>2. CASE i \in Old /\ j \in New
        BY <1>15, <1>16, <3>2
      <3>3. CASE i \in New /\ j \in Old
        BY <1>6, <1>7, <2>3, <3>3
      <3>4. CASE i \in New /\ j \in New
        <4>1. Place(i, t) < Place(j, t)
          BY <1>7, <2>3, <3>4
        <4>2. Headed(cells, Place(i, t)) < Headed(cells, Place(j, t))
          BY <1>7, <1>14, <3>4, <4>1
        <4> QED
          BY <1>16, <3>4, <4>2
      <3> QED
        BY <1>5, <3>1, <3>2, <3>3, <3>4
    <2>4. ASSUME NEW k \in (c + 1)..(N + Headed(cells, n))
          PROVE  \E i \in Heads(s2, rd, u) : tg2[i][2] = k
      <3>1. CASE k <= N
        <4>1. k \in (c + 1)..N
          BY <1>14, <3>1
        <4>2. PICK i \in Old : tg[i][2] = k
          BY <4>1 DEF RingIs, Tagged, Old
        <4> QED
          BY <1>5, <1>6, <4>2
      <3>2. CASE k > N
        <4>1. k - N \in 1..Headed(cells, n)
          BY <1>14, <3>2
        <4>2. PICK l \in 1..n : IsHeader(cells[l]) /\ Headed(cells, l) = k - N
          BY <1>14, <4>1
        <4>3. PICK i \in Index : Place(i, t) = l
          BY <1>2
        <4>4. i \in New
          BY <4>2, <4>3 DEF New
        <4>5. tg2[i][2] = N + (k - N)
          BY <1>16, <4>2, <4>3, <4>4
        <4>6. N + (k - N) = k
          BY <1>14
        <4> QED
          BY <1>5, <4>4, <4>5, <4>6
      <3> QED
        BY <1>14, <3>1, <3>2
    <2> QED
      BY <2>1, <2>2, <2>3, <2>4 DEF Tagged
  <1>18. PublishedTo(s2, tg2, rd, u, w, p)
    <2>1. Dist(w, u) = Dist(w, t) + n /\ Dist(w, t) \in Nat
      BY <1>1, <1>2
    <2> SUFFICES ASSUME NEW i \in Heads(s2, rd, u)
                 PROVE  tg2[i][2] <= p <=> Dist(w, u) < Dist(i, u)
      BY DEF PublishedTo
    <2>2. CASE i \in Old
      <3>1. tg[i][2] <= p <=> Dist(w, t) < Dist(i, t)
        BY <2>2 DEF RingIs, PublishedTo, Old
      <3> QED
        BY <1>6, <2>1, <2>2, <3>1
    <2>3. CASE i \in New
      <3>1. ~(tg2[i][2] <= p)
        BY <1>16, <2>3
      <3>2. ~(Dist(w, u) < Dist(i, u))
        BY <1>7, <2>1, <2>3
      <3> QED
        BY <3>1, <3>2
    <2> QED
      BY <1>5, <2>2, <2>3
  <1>19. Boundary(s2, w, rd, u)
    BY <1>8 DEF RingIs
  <1>20. Past(tg2, b, rd, u, c)
    <2> SUFFICES ASSUME NEW i \in Index, ~Unread(i, rd, u), tg2[i][1] = b
                 PROVE  tg2[i][2] <= c
      BY DEF Past
    <2>1. ~Unread(i, rd, t) /\ Place(i, t) > n
      BY <1>2
    <2> QED
      BY <1>0, <2>1 DEF RingIs, Past
  <1> QED
    BY <1>8, <1>13, <1>17, <1>18, <1>19, <1>20 DEF RingIs, u

----------------------------------------------------------------------------
(* The swaps in the ring *)

\* Every unread swap has its own fetch constant before it, or one in r was put into the register.
Fetched(s, i, rd, t, r) ==
  \E page \in 0..15 :
    /\ Size(s, i) = 4 /\ s[Step(i, 2)] = 16 * page
    /\ \/ \E z \in Heads(s, rd, t) : /\ Dist(z, t) = Dist(i, t) + 3 /\ s[z] = Cell(SwapHeaders[1])
                                     /\ s[Step(z, 2)] = 8 * page + 6
       \/ i = rd /\ 8 * page + 6 \in r
\* And no pointer stands between the two.
Unsplit(s, w, rd, t) ==
  \A i \in Heads(s, rd, t) : IsSwap(s[i]) /\ Dist(i, t) <= Dist(w, t) => Dist(i, t) + 3 <= Dist(w, t)
SwapsAre(s, rd, t, w, r) ==
  /\ \A i \in Heads(s, rd, t) : IsSwap(s[i]) => Fetched(s, i, rd, t, r)
  /\ Unsplit(s, w, rd, t)

\* Distances are numbers below the size of the ring.
LEMMA Distances ==
  /\ \A i, j \in Index : Dist(i, j) \in Nat /\ Dist(i, j) < RingDwords
  /\ \A i \in Index : Dist(i, i) = 0
  <1> SUFFICES ASSUME NEW i \in Index, NEW j \in Index PROVE Dist(i, j) \in Nat
      /\ Dist(i, j) < RingDwords /\ Dist(i, i) = 0
    OBVIOUS
  <1>1. Dist(i, j) \in Index /\ Dist(i, i) = 0
    BY Distance, Around
  <1> QED
    BY <1>1, RingSize DEF Index

\* A zero is skipped: it is not the fetch constant of a swap.
LEMMA SwapsSkipped ==
  ASSUME NEW s \in Rings, NEW rd \in Index, NEW t \in Index, NEW w \in Index, NEW r, NEW r2,
         SwapsAre(s, rd, t, w, r), s[rd] = 0,
         NEW q \in Index, Dist(q, t) = Dist(rd, t) - 1
  PROVE  SwapsAre(s, q, t, w, r2)
  <1>1. \A i \in Index : Dist(i, t) \in Nat
    BY Distances
  <1>2. Heads(s, q, t) = Heads(s, rd, t) /\ rd \notin Heads(s, rd, t)
    <2>1. rd \notin Heads(s, rd, t)
      BY DEF Heads, IsHeader, WordMax
    <2>2. \A i \in Heads(s, rd, t) : i \in Index /\ Dist(i, t) # Dist(rd, t)
      BY <2>1, Distinct DEF Heads
    <2> QED
      BY <1>1, <2>1, <2>2 DEF Heads, Unread
  <1> QED
    BY <1>2 DEF SwapsAre, Fetched, Unsplit

\* A packet is taken: if it is a fetch constant, its value is what the register now may hold.
LEMMA SwapsTaken ==
  ASSUME NEW s \in Rings, NEW rd \in Index, NEW t \in Index, NEW w \in Index, NEW r, NEW r2,
         SwapsAre(s, rd, t, w, r),
         NEW q \in Index, Dist(q, t) = Dist(rd, t) - 1 - Size(s, rd), Size(s, rd) \in Nat,
         \A h \in Heads(s, rd, t) : h # rd => Dist(h, t) <= Dist(q, t),
         s[rd] = Cell(SwapHeaders[1]) => Value(s[Step(rd, 2)]) \in r2
  PROVE  SwapsAre(s, q, t, w, r2)
  <1>1. \A i \in Index : Dist(i, t) \in Nat
    BY Distances
  <1>2. Heads(s, q, t) = Heads(s, rd, t) \ {rd}
    BY <1>1 DEF Heads, Unread
  <1>3. Unsplit(s, w, q, t)
    BY <1>2 DEF SwapsAre, Unsplit
  <1>4. ASSUME NEW i \in Heads(s, q, t), IsSwap(s[i]) PROVE Fetched(s, i, q, t, r2)
    <2>1. i \in Index /\ i # rd /\ i \in Heads(s, rd, t)
      BY <1>2 DEF Heads
    <2>2. Fetched(s, i, rd, t, r)
      BY <1>4, <2>1 DEF SwapsAre
    <2>3. PICK page \in 0..15 :
            /\ Size(s, i) = 4 /\ s[Step(i, 2)] = 16 * page
            /\ \/ \E z \in Heads(s, rd, t) : /\ Dist(z, t) = Dist(i, t) + 3
                                                /\ s[z] = Cell(SwapHeaders[1])
                                             /\ s[Step(z, 2)] = 8 * page + 6
               \/ i = rd /\ 8 * page + 6 \in r
      BY <2>2 DEF Fetched
    <2>4. PICK z \in Heads(s, rd, t) : /\ Dist(z, t) = Dist(i, t) + 3 /\ s[z] = Cell(SwapHeaders[1])
                                       /\ s[Step(z, 2)] = 8 * page + 6
      BY <2>1, <2>3
    <2>5. CASE z = rd
      <3>1. Size(s, rd) = 2
        <4>1. HeaderOf(Cell(SwapHeaders[1])) = SwapHeaders[1]
          BY SwapCells
        <4>2. SwapHeaders[1].n = 2
          BY DEF SwapHeaders, Header
        <4> QED
          BY <2>4, <2>5, <4>1, <4>2 DEF Size
      <3>2. Dist(q, t) = Dist(i, t)
        BY <1>1, <2>1, <2>4, <2>5, <3>1
      <3>3. i = q
        BY <2>1, <3>2, Distinct
      <3>4. Value(8 * page + 6) = 8 * page + 6
        BY DEF Value, WordMax
      <3> QED
        BY <2>3, <2>4, <2>5, <3>3, <3>4 DEF Fetched
    <2>6. CASE z # rd
      <3>1. z \in Heads(s, q, t)
        BY <1>2, <2>6
      <3> QED
        BY <2>3, <2>4, <3>1 DEF Fetched
    <2> QED
      BY <2>5, <2>6
  <1> QED
    BY <1>3, <1>4 DEF SwapsAre

\* What is left of a batch is given up: the end of the batch is not between a swap and its fetch
\* constant.
LEMMA SwapsAborted ==
  ASSUME NEW s \in Rings, NEW rd \in Index, NEW t \in Index, NEW w \in Index, NEW r, NEW r2,
         SwapsAre(s, rd, t, w, r),
         NEW e \in Index, Dist(e, t) <= Dist(rd, t), Unsplit(s, e, rd, t)
  PROVE  SwapsAre(s, e, t, w, r2)
  <1>1. \A i \in Index : Dist(i, t) \in Nat
    BY Distances
  <1>2. \A h \in Heads(s, rd, t) : h \in Index /\ (h \in Heads(s, e, t) <=> Dist(h, t) <= Dist(e, t))
    BY <1>1 DEF Heads, Unread
  <1>3. Heads(s, e, t) \subseteq Heads(s, rd, t)
    BY <1>1 DEF Heads, Unread
  <1>4. Unsplit(s, w, e, t)
    BY <1>3 DEF SwapsAre, Unsplit
  <1>5. ASSUME NEW i \in Heads(s, e, t), IsSwap(s[i]) PROVE Fetched(s, i, e, t, r2)
    <2>1. i \in Heads(s, rd, t) /\ i \in Index /\ Dist(i, t) + 3 <= Dist(e, t)
      BY <1>2, <1>3, <1>5 DEF Unsplit
    <2>2. Fetched(s, i, rd, t, r)
      BY <1>5, <2>1 DEF SwapsAre
    <2>3. PICK page \in 0..15 :
            /\ Size(s, i) = 4 /\ s[Step(i, 2)] = 16 * page
            /\ \/ \E z \in Heads(s, rd, t) : /\ Dist(z, t) = Dist(i, t) + 3
                                                /\ s[z] = Cell(SwapHeaders[1])
                                             /\ s[Step(z, 2)] = 8 * page + 6
               \/ i = rd /\ 8 * page + 6 \in r
      BY <2>2 DEF Fetched
    <2>4. i # rd
      BY <1>1, <2>1
    <2>5. PICK z \in Heads(s, rd, t) : /\ Dist(z, t) = Dist(i, t) + 3 /\ s[z] = Cell(SwapHeaders[1])
                                       /\ s[Step(z, 2)] = 8 * page + 6
      BY <2>3, <2>4
    <2>6. z \in Heads(s, e, t)
      BY <1>1, <1>2, <2>1, <2>5
    <2> QED
      BY <2>3, <2>5, <2>6 DEF Fetched
  <1> QED
    BY <1>4, <1>5 DEF SwapsAre

\* Blocks of cells in which every swap follows its fetch constant.
SwapBlocks(cells) ==
  \A k \in 1..Len(cells) : IsSwap(cells[k]) =>
    /\ k >= 4 /\ HeaderOf(cells[k]).n = 4 /\ cells[k - 3] = Cell(SwapHeaders[1])
    /\ \E page \in 0..15 : cells[k + 2] = 16 * page /\ cells[k - 1] = 8 * page + 6

\* Blocks with whole swaps are put behind the tail.
LEMMA SwapsPut ==
  ASSUME NEW s \in Rings, NEW rd \in Index, NEW t \in Index, NEW w \in Index, NEW r,
         SwapsAre(s, rd, t, w, r), Dist(w, t) <= Dist(rd, t), Boundary(s, t, rd, t),
         NEW cells, WellFormed(cells), SwapBlocks(cells),
         NEW n \in Nat, n = Len(cells), Dist(rd, t) + n < RingDwords,
         NEW s2 \in Rings,
         CellsPut(s2, s, cells, n, t)
  PROVE  SwapsAre(s2, rd, Step(t, n), w, r)
  <1> DEFINE u == Step(t, n)
  <1>1. \A i, j \in Index : Dist(i, j) \in Nat /\ Dist(i, j) < RingDwords
    BY Distances
  <1>2. /\ u \in Index
        /\ \A i \in Index : Place(i, t) \in Nat /\ Place(i, t) >= 1
        /\ \A i \in Index : Unread(i, rd, t) => Place(i, t) > n /\ Dist(i, u) = Dist(i, t) + n
        /\ \A i \in Index : Place(i, t) <= n => ~Unread(i, rd, t) /\ Dist(i, u) = n + 1 - Place(i, t)
        /\ \A i \in Index : Dist(i, t) <= Dist(rd, t) => Dist(i, u) = Dist(i, t) + n
        /\ \A i \in Index : Unread(i, rd, u) <=> Unread(i, rd, t) \/ Place(i, t) <= n
        /\ \A k \in 1..n : \E i \in Index : Place(i, t) = k
    BY Places
  <1>3. \A i \in Index : /\ Unread(i, rd, t) => s2[i] = s[i]
                         /\ Place(i, t) <= n => s2[i] = cells[Place(i, t)]
    BY <1>2 DEF CellsPut
  <1> HIDE DEF u
  <1>4. Dist(w, u) = Dist(w, t) + n /\ Dist(w, t) \in Nat
    BY <1>1, <1>2
  <1>5. ASSUME NEW i \in Index, Place(i, t) <= n, NEW d \in Nat, Place(i, t) + d <= n
        PROVE  s2[Step(i, d)] = cells[Place(i, t) + d]
    <2>1. Place(i, t) + d \in 1..n
      BY <1>2, <1>5
    <2>2. PICK j \in Index : Place(j, t) = Place(i, t) + d
      BY <1>2, <2>1
    <2>3. Dist(i, u) = n + 1 - Place(i, t) /\ Dist(j, u) = n + 1 - Place(j, t) /\ Place(i, t) \in Nat
      BY <1>2, <1>5, <2>2
    <2>4. d \in 0..Dist(i, u)
      BY <1>5, <2>3
    <2>5. Step(i, d) \in Index /\ Dist(Step(i, d), u) = Dist(i, u) - d
      BY <1>2, <2>4, Stepped
    <2>6. Dist(Step(i, d), u) = Dist(j, u)
      BY <1>5, <2>2, <2>3, <2>5
    <2>7. Step(i, d) = j
      BY <1>2, <2>5, <2>6, Distinct
    <2> QED
      BY <1>3, <1>5, <2>2, <2>7
  <1>6. ASSUME NEW i \in Index, Unread(i, rd, t), Dist(i, t) > 2
        PROVE  s2[Step(i, 2)] = s[Step(i, 2)]
    <2>1. 2 \in 0..Dist(i, t)
      BY <1>1, <1>6
    <2>2. Step(i, 2) \in Index /\ Dist(Step(i, 2), t) = Dist(i, t) - 2
      BY <2>1, Stepped
    <2>3. Unread(Step(i, 2), rd, t)
      <3>1. Dist(i, t) \in Nat /\ Dist(rd, t) \in Nat /\ Dist(i, t) <= Dist(rd, t)
        BY <1>1, <1>6 DEF Unread
      <3> QED
        BY <1>6, <2>2, <3>1 DEF Unread
    <2> QED
      BY <1>3, <2>2, <2>3
  <1>7. Heads(s, rd, t) \subseteq Heads(s2, rd, u)
    BY <1>2, <1>3 DEF Heads
  <1>8. ASSUME NEW i \in Heads(s2, rd, u), IsSwap(s2[i]), Unread(i, rd, t)
        PROVE  /\ Fetched(s2, i, rd, u, r)
               /\ Dist(i, u) <= Dist(w, u) => Dist(i, u) + 3 <= Dist(w, u)
    <2>1. i \in Index /\ s2[i] = s[i] /\ i \in Heads(s, rd, t) /\ Dist(i, u) = Dist(i, t) + n
      BY <1>2, <1>3, <1>8 DEF Heads
    <2>2. PICK page \in 0..15 :
            /\ Size(s, i) = 4 /\ s[Step(i, 2)] = 16 * page
            /\ \/ \E z \in Heads(s, rd, t) : /\ Dist(z, t) = Dist(i, t) + 3
                                                /\ s[z] = Cell(SwapHeaders[1])
                                             /\ s[Step(z, 2)] = 8 * page + 6
               \/ i = rd /\ 8 * page + 6 \in r
      BY <1>8, <2>1 DEF SwapsAre, Fetched
    <2>3. Dist(t, t) = 0 /\ Dist(i, t) >= 1
      BY <1>8, Distances DEF Unread
    <2>4. 4 < Dist(i, t)
      <3>1. Dist(i, t) \in Nat
        BY <1>1, <2>1
      <3>2. Dist(t, t) + Size(s, i) < Dist(i, t)
        BY <2>1, <2>3, <3>1 DEF Boundary
      <3> QED
        BY <2>2, <2>3, <3>1, <3>2
    <2>5. s2[Step(i, 2)] = 16 * page /\ Size(s2, i) = 4
      <3>1. Dist(i, t) > 2
        BY <1>1, <2>1, <2>4
      <3>2. s2[Step(i, 2)] = s[Step(i, 2)]
        BY <1>6, <1>8, <2>1, <3>1
      <3> QED
        BY <2>1, <2>2, <3>2 DEF Size
    <2>6. ASSUME NEW z \in Heads(s, rd, t), Dist(z, t) = Dist(i, t) + 3, s[z] = Cell(SwapHeaders[1]),
                 s[Step(z, 2)] = 8 * page + 6
          PROVE  /\ z \in Heads(s2, rd, u) /\ Dist(z, u) = Dist(i, u) + 3
                 /\ s2[z] = Cell(SwapHeaders[1])
                 /\ s2[Step(z, 2)] = 8 * page + 6
      <3>1. z \in Index /\ Unread(z, rd, t)
        BY DEF Heads
      <3>2. Dist(z, t) > 2
        <4>1. Dist(i, t) \in Nat
          BY <1>1, <2>1
        <4> QED
          BY <2>4, <2>6, <4>1
      <3>3. s2[z] = s[z] /\ s2[Step(z, 2)] = s[Step(z, 2)]
        BY <1>3, <1>6, <3>1, <3>2
      <3>4. Dist(z, u) = Dist(z, t) + n
        BY <1>2, <3>1
      <3>5. Dist(i, t) \in Nat
        BY <1>1, <2>1
      <3>6. Dist(z, u) = Dist(i, u) + 3
        BY <2>1, <2>6, <3>4, <3>5
      <3> QED
        BY <1>7, <2>6, <3>3, <3>6
    <2>7. Fetched(s2, i, rd, u, r)
      BY <2>2, <2>5, <2>6 DEF Fetched
    <2>8. Dist(i, t) <= Dist(w, t) => Dist(i, t) + 3 <= Dist(w, t)
      BY <1>8, <2>1 DEF SwapsAre, Unsplit
    <2>9. Dist(i, t) \in Nat
      BY <1>1, <2>1
    <2> QED
      BY <1>4, <2>1, <2>7, <2>8, <2>9
  <1>9. ASSUME NEW i \in Heads(s2, rd, u), IsSwap(s2[i]), Place(i, t) <= n
        PROVE  /\ Fetched(s2, i, rd, u, r)
               /\ Dist(i, u) <= Dist(w, u) => Dist(i, u) + 3 <= Dist(w, u)
    <2> DEFINE k == Place(i, t)
    <2>1. i \in Index /\ k \in 1..n /\ s2[i] = cells[k] /\ Dist(i, u) = n + 1 - k
      BY <1>2, <1>3, <1>9 DEF Heads
    <2> HIDE DEF k
    <2>2. PICK page \in 0..15 :
            /\ k >= 4 /\ HeaderOf(cells[k]).n = 4 /\ cells[k - 3] = Cell(SwapHeaders[1])
            /\ cells[k + 2] = 16 * page /\ cells[k - 1] = 8 * page + 6
      BY <1>9, <2>1 DEF SwapBlocks
    <2>3. k + 4 <= n
      <3>1. IsHeader(cells[k])
        BY <2>1 DEF Heads
      <3>2. Params(cells, k) \subseteq 1..n
        BY <2>1, <3>1 DEF WellFormed
      <3>3. k + 4 \in Params(cells, k)
        BY <2>1, <2>2 DEF Params
      <3> QED
        BY <3>2, <3>3
    <2>4. s2[Step(i, 2)] = 16 * page /\ Size(s2, i) = 4
      <3>1. s2[Step(i, 2)] = cells[k + 2]
        BY <1>5, <2>1, <2>3 DEF k
      <3> QED
        BY <2>1, <2>2, <3>1 DEF Size
    <2>5. k - 3 \in 1..n
      BY <2>1, <2>2
    <2>6. PICK z \in Index : Place(z, t) = k - 3
      BY <1>2, <2>5
    <2>7. s2[z] = Cell(SwapHeaders[1]) /\ Dist(z, u) = n + 1 - (k - 3)
      BY <1>2, <1>3, <2>2, <2>5, <2>6
    <2>8. z \in Heads(s2, rd, u)
      BY <1>2, <2>5, <2>6, <2>7, SwapCells DEF Heads
    <2>9. s2[Step(z, 2)] = 8 * page + 6
      <3>1. Place(z, t) + 2 <= n /\ Place(z, t) + 2 = k - 1
        BY <2>1, <2>6
      <3>2. s2[Step(z, 2)] = cells[Place(z, t) + 2]
        BY <1>5, <2>1, <2>6, <3>1
      <3> QED
        BY <2>2, <3>1, <3>2
    <2>10. Dist(z, u) = Dist(i, u) + 3
      BY <2>1, <2>7
    <2>11. Fetched(s2, i, rd, u, r)
      BY <2>4, <2>7, <2>8, <2>9, <2>10 DEF Fetched
    <2> QED
      BY <1>4, <2>1, <2>2, <2>11
  <1>10. \A i \in Heads(s2, rd, u) : Unread(i, rd, t) \/ Place(i, t) <= n
    BY <1>2 DEF Heads
  <1>11. SwapsAre(s2, rd, u, w, r)
    BY <1>8, <1>9, <1>10 DEF SwapsAre, Unsplit
  <1> QED
    BY <1>11 DEF u

----------------------------------------------------------------------------
(* The state of the ring as a whole, and what the steps make of it *)

\* What holds of the ring s, its tags tg and its pointers while a thread reads it: rd is read next,
\* t is the tail, w the write pointer, wb what the driver was told; c packets are taken, p published
\* and n written; r is what the register may hold of the fetch constant of a swap at rd.
Held(s, tg, b, rd, t, c, n, w, p, wb, r) ==
  /\ s \in Rings /\ tg \in TagTables /\ b \in Nat \ {0} /\ c \in Nat /\ n \in Nat /\ p \in Nat
  /\ c <= p /\ p <= n
  /\ rd \in Index /\ t \in Index /\ w \in Index /\ wb \in Index
  /\ RingIs(s, tg, b, rd, t, c, n, w, p)
  /\ SwapsAre(s, rd, t, w, r)
  /\ Dist(w, t) <= Dist(rd, t) /\ Dist(rd, t) <= Dist(wb, t)
\* And within a batch that ends at e, since cells or packets after the last report.
InBatch(s, rd, t, w, e, since) ==
  /\ e \in Index /\ since \in Nat
  /\ Boundary(s, e, rd, t) /\ Unsplit(s, e, rd, t)
  /\ Dist(w, t) <= Dist(e, t) /\ Dist(e, t) <= Dist(rd, t)
  /\ since + Dist(rd, t) < RingDwords + Dist(e, t)
\* While the packet at i, which was the last one taken, is under way.
During(tg, b, rd, t, i, wb, c) ==
  /\ i \in Index /\ Dist(rd, t) < Dist(i, t) /\ Dist(i, t) <= Dist(wb, t)
  /\ \A j \in Index : j # i /\ ~Unread(j, rd, t) /\ tg[j][1] = b => tg[j][2] < c

\* In a batch that is not at its end there is something to read.
LEMMA BatchNotEnded ==
  ASSUME NEW s, NEW rd \in Index, NEW t \in Index, NEW w, NEW e, NEW since,
         InBatch(s, rd, t, w, e, since), rd # e
  PROVE  Dist(e, t) < Dist(rd, t) /\ rd # t
  <1>1. e \in Index /\ Dist(e, t) <= Dist(rd, t)
    BY DEF InBatch
  <1>2. Dist(e, t) \in Nat /\ Dist(rd, t) \in Nat /\ Dist(t, t) = 0
    BY <1>1, Distances
  <1>3. Dist(e, t) # Dist(rd, t)
    BY <1>1, Distinct
  <1> QED
    BY <1>1, <1>2, <1>3

\* The reader skips a zero.
LEMMA HeldSkips ==
  ASSUME NEW s, NEW tg, NEW b, NEW rd, NEW t, NEW c, NEW n, NEW w, NEW p, NEW wb, NEW r,
         Held(s, tg, b, rd, t, c, n, w, p, wb, r),
         NEW e, NEW since, InBatch(s, rd, t, w, e, since), rd # e, s[rd] = 0, NEW r2
  PROVE  /\ Held(s, tg, b, Step(rd, 1), t, c, n, w, p, wb, r2)
         /\ InBatch(s, Step(rd, 1), t, w, e, since + 1)
  <1> DEFINE q == Step(rd, 1)
  <1>1. /\ s \in Rings /\ tg \in TagTables /\ b \in Nat \ {0} /\ c \in Nat /\ n \in Nat
        /\ p \in Nat /\ c <= p /\ p <= n
        /\ rd \in Index /\ t \in Index /\ w \in Index /\ wb \in Index
        /\ RingIs(s, tg, b, rd, t, c, n, w, p) /\ SwapsAre(s, rd, t, w, r)
        /\ Dist(w, t) <= Dist(rd, t) /\ Dist(rd, t) <= Dist(wb, t)
    BY DEF Held
  <1>2. /\ e \in Index /\ since \in Nat /\ Boundary(s, e, rd, t) /\ Unsplit(s, e, rd, t)
        /\ Dist(w, t) <= Dist(e, t) /\ Dist(e, t) <= Dist(rd, t)
        /\ since + Dist(rd, t) < RingDwords + Dist(e, t)
    BY DEF InBatch
  <1>3. Dist(e, t) < Dist(rd, t) /\ rd # t
    BY <1>1, BatchNotEnded
  <1>4. /\ q \in Index /\ Dist(q, t) = Dist(rd, t) - 1
        /\ RingIs(s, tg, b, q, t, c, n, w, p)
    BY <1>1, <1>3, RingSkips
  <1> HIDE DEF q
  <1>5. SwapsAre(s, q, t, w, r2)
    BY <1>1, <1>4, SwapsSkipped
  <1>6. /\ Dist(e, t) \in Nat /\ Dist(rd, t) \in Nat /\ Dist(w, t) \in Nat /\ Dist(wb, t) \in Nat
        /\ RingDwords \in Nat
        /\ Dist(q, t) \in Nat
    BY <1>1, <1>2, <1>4, Distances, RingSize
  <1>7. Heads(s, q, t) \subseteq Heads(s, rd, t)
    <2>1. \A i \in Index : Dist(i, t) \in Nat
      BY <1>1, Distances
    <2> QED
      BY <1>4, <1>6, <2>1 DEF Heads, Unread
  <1>8. Boundary(s, e, q, t) /\ Unsplit(s, e, q, t)
    BY <1>2, <1>7 DEF Boundary, Unsplit
  <1>9. /\ Dist(w, t) <= Dist(q, t) /\ Dist(q, t) <= Dist(wb, t) /\ Dist(e, t) <= Dist(q, t)
        /\ (since + 1) + Dist(q, t) < RingDwords + Dist(e, t) /\ since + 1 \in Nat
    BY <1>1, <1>2, <1>3, <1>4, <1>6
  <1>10. Held(s, tg, b, q, t, c, n, w, p, wb, r2)
    BY <1>1, <1>4, <1>5, <1>9 DEF Held
  <1>11. InBatch(s, q, t, w, e, since + 1)
    BY <1>2, <1>8, <1>9 DEF InBatch
  <1> QED
    BY <1>10, <1>11 DEF q

\* The reader takes a packet, which is then under way.
LEMMA HeldTakes ==
  ASSUME NEW s, NEW tg, NEW b, NEW rd, NEW t, NEW c, NEW n, NEW w, NEW p, NEW wb, NEW r,
         Held(s, tg, b, rd, t, c, n, w, p, wb, r),
         NEW e, NEW since, InBatch(s, rd, t, w, e, since), rd # e, s[rd] # 0, NEW r2,
         s[rd] = Cell(SwapHeaders[1]) => Value(s[Step(rd, 2)]) \in r2,
         NEW q, q = Step(rd, 1 + Size(s, rd))
  PROVE  /\ IsHeader(s[rd]) /\ tg[rd] = <<b, c + 1>>
         /\ Size(s, rd) \in Nat /\ Size(s, rd) < RingDwords /\ 1 + Size(s, rd) <= Dist(rd, t)
         /\ Held(s, tg, b, q, t, c + 1, n, w, p, wb, r2)
         /\ InBatch(s, q, t, w, e, since + 1)
         /\ During(tg, b, q, t, rd, wb, c + 1)
  <1>1. /\ s \in Rings /\ tg \in TagTables /\ b \in Nat \ {0} /\ c \in Nat /\ n \in Nat
        /\ p \in Nat /\ c <= p /\ p <= n
        /\ rd \in Index /\ t \in Index /\ w \in Index /\ wb \in Index
        /\ RingIs(s, tg, b, rd, t, c, n, w, p) /\ SwapsAre(s, rd, t, w, r)
        /\ Dist(w, t) <= Dist(rd, t) /\ Dist(rd, t) <= Dist(wb, t)
    BY DEF Held
  <1>2. /\ e \in Index /\ since \in Nat /\ Boundary(s, e, rd, t) /\ Unsplit(s, e, rd, t)
        /\ Dist(w, t) <= Dist(e, t) /\ Dist(e, t) <= Dist(rd, t)
        /\ since + Dist(rd, t) < RingDwords + Dist(e, t)
    BY DEF InBatch
  <1>3. Dist(e, t) < Dist(rd, t) /\ rd # t
    BY <1>1, BatchNotEnded
  <1>4. /\ IsHeader(s[rd]) /\ tg[rd] = <<b, c + 1>>
        /\ q \in Index /\ Dist(q, t) = Dist(rd, t) - 1 - Size(s, rd) /\ 1 + Size(s, rd) <= Dist(rd, t)
        /\ \A v \in Index : Boundary(s, v, rd, t) /\ Dist(v, t) < Dist(rd, t)
           => Dist(v, t) <= Dist(q, t)
        /\ RingIs(s, tg, b, q, t, c + 1, n, w, p)
    BY <1>1, <1>3, RingTakes
  <1>5. Size(s, rd) \in Nat
    BY <1>1, HeadersOfCells DEF Size, Rings, HeaderSet
  <1>6. rd \in Heads(s, rd, t) /\ \A h \in Heads(s, rd, t) : h # rd => Dist(h, t) < Dist(rd, t)
    BY <1>1, <1>3, <1>4, NextCell
  <1>7. /\ Dist(e, t) \in Nat /\ Dist(rd, t) \in Nat /\ Dist(w, t) \in Nat /\ Dist(wb, t) \in Nat
        /\ RingDwords \in Nat
        /\ Dist(q, t) \in Nat /\ Dist(rd, t) < RingDwords
    BY <1>1, <1>2, <1>4, Distances, RingSize
  <1>8. \A i \in Index : Dist(i, t) \in Nat
    BY <1>1, Distances
  <1>9. \A h \in Heads(s, rd, t) : h # rd => Dist(h, t) <= Dist(q, t)
    BY <1>1, <1>4, <1>6 DEF RingIs, Parsed, Heads
  <1>10. SwapsAre(s, q, t, w, r2)
    BY <1>1, <1>4, <1>5, <1>9, SwapsTaken
  <1>11. Dist(e, t) <= Dist(q, t)
    BY <1>2, <1>3, <1>4
  <1>12. c + 1 <= p
    <2>1. Dist(w, t) < Dist(rd, t)
      BY <1>2, <1>3, <1>7
    <2>2. tg[rd][2] <= p
      BY <1>1, <1>6, <2>1 DEF RingIs, PublishedTo
    <2> QED
      BY <1>4, <2>2
  <1>13. Heads(s, q, t) \subseteq Heads(s, rd, t)
    BY <1>4, <1>5, <1>7, <1>8 DEF Heads, Unread
  <1>14. Boundary(s, e, q, t) /\ Unsplit(s, e, q, t)
    BY <1>2, <1>13 DEF Boundary, Unsplit
  <1>15. /\ Dist(w, t) <= Dist(q, t) /\ Dist(q, t) <= Dist(wb, t) /\ Dist(q, t) < Dist(rd, t)
         /\ (since + 1) + Dist(q, t) < RingDwords + Dist(e, t) /\ since + 1 \in Nat /\ c + 1 \in Nat
         /\ Size(s, rd) < RingDwords
    BY <1>1, <1>2, <1>3, <1>4, <1>5, <1>7, <1>11
  <1>16. Held(s, tg, b, q, t, c + 1, n, w, p, wb, r2)
    BY <1>1, <1>4, <1>10, <1>12, <1>15 DEF Held
  <1>17. InBatch(s, q, t, w, e, since + 1)
    BY <1>2, <1>11, <1>14, <1>15 DEF InBatch
  <1>18. ASSUME NEW j \in Index, j # rd, ~Unread(j, q, t), tg[j][1] = b
         PROVE  tg[j][2] < c + 1
    <2>1. tg[j][2] \in Nat
      BY <1>1 DEF TagTables
    <2>2. CASE ~Unread(j, rd, t)
      <3>1. tg[j][2] <= c
        BY <1>1, <1>18, <2>2 DEF RingIs, Past
      <3> QED
        BY <1>1, <2>1, <3>1
    <2>3. CASE Unread(j, rd, t)
      <3>1. IsHeader(s[j])
        <4>1. ~IsHeader(s[j]) => tg[j] = <<0, 0>>
          BY <1>1, <2>3 DEF RingIs, Tagged
        <4> QED
          BY <1>1, <1>18, <4>1
      <3>2. j \in Heads(s, rd, t)
        BY <2>3, <3>1 DEF Heads
      <3>3. Dist(j, t) <= Dist(q, t)
        BY <1>9, <1>18, <3>2
      <3> QED
        BY <1>18, <2>3, <3>3 DEF Unread
    <2> QED
      BY <2>2, <2>3
  <1>19. During(tg, b, q, t, rd, wb, c + 1)
    BY <1>1, <1>15, <1>18 DEF During
  <1> QED
    BY <1>4, <1>5, <1>15, <1>16, <1>17, <1>19

\* The cells from rd to before e.
LEMMA Between ==
  ASSUME NEW rd \in Index, NEW e \in Index, NEW t \in Index, Dist(e, t) <= Dist(rd, t), NEW i \in Index
  PROVE  Dist(rd, i) < Dist(rd, e) <=> Unread(i, rd, t) /\ Dist(e, t) < Dist(i, t)
  <1>1. /\ rd <= t => Dist(rd, t) = t - rd
        /\ t < rd => Dist(rd, t) = t - rd + RingDwords
        /\ e <= t => Dist(e, t) = t - e
        /\ t < e => Dist(e, t) = t - e + RingDwords
        /\ i <= t => Dist(i, t) = t - i
        /\ t < i => Dist(i, t) = t - i + RingDwords
        /\ rd <= e => Dist(rd, e) = e - rd
        /\ e < rd => Dist(rd, e) = e - rd + RingDwords
        /\ rd <= i => Dist(rd, i) = i - rd
        /\ i < rd => Dist(rd, i) = i - rd + RingDwords
    BY Distance
  <1> QED
    BY <1>1, RingSize DEF Index, Unread

\* The reader gives up its batch.
LEMMA HeldAborts ==
  ASSUME NEW s, NEW tg, NEW b, NEW rd, NEW t, NEW c, NEW n, NEW w, NEW p, NEW wb, NEW r,
         Held(s, tg, b, rd, t, c, n, w, p, wb, r),
         NEW e, NEW since, InBatch(s, rd, t, w, e, since), NEW r2
  PROVE  \E d \in Nat :
           /\ c <= d /\ Held(s, tg, b, e, t, d, n, w, p, wb, r2)
           /\ TagsAre(tg, {i \in Index : Dist(rd, i) < Dist(rd, e)}, b, c, d)
  <1>1. /\ s \in Rings /\ tg \in TagTables /\ b \in Nat \ {0} /\ c \in Nat /\ n \in Nat
        /\ p \in Nat /\ c <= p /\ p <= n
        /\ rd \in Index /\ t \in Index /\ w \in Index /\ wb \in Index
        /\ RingIs(s, tg, b, rd, t, c, n, w, p) /\ SwapsAre(s, rd, t, w, r)
        /\ Dist(w, t) <= Dist(rd, t) /\ Dist(rd, t) <= Dist(wb, t)
    BY DEF Held
  <1>2. /\ e \in Index /\ Boundary(s, e, rd, t) /\ Unsplit(s, e, rd, t)
        /\ Dist(w, t) <= Dist(e, t) /\ Dist(e, t) <= Dist(rd, t)
    BY DEF InBatch
  <1>3. PICK d \in c..p :
             /\ RingIs(s, tg, b, e, t, d, n, w, p)
             /\ TagsAre(tg, LeftOut(rd, e, t), b, c, d)
    BY <1>1, <1>2, RingAborts
  <1>4. {i \in Index : Dist(rd, i) < Dist(rd, e)} = LeftOut(rd, e, t)
    BY <1>1, <1>2, Between DEF LeftOut
  <1>5. SwapsAre(s, e, t, w, r2)
    BY <1>1, <1>2, SwapsAborted
  <1>6. Dist(e, t) <= Dist(wb, t)
    <2>1. Dist(e, t) \in Nat /\ Dist(rd, t) \in Nat /\ Dist(wb, t) \in Nat
      BY <1>1, <1>2, Distances
    <2> QED
      BY <1>1, <1>2, <2>1
  <1>7. d \in Nat /\ c <= d /\ d <= p
    BY <1>1
  <1>8. Held(s, tg, b, e, t, d, n, w, p, wb, r2)
    BY <1>1, <1>2, <1>3, <1>5, <1>6, <1>7 DEF Held
  <1> QED
    BY <1>3, <1>4, <1>7, <1>8

\* The driver publishes what it wrote.
LEMMA HeldPublished ==
  ASSUME NEW s, NEW tg, NEW b, NEW rd, NEW t, NEW c, NEW n, NEW w, NEW p, NEW wb, NEW r,
         Held(s, tg, b, rd, t, c, n, w, p, wb, r)
  PROVE  /\ Held(s, tg, b, rd, t, c, n, t, n, wb, r)
         /\ \A e, since : InBatch(s, rd, t, w, e, since) => InBatch(s, rd, t, t, e, since)
  <1>1. /\ s \in Rings /\ tg \in TagTables /\ b \in Nat \ {0} /\ c \in Nat /\ n \in Nat
        /\ p \in Nat /\ c <= p /\ p <= n
        /\ rd \in Index /\ t \in Index /\ w \in Index /\ wb \in Index
        /\ RingIs(s, tg, b, rd, t, c, n, w, p) /\ SwapsAre(s, rd, t, w, r)
        /\ Dist(w, t) <= Dist(rd, t) /\ Dist(rd, t) <= Dist(wb, t)
    BY DEF Held
  <1>2. Dist(t, t) = 0 /\ \A i \in Index : Dist(i, t) \in Nat
    BY <1>1, Distances
  <1>3. RingIs(s, tg, b, rd, t, c, n, t, n)
    BY <1>1, RingPublished
  <1>4. Unsplit(s, t, rd, t)
    BY <1>2 DEF Unsplit, Heads, Unread
  <1>5. SwapsAre(s, rd, t, t, r)
    BY <1>1, <1>4 DEF SwapsAre
  <1>6. c <= n /\ n <= n /\ Dist(t, t) <= Dist(rd, t)
    BY <1>1, <1>2
  <1>7. Held(s, tg, b, rd, t, c, n, t, n, wb, r)
    BY <1>1, <1>3, <1>5, <1>6 DEF Held
  <1>8. \A e, since : InBatch(s, rd, t, w, e, since) => InBatch(s, rd, t, t, e, since)
    BY <1>2 DEF InBatch
  <1> QED
    BY <1>7, <1>8

\* The driver is told where the reader is.
LEMMA HeldReported ==
  ASSUME NEW s, NEW tg, NEW b, NEW rd, NEW t, NEW c, NEW n, NEW w, NEW p, NEW wb, NEW r,
         Held(s, tg, b, rd, t, c, n, w, p, wb, r)
  PROVE  Held(s, tg, b, rd, t, c, n, w, p, rd, r)
  <1>1. Dist(rd, t) \in Nat
    BY Distances DEF Held
  <1> QED
    BY <1>1 DEF Held

\* A swap that needs nothing in the register does not care what is there.
LEMMA HeldForgets ==
  ASSUME NEW s, NEW tg, NEW b, NEW rd, NEW t, NEW c, NEW n, NEW w, NEW p, NEW wb, NEW r,
         Held(s, tg, b, rd, t, c, n, w, p, wb, {})
  PROVE  Held(s, tg, b, rd, t, c, n, w, p, wb, r)
  <1>1. ASSUME NEW i, Fetched(s, i, rd, t, {}) PROVE Fetched(s, i, rd, t, r)
    BY <1>1 DEF Fetched
  <1> QED
    BY <1>1 DEF Held, SwapsAre

\* A ring that is new in its boot.
LEMMA HeldStarts ==
  ASSUME NEW s \in Rings, NEW tg \in TagTables, NEW b \in Nat \ {0}, \A i \in Index : tg[i][1] < b,
         NEW r
  PROVE  Held(s, tg, b, 0, 0, 0, 0, 0, 0, 0, r)
  <1>1. 0 \in Index /\ Dist(0, 0) = 0
    BY RingSize, Distances DEF Index
  <1>2. Heads(s, 0, 0) = {}
    <2>1. \A i \in Index : Dist(i, 0) \in Nat
      BY <1>1, Distances
    <2> QED
      BY <1>1, <2>1 DEF Heads, Unread
  <1>3. SwapsAre(s, 0, 0, 0, r)
    BY <1>2 DEF SwapsAre, Unsplit
  <1>4. RingIs(s, tg, b, 0, 0, 0, 0, 0, 0)
    BY RingStarted
  <1> QED
    BY <1>1, <1>3, <1>4 DEF Held

\* A swap at the reader shows the page that the register describes.
LEMMA HeldSwaps ==
  ASSUME NEW s, NEW tg, NEW b, NEW rd, NEW t, NEW c, NEW n, NEW w, NEW p, NEW wb, NEW r,
         Held(s, tg, b, rd, t, c, n, w, p, wb, r), rd # t, s[rd] # 0, IsSwap(s[rd])
  PROVE  \E page \in 0..15 : Size(s, rd) = 4 /\ s[Step(rd, 2)] = 16 * page /\ 8 * page + 6 \in r
  <1>1. /\ s \in Rings /\ tg \in TagTables /\ b \in Nat \ {0} /\ c \in Nat /\ n \in Nat /\ p \in Nat
        /\ rd \in Index /\ t \in Index /\ w \in Index
        /\ RingIs(s, tg, b, rd, t, c, n, w, p) /\ SwapsAre(s, rd, t, w, r)
    BY DEF Held
  <1>2. rd \in Heads(s, rd, t)
    BY <1>1, NextCell
  <1>3. Fetched(s, rd, rd, t, r)
    BY <1>1, <1>2 DEF SwapsAre
  <1>4. \A z \in Heads(s, rd, t) : Dist(z, t) # Dist(rd, t) + 3
    <2>1. \A i \in Index : Dist(i, t) \in Nat
      BY <1>1, Distances
    <2> QED
      BY <1>1, <2>1 DEF Heads, Unread
  <1> QED
    BY <1>3, <1>4 DEF Fetched

\* The driver puts packets behind the tail, where it was told that there is room.
LEMMA HeldPuts ==
  ASSUME NEW s, NEW tg, NEW b, NEW rd, NEW t, NEW c, NEW n, NEW w, NEW p, NEW wb, NEW r,
         Held(s, tg, b, rd, t, c, n, w, p, wb, r),
         NEW cells, WellFormed(cells), SwapBlocks(cells), NEW m \in Nat, m = Len(cells),
         Dist(wb, t) + m < RingDwords,
         NEW s2 \in Rings,
         CellsPut(s2, s, cells, m, t),
         NEW tg2 \in TagTables, TagsPut(tg2, tg, cells, m, t, b, n)
  PROVE  /\ Held(s2, tg2, b, rd, Step(t, m), c, n + Headed(cells, m), w, p, wb, r)
         /\ \A e, since : InBatch(s, rd, t, w, e, since) => InBatch(s2, rd, Step(t, m), w, e, since)
         /\ \A i : During(tg, b, rd, t, i, wb, c) => During(tg2, b, rd, Step(t, m), i, wb, c)
  <1> DEFINE u == Step(t, m)
  <1>1. /\ s \in Rings /\ tg \in TagTables /\ b \in Nat \ {0} /\ c \in Nat /\ n \in Nat
        /\ p \in Nat /\ c <= p /\ p <= n
        /\ rd \in Index /\ t \in Index /\ w \in Index /\ wb \in Index
        /\ RingIs(s, tg, b, rd, t, c, n, w, p) /\ SwapsAre(s, rd, t, w, r)
        /\ Dist(w, t) <= Dist(rd, t) /\ Dist(rd, t) <= Dist(wb, t)
    BY DEF Held
  <1>2. /\ \A i \in Index : Dist(i, t) \in Nat
        /\ RingDwords \in Nat
    <2>1. RingDwords \in Nat
      BY RingSize
    <2> QED
      BY <1>1, <2>1, Distances
  <1>3. Dist(rd, t) + m < RingDwords /\ c <= n
    BY <1>1, <1>2
  <1>4. /\ u \in Index
        /\ \A i \in Index : Dist(i, t) <= Dist(wb, t) => Dist(i, u) = Dist(i, t) + m
        /\ \A i \in Index : Unread(i, wb, t) => Place(i, t) > m
    BY <1>1, Places
  <1>5. \A i \in Index : Unread(i, rd, u) <=> Unread(i, rd, t) \/ Place(i, t) <= m
    BY <1>1, <1>3, Places
  <1>6. /\ RingIs(s2, tg2, b, rd, u, c, n + Headed(cells, m), w, p)
        /\ \A v \in Index : Dist(v, t) <= Dist(rd, t) /\ Boundary(s, v, rd, t) => Boundary(s2, v, rd, u)
    BY <1>1, <1>3, RingPuts
  <1>7. ASSUME NEW v \in Index, SwapsAre(s, rd, t, v, r), Dist(v, t) <= Dist(rd, t)
        PROVE  SwapsAre(s2, rd, u, v, r)
    BY <1>1, <1>3, <1>7, SwapsPut DEF RingIs, Parsed
  <1>8. Headed(cells, m) \in Nat
    BY HeadedStep
  <1> HIDE DEF u
  <1>9. \A i \in Index : Dist(i, t) <= Dist(rd, t) => Dist(i, u) = Dist(i, t) + m
    BY <1>1, <1>2, <1>4
  <1>10. /\ Dist(w, u) = Dist(w, t) + m /\ Dist(rd, u) = Dist(rd, t) + m
         /\ Dist(wb, u) = Dist(wb, t) + m
    BY <1>1, <1>2, <1>4
  <1>11. Held(s2, tg2, b, rd, u, c, n + Headed(cells, m), w, p, wb, r)
    <2>1. n + Headed(cells, m) \in Nat /\ p <= n + Headed(cells, m)
      BY <1>1, <1>8
    <2>2. Dist(w, u) <= Dist(rd, u) /\ Dist(rd, u) <= Dist(wb, u)
      BY <1>1, <1>2, <1>10
    <2> QED
      BY <1>1, <1>4, <1>6, <1>7, <2>1, <2>2 DEF Held
  <1>12. ASSUME NEW e, NEW since, InBatch(s, rd, t, w, e, since) PROVE InBatch(s2, rd, u, w, e, since)
    <2>1. /\ e \in Index /\ since \in Nat /\ Boundary(s, e, rd, t) /\ Unsplit(s, e, rd, t)
          /\ Dist(w, t) <= Dist(e, t) /\ Dist(e, t) <= Dist(rd, t)
          /\ since + Dist(rd, t) < RingDwords + Dist(e, t)
      BY <1>12 DEF InBatch
    <2>2. SwapsAre(s, rd, t, e, r)
      BY <1>1, <2>1 DEF SwapsAre
    <2>3. Unsplit(s2, e, rd, u) /\ Boundary(s2, e, rd, u)
      BY <1>6, <1>7, <2>1, <2>2 DEF SwapsAre
    <2>4. Dist(e, u) = Dist(e, t) + m
      BY <1>9, <2>1
    <2>5. Dist(e, t) \in Nat /\ Dist(rd, t) \in Nat /\ Dist(w, t) \in Nat
      BY <1>1, <1>2, <2>1
    <2>6. Dist(w, u) <= Dist(e, u) /\ Dist(e, u) <= Dist(rd, u)
          /\ since + Dist(rd, u) < RingDwords + Dist(e, u)
      BY <1>2, <1>10, <2>1, <2>4, <2>5
    <2> QED
      BY <2>1, <2>3, <2>6 DEF InBatch
  <1>13. ASSUME NEW i, During(tg, b, rd, t, i, wb, c) PROVE During(tg2, b, rd, u, i, wb, c)
    <2>1. i \in Index /\ Dist(rd, t) < Dist(i, t) /\ Dist(i, t) <= Dist(wb, t)
      BY <1>13 DEF During
    <2>2. Dist(i, u) = Dist(i, t) + m
      BY <1>4, <2>1
    <2>3. Dist(rd, u) < Dist(i, u) /\ Dist(i, u) <= Dist(wb, u)
      BY <1>1, <1>2, <1>10, <2>1, <2>2
    <2>4. ASSUME NEW j \in Index, j # i, ~Unread(j, rd, u), tg2[j][1] = b PROVE tg2[j][2] < c
      <3>1. ~Unread(j, rd, t) /\ ~(Place(j, t) <= m)
        BY <1>5, <2>4
      <3>2. Place(j, t) \in Nat
        BY <1>1, <1>3, Places
      <3>3. Place(j, t) > m
        BY <3>1, <3>2
      <3>4. tg2[j] = tg[j]
        BY <3>3 DEF TagsPut
      <3> QED
        BY <1>13, <2>4, <3>1, <3>4 DEF During
    <2> QED
      BY <2>1, <2>3, <2>4 DEF During
  <1> QED
    BY <1>11, <1>12, <1>13 DEF u

\* The free cells, by the reported read pointer wb and the tail t: one is kept free.
LEMMA FreeIs ==
  ASSUME NEW wb \in Index, NEW t \in Index
  PROVE  (wb - t - 1) % RingDwords = RingDwords - 1 - Dist(wb, t)
  <1>1. wb - t - 1 \in Int /\ wb - t - 1 >= -RingDwords /\ wb - t - 1 < 2 * RingDwords
    BY RingSize DEF Index
  <1>2. /\ wb - t - 1 < 0 => (wb - t - 1) % RingDwords = (wb - t - 1) + RingDwords
        /\ wb - t - 1 >= 0 => (wb - t - 1) % RingDwords = wb - t - 1
    <2>1. wb - t - 1 >= 0 => wb - t - 1 < RingDwords
      BY RingSize DEF Index
    <2> QED
      BY <1>1, <2>1, Mods
  <1>3. /\ wb <= t => Dist(wb, t) = t - wb
        /\ t < wb => Dist(wb, t) = t - wb + RingDwords
    BY Distance
  <1> QED
    BY <1>2, <1>3, RingSize DEF Index

\* The cells that the driver may overwrite hold no packet that is not executed.
LEMMA HeldFree ==
  ASSUME NEW s, NEW tg, NEW b, NEW rd, NEW t, NEW c, NEW n, NEW w, NEW p, NEW wb, NEW r,
         Held(s, tg, b, rd, t, c, n, w, p, wb, r),
         NEW i \in Index, tg[i][1] = b, NEW k \in 0..((wb - t - 1) % RingDwords),
           i = (t + k) % RingDwords
  PROVE  /\ tg[i][2] <= c
         /\ \A j : During(tg, b, rd, t, j, wb, c) => tg[i][2] <= c - 1
  <1>1. /\ s \in Rings /\ tg \in TagTables /\ b \in Nat \ {0} /\ c \in Nat
        /\ rd \in Index /\ t \in Index /\ wb \in Index
        /\ RingIs(s, tg, b, rd, t, c, n, w, p) /\ Dist(rd, t) <= Dist(wb, t)
    BY DEF Held
  <1>2. (wb - t - 1) % RingDwords = RingDwords - 1 - Dist(wb, t)
    BY <1>1, FreeIs
  <1>3. Dist(wb, t) \in Nat /\ Dist(rd, t) \in Nat /\ Dist(i, t) \in Nat /\ RingDwords \in Nat
    BY <1>1, Distances, RingSize
  <1>4. k \in Nat /\ k <= RingDwords - 1 - Dist(wb, t)
    BY <1>2, <1>3
  <1>5. Dist(i, t) = 0 \/ Dist(i, t) > Dist(wb, t)
    <2>1. k \in 0..RingDwords
      BY <1>3, <1>4
    <2>2. i = Step(t, k)
      BY DEF Step
    <2>3. /\ t + k < RingDwords => i = t + k
          /\ t + k >= RingDwords => i = t + k - RingDwords
      BY <1>1, <2>1, <2>2, Stepping
    <2>4. /\ i <= t => Dist(i, t) = t - i
          /\ t < i => Dist(i, t) = t - i + RingDwords
      BY <1>1, Distance
    <2> QED
      BY <1>1, <1>3, <1>4, <2>3, <2>4 DEF Index
  <1>6. ~Unread(i, rd, t)
    BY <1>1, <1>3, <1>5 DEF Unread
  <1>7. tg[i][2] <= c
    BY <1>1, <1>6 DEF RingIs, Past
  <1>8. ASSUME NEW j, During(tg, b, rd, t, j, wb, c) PROVE tg[i][2] <= c - 1
    <2>1. j \in Index /\ Dist(j, t) # Dist(i, t)
      <3>1. j \in Index /\ Dist(rd, t) < Dist(j, t) /\ Dist(j, t) <= Dist(wb, t)
        BY <1>8 DEF During
      <3>2. Dist(j, t) \in Nat
        BY <1>1, <3>1, Distances
      <3> QED
        BY <1>3, <1>5, <3>1, <3>2
    <2>2. tg[i][2] < c
      BY <1>6, <1>8, <2>1 DEF During
    <2>3. tg[i][2] \in Nat
      BY <1>1 DEF TagTables
    <2> QED
      BY <1>1, <2>2, <2>3
  <1> QED
    BY <1>7, <1>8

\* What was taken stays in order.
LEMMA TakenNext ==
  ASSUME NEW b, NEW c \in Nat, NEW taken, taken = [k \in 1..c |-> <<b, k>>]
  PROVE  Len(taken) = c /\ taken \o <<<<b, c + 1>>>> = [k \in 1..(c + 1) |-> <<b, k>>]
  <1>1. taken \in Seq({<<b, k>> : k \in 1..(c + 1)}) /\ Len(taken) = c
    OBVIOUS
  <1>2. taken \o <<<<b, c + 1>>>> = [k \in 1..(c + 1) |-> IF k <= c THEN taken[k] ELSE <<b, c + 1>>]
    BY <1>1
  <1> QED
    BY <1>1, <1>2

\* The first c packets of boot b.
Taken(b, c) == [k \in 1..c |-> <<b, k>>]

\* What was taken, and a run of packets behind it.
LEMMA TakenOn ==
  ASSUME NEW b, NEW c \in Nat, NEW d \in Nat, c <= d
  PROVE  Taken(b, c) \o InOrder(TagRun(b, c + 1, d)) = Taken(b, d)
  <1> DEFINE taken == [k \in 1..c |-> <<b, k>>]
             more == [k \in 1..(d - (c + 1) + 1) |-> <<b, (c + 1) + k - 1>>]
  <1>1. InOrder(TagRun(b, c + 1, d)) = more
    <2>1. c + 1 \in Nat /\ c + 1 <= d + 1
      OBVIOUS
    <2>2. InOrder(TagRun(b, c + 1, d)) = TagList(b, c + 1, d)
      BY <2>1, InOrderIs
    <2> QED
      BY <2>2 DEF TagList
  <1>2. d - (c + 1) + 1 \in Nat /\ d - (c + 1) + 1 = d - c
    OBVIOUS
  <1>3. taken \in Seq({<<b, k>> : k \in 1..d}) /\ Len(taken) = c
    OBVIOUS
  <1>4. more \in Seq({<<b, k>> : k \in 1..d}) /\ Len(more) = d - c
    BY <1>2
  <1>5. taken \o more = [k \in 1..d |-> IF k <= c THEN taken[k] ELSE more[k - c]]
    <2> HIDE DEF more
    <2>1. taken \o more = [k \in 1..(Len(taken) + Len(more)) |-> IF k <= Len(taken) THEN taken[k] ELSE more[k - Len(taken)]]
      BY <1>3, <1>4
    <2>2. c + (d - c) = d
      OBVIOUS
    <2> QED
      BY <1>3, <1>4, <2>1, <2>2
  <1>6. \A k \in 1..d : (IF k <= c THEN taken[k] ELSE more[k - c]) = <<b, k>>
    OBVIOUS
  <1> HIDE DEF more
  <1> QED
    BY <1>1, <1>5, <1>6 DEF Taken

----------------------------------------------------------------------------
(* Instructions and blocks about swaps *)

\* A swap hands a buffer over or does nothing, and then its parameters are the buffer's.
LEMMA SwapExecuted ==
  ASSUME NEW g, NEW n, NEW a, NEW q, q = Execute(g, "XE_SWAP", n, a)
  PROVE  \/ q = g
         \/ /\ a[1] = kSwapSignature
            /\ q = [g EXCEPT !.screen = [pa |-> a[2], page |-> g.regs[FETCH_00 + 1] \div 8]]
  <1>1. CASE a[1] = kSwapSignature
    <2>1. q = IssueSwap(g, a[2], a[3], a[4])
      BY <1>1 DEF Execute
    <2> QED
      BY <1>1, <2>1 DEF IssueSwap
  <1>2. CASE a[1] # kSwapSignature
    BY <1>2 DEF Execute
  <1> QED
    BY <1>1, <1>2

\* The title's packets are whole, and no swaps.
LEMMA PacketsHaveNoSwaps ==
  ASSUME NEW cells \in Packets
  PROVE  WellFormed(cells) /\ SwapBlocks(cells)
  BY PacketsAssumption, SwapsAreVdSwaps DEF SwapBlocks

\* What VdSwap writes is whole packets, the swap behind its fetch constant.
LEMMA SwapBlockIsGood ==
  ASSUME NEW win, NEW page \in 0..15
  PROVE  WellFormed(SwapBlock(win, page)) /\ SwapBlocks(SwapBlock(win, page))
  <1> DEFINE p == SwapBlock(win, page)
             C(k) == Cell(SwapHeaders[k])
  <1>1. /\ C(1) \in Cells /\ IsHeader(C(1)) /\ HeaderOf(C(1)) = SwapHeaders[1]
        /\ C(2) \in Cells /\ IsHeader(C(2)) /\ HeaderOf(C(2)) = SwapHeaders[2]
        /\ C(3) \in Cells /\ IsHeader(C(3)) /\ HeaderOf(C(3)) = SwapHeaders[3]
    BY SwapCells
  <1>2. /\ SwapHeaders[1].n = 2 /\ SwapHeaders[1].op = "NOP" /\ SwapHeaders[2].n = 4
        /\ SwapHeaders[3].n = 0 /\ SwapHeaders[3].op = "NOP"
    BY DEF SwapHeaders, Header
  <1>3. /\ (page * 16) \div 2 + 6 = 8 * page + 6 /\ page * 16 = 16 * page
        /\ 8 * page + 6 \in Words /\ 16 * page \in Words /\ 0 \in Words /\ 83 \in Words /\ 8 \in Words
    BY DEF Words, WordMax
  <1>4. p = <<C(1), 0, 8 * page + 6, C(2), 83, 16 * page, 8, 8, C(3)>>
    BY <1>3 DEF SwapBlock, ToPhysical, K8888, kSwapSignature
  <1>5. \A v \in {0, 8 * page + 6, 83, 16 * page, 8} : v \in Cells /\ ~IsHeader(v) /\ ~IsSwap(v)
    BY <1>3, WordsAreCells
  <1> HIDE DEF p, C
  <1>6. /\ Len(p) = 9 /\ p \in Seq(Cells)
        /\ p[1] = C(1) /\ p[2] = 0 /\ p[3] = 8 * page + 6 /\ p[4] = C(2) /\ p[5] = 83
        /\ p[6] = 16 * page
        /\ p[7] = 8 /\ p[8] = 8 /\ p[9] = C(3)
    BY <1>1, <1>4, <1>5
  <1>7. /\ HeaderOf(p[1]).n = 2 /\ HeaderOf(p[4]).n = 4 /\ HeaderOf(p[9]).n = 0
        /\ IsHeader(p[1]) /\ IsHeader(p[4]) /\ IsHeader(p[9])
        /\ ~IsSwap(p[1]) /\ ~IsSwap(p[9])
    BY <1>1, <1>2, <1>6 DEF C, IsSwap
  <1>8. \A k \in {2, 3, 5, 6, 7, 8} : ~IsHeader(p[k]) /\ ~IsSwap(p[k])
    BY <1>5, <1>6
  <1>9. \A k \in 1..9 : k \in {1, 2, 3, 4, 5, 6, 7, 8, 9}
    OBVIOUS
  <1>10. Params(p, 1) = 2..3 /\ Params(p, 4) = 5..8 /\ Params(p, 9) = {}
    BY <1>7 DEF Params
  <1>11. WellFormed(p)
    <2>1. ASSUME NEW k \in {1, 4, 9}
          PROVE  IsHeader(p[k]) /\ Params(p, k) \subseteq 1..9
                 /\ \A j \in Params(p, k) : ~IsHeader(p[j])
      <3>1. \A j \in 2..3 : j \in {2, 3}
        OBVIOUS
      <3>2. \A j \in 5..8 : j \in {5, 6, 7, 8}
        OBVIOUS
      <3>3. 2..3 \subseteq 1..9 /\ 5..8 \subseteq 1..9
        OBVIOUS
      <3> QED
        BY <1>7, <1>8, <1>10, <3>1, <3>2, <3>3
    <2>2. ASSUME NEW k \in {2, 3, 5, 6, 7, 8}
          PROVE  ~IsHeader(p[k]) /\ \E h \in 1..9 : IsHeader(p[h]) /\ k \in Params(p, h)
      <3>1. CASE k \in {2, 3}
        BY <1>7, <1>8, <1>10, <3>1
      <3>2. CASE k \in {5, 6, 7, 8}
        BY <1>7, <1>8, <1>10, <3>2
      <3> QED
        BY <3>1, <3>2
    <2> QED
      BY <1>6, <1>9, <2>1, <2>2 DEF WellFormed
  <1>12. SwapBlocks(p)
    <2> SUFFICES ASSUME NEW k \in 1..9, IsSwap(p[k])
                 PROVE  /\ k >= 4 /\ HeaderOf(p[k]).n = 4 /\ p[k - 3] = C(1)
                        /\ \E pg \in 0..15 : p[k + 2] = 16 * pg /\ p[k - 1] = 8 * pg + 6
      BY <1>6 DEF SwapBlocks, C
    <2>1. k = 4
      BY <1>7, <1>8, <1>9
    <2> QED
      BY <1>6, <1>7, <2>1
  <1> QED
    BY <1>11, <1>12 DEF p

----------------------------------------------------------------------------
(* The inductive invariant *)

\* Where the thread is in a batch, and where it is in a packet.
Batch == {"ring", "list", "poll", "wb"}
InPacket == {"list", "poll"}
\* The place the ring is read at next, be it by this batch or by the one to come.
Reader ==
  IF pc \in InPacket THEN next
  ELSE IF pc \in {"ring", "wb"} THEN idx ELSE IF pc = "publish" THEN wptrSeen ELSE rptrIndex

\* There is a ring, and a thread that reads it to the end of a batch at least.
Live == ringBasePa # 0 /\ (running \/ pc \in Batch)
\* What the register may hold for a swap at the reader: a list may overwrite it.
Fetches == IF pc \in InPacket THEN {} ELSE {regs[FETCH_00 + 1]}

\* The types of what TypeOK leaves out.
Typed ==
  /\ TypeOK /\ tag \in TagTables /\ boot \in Nat \ {0} /\ written \in Nat /\ published \in Nat
  /\ published <= written /\ wptrSeen \in Index
  /\ \A i \in Index : tag[i][1] <= boot

\* The set-up of the ring, step by step: before the write-back is enabled nothing is written or read.
Phased ==
  /\ rptrWbPa \in {0, WriteBackAt}
  /\ ringBasePa = 0 => ringSize = 0 /\ rptrWbPa = 0
  /\ ringBasePa # 0 => ringSize = RingDwords /\ mem[WriteBackAt] \in Index
  /\ rptrWbPa = 0 =>
       /\ pc \in {"idle", "ended"} /\ tail = 0 /\ rptrIndex = 0 /\ written = 0 /\ published = 0
       /\ consumed = <<>> /\ \A i \in Index : tag[i][1] < boot
       /\ ringBasePa # 0 => wptr = 0
  /\ pc \in Batch \union {"publish"} => span = RingDwords

\* What was taken, in every state, also when no ring is there.
TakenInOrder == \E c \in Nat : c <= published /\ consumed = [k \in 1..c |-> <<boot, k>>]
\* Only the ring has swaps: a list that runs somewhere else has none.
SwapsInRing == \A a \in Addresses : a \notin RingCells => ~IsSwap(mem[a])
\* The three parts about the ring, for the state's values: what holds of it, of a batch, of a packet.
RingHeld ==
  Live => Held(RingOf(mem), tag, boot, Reader, tail, Len(consumed), written, wptr, published,
               mem[WriteBackAt], Fetches)
BatchHeld ==
  Live /\ pc \in Batch \union {"publish"} =>
    InBatch(RingOf(mem), Reader, tail, wptr, wptrSeen, sinceWb)
PacketHeld ==
  pc \in InPacket => During(tag, boot, next, tail, idx, mem[WriteBackAt], Len(consumed))

\* The inductive invariant.
RingInv ==
  /\ Typed /\ Phased /\ TakenInOrder /\ SwapsInRing /\ SwapMatchesItsFetch
  /\ RingHeld /\ BatchHeld /\ PacketHeld

\* The types of the state, by the names the lemmas above use.
LEMMA TypedFacts ==
  ASSUME Typed
  PROVE  /\ mem \in Mems /\ regs \in Regs /\ DOMAIN mem = Addresses
         /\ wptr \in Index /\ rptrMmio \in Index /\ rptrIndex \in Index /\ idx \in Index
         /\ next \in Index
         /\ tail \in Index
         /\ Good(Machine)
  <1>1. DOMAIN Image = Addresses
    BY MemoryAssumption DEF Addresses
  <1>2. mem \in Mems /\ DOMAIN mem = Addresses
    BY <1>1 DEF Typed, TypeOK, Mems
  <1>3. regs \in Regs
    BY DEF Typed, TypeOK, Regs, Words
  <1>4. Good(Machine)
    BY <1>2, <1>3 DEF Good, Machine
  <1> QED
    BY <1>2, <1>3, <1>4 DEF Typed, TypeOK, Index

\* The ring is a part of memory, apart from the reported read pointer.
LEMMA RingMemory ==
  ASSUME NEW m \in Mems
  PROVE  /\ RingOf(m) \in Rings
         /\ \A i \in Index : /\ RingBase + i \in Addresses /\ RingBase + i \in RingCells
                                /\ RingBase + i # WriteBackAt
                             /\ RingOf(m)[i] = m[RingBase + i]
         /\ \A a \in RingCells : a - RingBase \in Index /\ a \in Addresses
            /\ RingBase + (a - RingBase) = a
         /\ WriteBackAt \in Addresses /\ WriteBackAt \notin RingCells /\ WriteBackAt # 0 /\ RingBase # 0
  <1>1. RingBase \in Nat /\ RingBase # 0 /\ WriteBackAt \in Nat
        /\ RingBase + RingDwords <= WriteBackAt /\ RingDwords \in 4..256
    BY RingIsInMemory, RingSize
  <1>2. \A i \in Index : RingBase + i \in Addresses /\ RingBase + i \in RingCells
        /\ RingBase + i # WriteBackAt
    BY <1>1 DEF Index, Addresses, RingCells
  <1>3. \A a \in RingCells : a - RingBase \in Index /\ a \in Addresses /\ RingBase + (a - RingBase) = a
    BY <1>1 DEF Index, Addresses, RingCells
  <1>4. WriteBackAt \in Addresses /\ WriteBackAt \notin RingCells /\ WriteBackAt # 0
    BY <1>1 DEF Addresses, RingCells
  <1>5. RingOf(m) \in Rings /\ \A i \in Index : RingOf(m)[i] = m[RingBase + i]
    BY <1>2 DEF RingOf, Rings, Mems
  <1> QED
    BY <1>1, <1>2, <1>3, <1>4, <1>5

\* Reading a cell and parameters of the ring.
LEMMA RingReading ==
  ASSUME Typed, ringBasePa = RingBase, ringSize = RingDwords, span = RingDwords
  PROVE  /\ RingCell(idx) = RingOf(mem)[idx]
         /\ \A k \in 1..(RingDwords - 1) : RingCell(idx + k) = RingOf(mem)[Step(idx, k)]
         /\ \A n \in Nat : \A k \in 1..n : RingArgs(n)[k] \in Words
         /\ \A n \in Nat : \A k \in 1..n :
              k < RingDwords => RingArgs(n)[k] = Value(RingOf(mem)[Step(idx, k)])
  <1>1. mem \in Mems /\ idx \in Index /\ DOMAIN mem = Addresses
    BY TypedFacts
  <1>2. \A i \in Index : RingBase + i \in Addresses /\ RingOf(mem)[i] = mem[RingBase + i]
    BY <1>1, RingMemory
  <1>3. \A i \in Index : ReadPhys(mem, RingBase + i) = RingOf(mem)[i]
    BY <1>1, <1>2 DEF ReadPhys
  <1>4. idx % RingDwords = idx
    <2>1. idx \in Int /\ idx >= -RingDwords /\ idx < 2 * RingDwords /\ idx >= 0 /\ idx < RingDwords
      BY <1>1, RingSize DEF Index
    <2> QED
      BY <2>1, Mods
  <1>5. RingCell(idx) = RingOf(mem)[idx]
    BY <1>1, <1>3, <1>4 DEF RingCell
  <1>6. \A k \in 1..(RingDwords - 1) : Step(idx, k) \in Index
    BY <1>1, Stepping, RingSize
  <1>7. \A k \in 1..(RingDwords - 1) : RingCell(idx + k) = RingOf(mem)[Step(idx, k)]
    BY <1>3, <1>6 DEF RingCell, Step
  <1>8. \A n \in Nat : \A k \in 1..n : RingArgs(n)[k] \in Words
    BY <1>1, PhysRead DEF RingArgs
  <1>9. ASSUME NEW n \in Nat, NEW k \in 1..n, k < RingDwords
        PROVE  RingArgs(n)[k] = Value(RingOf(mem)[Step(idx, k)])
    <2> DEFINE f == Step(idx, 1)
               q == RingBase + f + k - 1
    <2>1. k \in 1..(RingDwords - 1) /\ RingBase \in Nat /\ RingDwords \in 4..256
      BY <1>9, RingSize, RingIsInMemory
    <2>2. /\ f \in Index
          /\ idx + 1 < RingDwords => f = idx + 1
          /\ idx + 1 >= RingDwords => f = idx + 1 - RingDwords
      BY <1>1, <2>1, Stepping
    <2>3. /\ Step(idx, k) \in Index
          /\ idx + k < RingDwords => Step(idx, k) = idx + k
          /\ idx + k >= RingDwords => Step(idx, k) = idx + k - RingDwords
      BY <1>1, <2>1, Stepping
    <2>4. RingArgs(n)[k] = Value(ReadPhys(mem, IF ringSize # 0 /\ q >= ringBasePa + ringSize THEN q - ringSize ELSE q))
      BY DEF RingArgs, Step
    <2> HIDE DEF f
    <2>5. /\ q >= RingBase + RingDwords => q - RingDwords = RingBase + Step(idx, k)
          /\ ~(q >= RingBase + RingDwords) => q = RingBase + Step(idx, k)
      BY <1>1, <2>1, <2>2, <2>3 DEF Index
    <2> HIDE DEF q
    <2>6. RingArgs(n)[k] = Value(ReadPhys(mem, RingBase + Step(idx, k)))
      BY <2>1, <2>4, <2>5
    <2> QED
      BY <1>3, <2>3, <2>6
  <1> QED
    BY <1>5, <1>7, <1>8, <1>9

----------------------------------------------------------------------------
(* What a packet does to the machine *)

\* The machine stays well typed and no swap is written; the polls are counted.
Data ==
  /\ mem' \in Mems /\ regs' \in Regs
  /\ \A a \in Addresses : mem'[a] = mem[a] \/ mem'[a] \in Words
  /\ spins' \in 0..(MaxSpins + 1)
\* The packet is under way, or the thread is behind it.
Flow(after) ==
  \/ pc' \in InPacket /\ idx' = idx
  \/ pc' = "wb" /\ idx' = after /\ frames' = <<>>

\* A step that leaves memory and registers alone.
LEMMA DataKept ==
  ASSUME Typed, UNCHANGED <<mem, regs>>, spins' \in 0..(MaxSpins + 1)
  PROVE  Data
  BY TypedFacts DEF Data

\* The polls start from zero.
LEMMA Zeroed ==
  ASSUME Typed
  PROVE  0 \in 0..(MaxSpins + 1) /\ spins \in 0..(MaxSpins + 1)
  <1>1. MaxSpins \in Nat
    BY BoundsAreNat
  <1> QED
    BY <1>1 DEF Typed, TypeOK

\* The machine becomes what an instruction makes of it.
LEMMA MachineWritten ==
  ASSUME Typed, NEW r, Writes(Machine, r), Becomes(r), UNCHANGED spins
  PROVE  Data /\ screen' = screen /\ regs' = r.regs
  <1>1. r.regs \in Regs /\ r.mem \in Mems /\ r.screen = screen
        /\ \A a \in Addresses : r.mem[a] = mem[a] \/ r.mem[a] \in Words
    BY DEF Writes, Good, Machine
  <1>2. regs' = r.regs /\ mem' = r.mem /\ screen' = r.screen
    BY DEF Becomes
  <1> QED
    BY <1>1, <1>2, Zeroed DEF Data

\* Resume goes on in the list outside or behind the packet.
LEMMA ResumeFlows ==
  ASSUME NEW left, NEW after, Resume(left, after)
  PROVE  Flow(after)
  BY DEF Resume, Flow, InPacket

\* A type-3 packet: only a swap changes the screen, and it changes nothing else.
LEMMA Type3Does ==
  ASSUME Typed, NEW h \in HeaderSet, h.n # 0, NEW args, \A k \in 1..ArgsRead(h.n) : args[k] \in Words,
         NEW outer, NEW after, Type3(h, args, outer, after)
  PROVE  /\ Data /\ Flow(after)
         /\ h.op # "XE_SWAP" => screen' = screen
         /\ h.op = "XE_SWAP" =>
              /\ mem' = mem /\ regs' = regs
              /\ screen' = screen \/ screen' = [pa |-> args[2], page |-> regs[FETCH_00 + 1] \div 8]
  <1>0. Good(Machine)
    BY TypedFacts
  <1>1. CASE /\ ~Skipped(h) /\ h.op = "WAIT_REG_MEM"
             /\ pc' = "poll" /\ spins' = 0
             /\ UNCHANGED <<machine, mem, idx>>
    <2>1. Data
      BY <1>1, DataKept, Zeroed DEF machine
    <2> QED
      BY <1>1, <2>1 DEF Flow, InPacket, machine
  <1>2. CASE /\ ~Skipped(h) /\ h.op = "INDIRECT_BUFFER"
             /\ \E left : Resume(left, after)
             /\ UNCHANGED <<machine, mem, wait, spins>>
    <2>1. Data
      BY <1>2, DataKept, Zeroed DEF machine
    <2> QED
      BY <1>2, <2>1, ResumeFlows DEF machine
  <1>3. CASE /\ Becomes(IF Skipped(h) THEN Machine ELSE Execute(Machine, h.op, h.n, args))
             /\ Resume(outer, after)
             /\ UNCHANGED <<wait, spins>>
    <2>1. Flow(after) /\ UNCHANGED spins
      BY <1>3, ResumeFlows
    <2>2. CASE Skipped(h)
      <3>1. Becomes(Machine)
        BY <1>3, <2>2
      <3>2. mem' = mem /\ regs' = regs /\ screen' = screen
        BY <3>1 DEF Becomes, Machine
      <3>3. Data
        BY <2>1, <3>2, DataKept, Zeroed
      <3> QED
        BY <2>1, <3>2, <3>3
    <2>3. CASE ~Skipped(h) /\ h.op # "XE_SWAP"
      <3>1. PICK r : r = Execute(Machine, h.op, h.n, args)
        OBVIOUS
      <3>2. h.n \in Nat \ {0}
        BY DEF HeaderSet
      <3>3. Writes(Machine, r)
        BY <1>0, <2>3, <3>1, <3>2, Executed
      <3>4. Becomes(r)
        BY <1>3, <2>3, <3>1
      <3> QED
        BY <2>1, <2>3, <3>3, <3>4, MachineWritten
    <2>4. CASE ~Skipped(h) /\ h.op = "XE_SWAP"
      <3>1. PICK r : r = Execute(Machine, "XE_SWAP", h.n, args)
        OBVIOUS
      <3>2. Becomes(r)
        BY <1>3, <2>4, <3>1
      <3>3. regs' = r.regs /\ mem' = r.mem /\ screen' = r.screen
        BY <3>2 DEF Becomes
      <3>4. \/ r = Machine
            \/ r = [Machine EXCEPT !.screen = [pa |-> args[2], page |-> Machine.regs[FETCH_00 + 1] \div 8]]
        BY <3>1, SwapExecuted
      <3>5. /\ r.regs = regs /\ r.mem = mem
            /\ r.screen = screen \/ r.screen = [pa |-> args[2], page |-> regs[FETCH_00 + 1] \div 8]
        BY <3>4 DEF Machine
      <3>6. Data
        BY <2>1, <3>3, <3>5, DataKept, Zeroed
      <3> QED
        BY <2>1, <2>4, <3>3, <3>5, <3>6
    <2> QED
      BY <2>2, <2>3, <2>4
  <1> QED
    BY <1>1, <1>2, <1>3 DEF Type3

----------------------------------------------------------------------------
(* The steps of the thread keep the invariant *)

\* A batch is read from a ring that is set up.
LEMMA BatchIsLive ==
  ASSUME Phased, pc \in Batch \union {"publish"}
  PROVE  /\ rptrWbPa = WriteBackAt /\ ringBasePa # 0 /\ ringSize = RingDwords /\ span = RingDwords
         /\ pc \in Batch => Live
  <1>1. rptrWbPa # 0
    BY DEF Phased, Batch
  <1> QED
    BY <1>1 DEF Phased, Live

\* A ring that is there is where the driver puts it.
LEMMA BasePlaced ==
  ASSUME Typed
  PROVE  ringBasePa # 0 => ringBasePa = RingBase
  BY DEF Typed, TypeOK

\* The types after a step of the thread that leaves the driver's state alone.
LEMMA TypedOn ==
  ASSUME Typed, UNCHANGED <<driver, config, wptr>>,
         mem' \in Mems, regs' \in Regs, spins' \in 0..(MaxSpins + 1), sinceWb' \in 0..RingDwords,
         rptrMmio' \in Index, rptrIndex' \in Index, idx' \in Index, next' \in Index,
           wptrSeen' \in Index,
         pc' \in {"idle", "ring", "list", "poll", "wb", "publish", "ended"},
         span' \in {1, RingDwords}, frames' # <<>> => pc' \in InPacket
  PROVE  Typed'
  <1>1. /\ UNCHANGED <<tail, boot, written, published, tag, ringBasePa, ringSize, wptr>>
    BY DEF driver, config
  <1>2. mem' \in [DOMAIN Image -> Cells]
    BY MemoryAssumption DEF Mems, Addresses
  <1>3. regs' \in [0..(kRegCount - 1) -> 0..WordMax]
    BY DEF Regs, Words
  <1>4. tail \in Index /\ wptr \in Index
    BY DEF Typed, TypeOK, Index
  <1>5. {wptr', rptrMmio', rptrIndex', idx', next', tail'} \subseteq 0..(RingDwords - 1)
    BY <1>1, <1>4 DEF Index
  <1>6. TypeOK'
    BY <1>1, <1>2, <1>3, <1>5 DEF Typed, TypeOK, InPacket
  <1> QED
    BY <1>1, <1>6 DEF Typed

\* No instruction writes a swap outside the ring.
LEMMA SwapsStayInRing ==
  ASSUME SwapsInRing, Data
  PROVE  SwapsInRing'
  <1>1. ASSUME NEW a \in Addresses, a \notin RingCells PROVE ~IsSwap(mem'[a])
    BY <1>1, WordsAreCells DEF SwapsInRing, Data
  <1> QED
    BY <1>1 DEF SwapsInRing

\* What holds of the ring in a state, in terms of the state's parts.
LEMMA RingFacts ==
  ASSUME RingInv, Live
  PROVE  Held(RingOf(mem), tag, boot, Reader, tail, Len(consumed), written, wptr, published,
              mem[WriteBackAt], Fetches)
  BY DEF RingInv, RingHeld

\* Fetch: a batch starts at the read index and ends at the write pointer of the moment.
LEMMA FetchKeeps ==
  ASSUME RingInv, Fetch
  PROVE  RingInv'
  <1>1. /\ Typed /\ Phased /\ TakenInOrder /\ SwapsInRing /\ SwapMatchesItsFetch
        /\ pc = "idle" /\ running /\ ringBasePa # 0 /\ wptr # rptrIndex
        /\ pc' = "ring" /\ idx' = rptrIndex % ringSize /\ span' = ringSize /\ wptrSeen' = wptr
        /\ sinceWb' = 0
        /\ UNCHANGED <<mem, wptr, rptrMmio, config, rptrIndex, machine, running, next, frames, wait,
                       spins, driver, consumed>>
    BY DEF RingInv, Fetch
  <1>2. /\ UNCHANGED <<mem, regs, screen, tag, boot, tail, written, published, ringBasePa, ringSize, rptrWbPa>>
    BY <1>1 DEF driver, machine, config
  <1>3. rptrIndex \in Index /\ wptr \in Index /\ mem \in Mems /\ regs \in Regs
        /\ rptrMmio \in Index /\ next \in Index
        /\ ringSize = RingDwords /\ RingDwords \in 4..256 /\ frames = <<>>
    BY <1>1, TypedFacts, RingSize DEF Phased, Typed, TypeOK
  <1>4. idx' = rptrIndex
    <2>1. rptrIndex \in Int /\ rptrIndex >= -RingDwords /\ rptrIndex < 2 * RingDwords
          /\ rptrIndex >= 0 /\ rptrIndex < RingDwords
      BY <1>3 DEF Index
    <2> QED
      BY <1>1, <1>3, <2>1, Mods
  <1>5. rptrWbPa # 0
    BY <1>1 DEF Phased
  <1>6. Typed'
    <2>1. spins' \in 0..(MaxSpins + 1) /\ 0 \in 0..RingDwords
      BY <1>1, <1>3, Zeroed
    <2> QED
      BY <1>1, <1>2, <1>3, <1>4, <2>1, TypedOn
  <1>7. Phased'
    BY <1>1, <1>2, <1>3, <1>5 DEF Phased
  <1>8. Live /\ Reader = rptrIndex /\ Reader' = rptrIndex /\ Fetches = Fetches'
    BY <1>1, <1>2, <1>4 DEF Live, Reader, Fetches, InPacket
  <1>9. Held(RingOf(mem), tag, boot, rptrIndex, tail, Len(consumed), written, wptr, published,
             mem[WriteBackAt], Fetches)
    BY <1>8, RingFacts
  <1>10. RingHeld'
    BY <1>1, <1>2, <1>8, <1>9 DEF RingHeld
  <1>11. InBatch(RingOf(mem), rptrIndex, tail, wptr, wptr, 0)
    <2>1. /\ Boundary(RingOf(mem), wptr, rptrIndex, tail) /\ Unsplit(RingOf(mem), wptr, rptrIndex, tail)
          /\ Dist(wptr, tail) <= Dist(rptrIndex, tail) /\ tail \in Index
      BY <1>9 DEF Held, RingIs, SwapsAre
    <2>2. Dist(wptr, tail) \in Nat /\ Dist(rptrIndex, tail) \in Nat
          /\ Dist(rptrIndex, tail) < RingDwords
      BY <1>3, <2>1, Distances
    <2>3. Dist(wptr, tail) <= Dist(wptr, tail)
          /\ 0 + Dist(rptrIndex, tail) < RingDwords + Dist(wptr, tail)
      BY <1>3, <2>2
    <2> QED
      BY <1>3, <2>1, <2>3 DEF InBatch
  <1>12. BatchHeld'
    BY <1>1, <1>2, <1>8, <1>11 DEF BatchHeld
  <1>13. PacketHeld'
    BY <1>1 DEF PacketHeld, InPacket
  <1>14. TakenInOrder' /\ SwapsInRing' /\ SwapMatchesItsFetch'
    BY <1>1, <1>2 DEF TakenInOrder, SwapsInRing, SwapMatchesItsFetch
  <1> QED
    BY <1>6, <1>7, <1>10, <1>12, <1>13, <1>14 DEF RingInv

\* BatchEnds: the reader is at the end of the batch, or the runtime stops.
LEMMA BatchEndsKeeps ==
  ASSUME RingInv, BatchEnds
  PROVE  RingInv'
  <1>1. /\ Typed /\ Phased /\ TakenInOrder /\ SwapsInRing /\ SwapMatchesItsFetch /\ RingHeld
        /\ BatchHeld
        /\ pc = "ring" /\ AtEnd /\ pc' = "publish"
        /\ UNCHANGED <<mem, wptr, rptrMmio, config, rptrIndex, machine, running, locals, driver, consumed>>
    BY DEF RingInv, BatchEnds
  <1>2. UNCHANGED <<mem, regs, screen, tag, boot, tail, written, published, ringBasePa, ringSize, rptrWbPa,
                    idx, next, wptrSeen, span, sinceWb, frames, spins>>
    BY <1>1 DEF driver, machine, config, locals
  <1>3. /\ rptrIndex \in Index /\ wptr \in Index /\ mem \in Mems /\ regs \in Regs
        /\ rptrMmio \in Index /\ next \in Index
        /\ idx \in Index /\ wptrSeen \in Index /\ frames = <<>> /\ sinceWb \in 0..RingDwords
        /\ span \in {1, RingDwords}
    BY <1>1, TypedFacts DEF Typed, TypeOK
  <1>4. Typed'
    BY <1>1, <1>2, <1>3, Zeroed, TypedOn
  <1>5. Phased'
    BY <1>1, <1>2 DEF Phased, Batch
  <1>6. Live /\ span = RingDwords
    BY <1>1, BatchIsLive DEF Batch
  <1>7. running => idx = wptrSeen
    <2>1. wptrSeen % RingDwords = wptrSeen
      <3>1. wptrSeen \in Int /\ wptrSeen >= -RingDwords /\ wptrSeen < 2 * RingDwords
            /\ wptrSeen >= 0 /\ wptrSeen < RingDwords
        BY <1>3, RingSize DEF Index
      <3> QED
        BY <3>1, Mods
    <2> QED
      BY <1>1, <1>6, <2>1 DEF AtEnd
  <1>8. Live' => running /\ Reader' = Reader /\ Fetches' = Fetches
    BY <1>1, <1>2, <1>7 DEF Live, Reader, Fetches, InPacket, Batch
  <1>9. RingHeld' /\ BatchHeld'
    BY <1>1, <1>2, <1>6, <1>8 DEF RingHeld, BatchHeld, Batch
  <1>10. PacketHeld'
    BY <1>1 DEF PacketHeld, InPacket
  <1>11. TakenInOrder' /\ SwapsInRing' /\ SwapMatchesItsFetch'
    BY <1>1, <1>2 DEF TakenInOrder, SwapsInRing, SwapMatchesItsFetch
  <1> QED
    BY <1>4, <1>5, <1>9, <1>10, <1>11 DEF RingInv

\* What holds when the thread looks at the next cell of the ring.
LEMMA NotAtEnd ==
  ASSUME RingInv, pc = "ring", ~AtEnd
  PROVE  /\ Live /\ running /\ idx # wptrSeen /\ Reader = idx /\ Fetches = {regs[FETCH_00 + 1]}
         /\ ringBasePa = RingBase /\ ringSize = RingDwords /\ span = RingDwords /\ frames = <<>>
         /\ rptrWbPa = WriteBackAt
         /\ Held(RingOf(mem), tag, boot, idx, tail, Len(consumed), written, wptr, published,
                 mem[WriteBackAt], Fetches)
         /\ InBatch(RingOf(mem), idx, tail, wptr, wptrSeen, sinceWb)
  <1>1. Typed /\ Phased /\ BatchHeld
    BY DEF RingInv
  <1>2. /\ rptrWbPa = WriteBackAt /\ ringBasePa # 0 /\ ringSize = RingDwords /\ span = RingDwords
        /\ Live
    BY <1>1, BatchIsLive DEF Batch
  <1>3. frames = <<>> /\ wptrSeen \in Index
    BY <1>1 DEF Typed, TypeOK
  <1>4. wptrSeen % RingDwords = wptrSeen
    <2>1. wptrSeen \in Int /\ wptrSeen >= -RingDwords /\ wptrSeen < 2 * RingDwords /\ wptrSeen >= 0
          /\ wptrSeen < RingDwords
      BY <1>3, RingSize DEF Index
    <2> QED
      BY <2>1, Mods
  <1>5. running /\ idx # wptrSeen
    BY <1>2, <1>4 DEF AtEnd
  <1>6. Reader = idx /\ Fetches = {regs[FETCH_00 + 1]}
    BY DEF Reader, Fetches, InPacket
  <1>7. Held(RingOf(mem), tag, boot, idx, tail, Len(consumed), written, wptr, published,
             mem[WriteBackAt], Fetches)
    BY <1>2, <1>6, RingFacts
  <1>8. InBatch(RingOf(mem), idx, tail, wptr, wptrSeen, sinceWb)
    BY <1>1, <1>2, <1>6 DEF BatchHeld, Batch
  <1>9. ringBasePa = RingBase
    BY <1>1, <1>2, BasePlaced
  <1> QED
    BY <1>2, <1>3, <1>5, <1>6, <1>7, <1>8, <1>9

\* In a batch there is room to count one more.
LEMMA RoomToCount ==
  ASSUME NEW s, NEW rd \in Index, NEW t \in Index, NEW w, NEW e, NEW since,
         InBatch(s, rd, t, w, e, since)
  PROVE  since \in 0..RingDwords /\ e \in Index
  <1>1. e \in Index /\ since \in Nat /\ Dist(e, t) <= Dist(rd, t)
        /\ since + Dist(rd, t) < RingDwords + Dist(e, t)
    BY DEF InBatch
  <1>2. Dist(e, t) \in Nat /\ Dist(rd, t) \in Nat
    BY <1>1, Distances
  <1>3. RingDwords \in Nat
    BY RingSize
  <1> QED
    BY <1>1, <1>2, <1>3

\* SkipZero: the reader goes on by one cell.
LEMMA SkipZeroKeeps ==
  ASSUME RingInv, SkipZero
  PROVE  RingInv'
  <1>1. /\ Typed /\ Phased /\ TakenInOrder /\ SwapsInRing /\ SwapMatchesItsFetch
        /\ pc = "ring" /\ ~AtEnd /\ RingCell(idx) = 0
        /\ idx' = (idx + 1) % span /\ sinceWb' = sinceWb + 1
        /\ UNCHANGED <<mem, wptr, rptrMmio, config, rptrIndex, machine, running, pc, next, wptrSeen,
                       span, frames, wait, spins, driver, consumed>>
    BY DEF RingInv, SkipZero
  <1>2. UNCHANGED <<mem, regs, screen, tag, boot, tail, written, published, ringBasePa, ringSize, rptrWbPa>>
    BY <1>1 DEF driver, machine, config
  <1>3. /\ rptrIndex \in Index /\ mem \in Mems /\ regs \in Regs /\ rptrMmio \in Index /\ next \in Index
        /\ idx \in Index /\ tail \in Index /\ span \in {1, RingDwords}
    BY <1>1, TypedFacts DEF Typed, TypeOK
  <1>4. /\ Live /\ Reader = idx
        /\ ringBasePa = RingBase /\ ringSize = RingDwords /\ span = RingDwords /\ frames = <<>>
        /\ idx # wptrSeen
        /\ Held(RingOf(mem), tag, boot, idx, tail, Len(consumed), written, wptr, published,
                mem[WriteBackAt], Fetches)
        /\ InBatch(RingOf(mem), idx, tail, wptr, wptrSeen, sinceWb)
    BY <1>1, NotAtEnd
  <1>5. RingOf(mem)[idx] = 0
    BY <1>1, <1>4, RingReading
  <1>6. idx' = Step(idx, 1)
    BY <1>1, <1>4 DEF Step
  <1>7. /\ Held(RingOf(mem), tag, boot, idx', tail, Len(consumed), written, wptr, published,
                mem[WriteBackAt], Fetches)
        /\ InBatch(RingOf(mem), idx', tail, wptr, wptrSeen, sinceWb + 1)
    BY <1>3, <1>4, <1>5, <1>6, HeldSkips
  <1>8. idx' \in Index
    BY <1>7 DEF Held
  <1>9. sinceWb + 1 \in 0..RingDwords /\ wptrSeen \in Index
    BY <1>3, <1>7, <1>8, RoomToCount
  <1>10. Typed'
    BY <1>1, <1>2, <1>3, <1>4, <1>8, <1>9, Zeroed, TypedOn
  <1>11. Phased'
    BY <1>1, <1>2 DEF Phased
  <1>12. Reader' = idx' /\ Fetches' = Fetches
    BY <1>1, <1>2 DEF Reader, Fetches, InPacket
  <1>13. RingHeld' /\ BatchHeld'
    BY <1>1, <1>2, <1>7, <1>12 DEF RingHeld, BatchHeld
  <1>14. PacketHeld'
    BY <1>1 DEF PacketHeld, InPacket
  <1>15. TakenInOrder' /\ SwapsInRing' /\ SwapMatchesItsFetch'
    BY <1>1, <1>2 DEF TakenInOrder, SwapsInRing, SwapMatchesItsFetch
  <1> QED
    BY <1>10, <1>11, <1>13, <1>14, <1>15 DEF RingInv

\* What was taken is the packets up to their number.
LEMMA TakenSoFar ==
  ASSUME TakenInOrder, Typed
  PROVE  /\ Len(consumed) \in Nat /\ Len(consumed) <= published
         /\ consumed = [k \in 1..Len(consumed) |-> <<boot, k>>]
  <1>1. PICK c \in Nat : c <= published /\ consumed = [k \in 1..c |-> <<boot, k>>]
    BY DEF TakenInOrder
  <1>2. Len(consumed) = c
    BY <1>1, TakenNext
  <1> QED
    BY <1>1, <1>2

\* What the packet at the reader does when it is run.
LEMMA RunPacketDoes ==
  ASSUME RingInv, RunPacket
  PROVE  LET s == RingOf(mem) IN
         /\ s[idx] # 0 /\ next' = Step(idx, 1 + Size(s, idx))
         /\ Data /\ Flow(next')
         /\ s[idx] = Cell(SwapHeaders[1]) => Value(s[Step(idx, 2)]) \in Fetches'
         /\ SwapMatchesItsFetch'
  <1> DEFINE s == RingOf(mem)
             h == HeaderOf(RingCell(idx))
             after == (idx + 1 + h.n) % span
  <1>1. /\ Typed /\ SwapMatchesItsFetch
        /\ pc = "ring" /\ ~AtEnd /\ RingCell(idx) # 0
        /\ next' = after
        /\ \/ /\ h.type = "type0"
              /\ Becomes(WriteRegisters(Machine, h.base, [k \in 1..h.n |-> Value(RingCell(idx + k))], h.one))
              /\ Resume(frames, after)
              /\ UNCHANGED <<wait, spins>>
           \/ /\ h.type = "type2"
              /\ Resume(frames, (idx + 1) % span)
              /\ UNCHANGED <<machine, mem, wait, spins>>
           \/ /\ h.type = "type3"
              /\ Type3(h, RingArgs(ArgsRead(h.n)), frames, after)
    BY DEF RingInv, RunPacket
  <1>2. /\ Live /\ idx # wptrSeen
        /\ ringBasePa = RingBase /\ ringSize = RingDwords /\ span = RingDwords /\ frames = <<>>
        /\ Fetches = {regs[FETCH_00 + 1]}
        /\ Held(s, tag, boot, idx, tail, Len(consumed), written, wptr, published, mem[WriteBackAt], Fetches)
        /\ InBatch(s, idx, tail, wptr, wptrSeen, sinceWb)
    BY <1>1, NotAtEnd
  <1>3. /\ RingCell(idx) = s[idx]
        /\ \A k \in 1..(RingDwords - 1) : RingCell(idx + k) = s[Step(idx, k)]
        /\ \A n \in Nat : \A k \in 1..n : RingArgs(n)[k] \in Words
        /\ \A n \in Nat : \A k \in 1..n : k < RingDwords => RingArgs(n)[k] = Value(s[Step(idx, k)])
    BY <1>1, <1>2, RingReading
  <1>4. idx \in Index /\ tail \in Index /\ mem \in Mems /\ Good(Machine) /\ s \in Rings
        /\ s[idx] \in Cells
    BY <1>1, TypedFacts, RingMemory DEF Rings
  <1>5. h \in HeaderSet /\ h.n \in Nat /\ h.base \in Nat /\ (h.n = 0 <=> h.type \in {"type1", "type2"})
        /\ h.n = Size(s, idx)
    BY <1>3, <1>4, HeadersOfCells DEF HeaderSet, Size
  <1>6. next' = Step(idx, 1 + Size(s, idx)) /\ after = next'
    <2>1. idx + 1 + h.n = idx + (1 + h.n)
      BY <1>4, <1>5 DEF Index
    <2> QED
      BY <1>1, <1>2, <1>5, <2>1 DEF Step
  <1>7. idx # tail
    BY <1>2, <1>4, BatchNotEnded
  <1>8. /\ Size(s, idx) < Dist(idx, tail) /\ Dist(idx, tail) < RingDwords /\ RingDwords \in 4..256
    <2>1. 1 + Size(s, idx) <= Dist(idx, tail)
      BY <1>1, <1>2, <1>3, <1>4, <1>7, RingTakes DEF Held
    <2>2. Dist(idx, tail) \in Nat
      BY <1>4, Distances
    <2> QED
      BY <1>4, <1>5, <2>1, <2>2, Distances, RingSize
  <1>9. s[idx] = Cell(SwapHeaders[1]) => h.type = "type0" /\ h.base = FETCH_00 /\ h.n = 2
        /\ h.one = FALSE
    <2>1. s[idx] = Cell(SwapHeaders[1]) => h = SwapHeaders[1]
      BY <1>3, SwapCells
    <2>2. SwapHeaders[1].type = "type0" /\ SwapHeaders[1].base = FETCH_00 /\ SwapHeaders[1].n = 2
          /\ SwapHeaders[1].one = FALSE
      BY DEF SwapHeaders, Header
    <2> QED
      BY <2>1, <2>2
  <1> HIDE DEF s, h, after
  <1>10. CASE h.type = "type0"
    <2> DEFINE values == [k \in 1..h.n |-> Value(RingCell(idx + k))]
    <2>1. PICK r : r = WriteRegisters(Machine, h.base, values, h.one)
      OBVIOUS
    <2>2. Len(values) = h.n /\ \A k \in 1..h.n : values[k] \in Words
      <3>1. \A k \in 1..h.n : Value(RingCell(idx + k)) \in Words
        BY <1>4, PhysRead DEF RingCell
      <3> QED
        BY <1>5, <3>1
    <2>3. /\ Becomes(WriteRegisters(Machine, h.base, values, h.one)) /\ Resume(frames, after)
          /\ UNCHANGED spins
      BY <1>1, <1>10
    <2>4. s[idx] = Cell(SwapHeaders[1]) => values[2] = Value(s[Step(idx, 2)])
      BY <1>3, <1>8, <1>9
    <2> HIDE DEF values
    <2>5. Writes(Machine, r)
      BY <1>4, <1>5, <2>1, <2>2, RegistersWritten
    <2>6. Becomes(r)
      BY <2>1, <2>3
    <2>7. Data /\ screen' = screen /\ regs' = r.regs
      BY <1>1, <2>3, <2>5, <2>6, MachineWritten
    <2>8. pc' = "wb" /\ idx' = after /\ frames' = <<>>
      BY <1>2, <2>3 DEF Resume
    <2>9. s[idx] = Cell(SwapHeaders[1]) => Value(s[Step(idx, 2)]) \in Fetches'
      <3> SUFFICES ASSUME s[idx] = Cell(SwapHeaders[1]) PROVE Value(s[Step(idx, 2)]) \in Fetches'
        OBVIOUS
      <3>1. r = WriteRegisters(Machine, FETCH_00, values, FALSE) /\ Len(values) = 2
        BY <1>9, <2>1, <2>2
      <3>2. r.regs[FETCH_00 + 1] = values[2]
        <4>1. \A k \in 1..2 : values[k] \in Words
          BY <1>9, <2>2
        <4>2. PICK g, vals : g = Machine /\ vals = values
          OBVIOUS
        <4>3. WriteRegisters(g, FETCH_00, vals, FALSE).regs[FETCH_00 + 1] = vals[2]
          BY <1>4, <3>1, <4>1, <4>2, SecondRegisterWritten
        <4> QED
          BY <3>1, <4>2, <4>3
      <3>3. r.regs[FETCH_00 + 1] = Value(s[Step(idx, 2)])
        BY <2>4, <3>2
      <3> QED
        BY <2>7, <2>8, <3>3 DEF Fetches, InPacket
    <2> QED
      BY <1>1, <1>3, <1>6, <2>7, <2>8, <2>9 DEF Flow, SwapMatchesItsFetch, s
  <1>11. CASE h.type = "type2"
    <2>1. h.n = 0
      BY <1>5, <1>11
    <2>2. (idx + 1) % span = after
      <3>1. idx + 1 + h.n = idx + 1
        BY <1>4, <2>1 DEF Index
      <3> QED
        BY <3>1 DEF after, h
    <2>3. Resume(frames, after) /\ UNCHANGED <<mem, regs, spins, screen>>
      BY <1>1, <1>11, <2>2 DEF machine
    <2>4. pc' = "wb" /\ idx' = after /\ frames' = <<>>
      BY <1>2, <2>3 DEF Resume
    <2>5. Data
      BY <1>1, <2>3, DataKept, Zeroed
    <2> QED
      BY <1>1, <1>3, <1>6, <1>9, <1>11, <2>3, <2>4, <2>5 DEF Flow, SwapMatchesItsFetch, s
  <1>12. CASE h.type = "type3"
    <2>1. PICK args : args = RingArgs(ArgsRead(h.n))
      OBVIOUS
    <2>2. ArgsRead(h.n) \in Nat /\ h.n <= ArgsRead(h.n) /\ h.n # 0
      BY <1>5, <1>12 DEF ArgsRead, MaxArgs
    <2>3. \A k \in 1..ArgsRead(h.n) : args[k] \in Words
      BY <1>3, <2>1, <2>2
    <2>4. Type3(h, args, frames, after)
      BY <1>1, <1>12, <2>1
    <2>5. /\ Data /\ Flow(after)
          /\ h.op # "XE_SWAP" => screen' = screen
          /\ h.op = "XE_SWAP" =>
               /\ mem' = mem /\ regs' = regs
               /\ screen' = screen \/ screen' = [pa |-> args[2], page |-> regs[FETCH_00 + 1] \div 8]
      BY <1>1, <1>5, <2>2, <2>3, <2>4, Type3Does
    <2>6. ASSUME h.op = "XE_SWAP", screen' = [pa |-> args[2], page |-> regs[FETCH_00 + 1] \div 8]
          PROVE  SwapMatchesItsFetch'
      <3>1. IsSwap(s[idx])
        BY <1>3, <2>6 DEF IsSwap, h
      <3>2. PICK page \in 0..15 : Size(s, idx) = 4 /\ s[Step(idx, 2)] = 16 * page
            /\ regs[FETCH_00 + 1] = 8 * page + 6
        <4>1. PICK page \in 0..15 : Size(s, idx) = 4 /\ s[Step(idx, 2)] = 16 * page
              /\ 8 * page + 6 \in Fetches
          BY <1>1, <1>2, <1>3, <1>7, <3>1, HeldSwaps
        <4> QED
          BY <1>2, <4>1
      <3>3. 2 \in 1..ArgsRead(h.n) /\ 2 < RingDwords
        BY <1>5, <1>8, <2>2, <3>2
      <3>4. args[2] = Value(16 * page)
        BY <1>3, <2>1, <2>2, <3>2, <3>3
      <3>5. Value(16 * page) = 16 * page /\ (8 * page + 6) \div 8 = page
        BY DEF Value, WordMax
      <3> QED
        BY <2>6, <3>2, <3>4, <3>5 DEF SwapMatchesItsFetch
    <2>7. SwapMatchesItsFetch'
      BY <1>1, <2>5, <2>6 DEF SwapMatchesItsFetch
    <2> QED
      BY <1>1, <1>3, <1>6, <1>9, <1>12, <2>5, <2>7 DEF s
  <1> QED
    BY <1>1, <1>10, <1>11, <1>12 DEF s, h, after

\* RunPacket: the packet at the reader is the next one, and it is whole.
LEMMA RunPacketKeeps ==
  ASSUME RingInv, RunPacket, LeavesTheRing
  PROVE  RingInv'
  <1> DEFINE s == RingOf(mem)
             c == Len(consumed)
  <1>1. /\ Typed /\ Phased /\ TakenInOrder /\ SwapsInRing
        /\ pc = "ring" /\ ~AtEnd
        /\ sinceWb' = sinceWb + 1 /\ Take
        /\ UNCHANGED <<wptr, rptrMmio, config, rptrIndex, running, wptrSeen, span, driver>>
        /\ \A a \in RingCells \union {WriteBackAt} : mem'[a] = mem[a]
    BY DEF RingInv, RunPacket, LeavesTheRing
  <1>2. /\ s[idx] # 0 /\ next' = Step(idx, 1 + Size(s, idx))
        /\ Data /\ Flow(next')
        /\ s[idx] = Cell(SwapHeaders[1]) => Value(s[Step(idx, 2)]) \in Fetches'
        /\ SwapMatchesItsFetch'
    BY RunPacketDoes
  <1>3. UNCHANGED <<tag, boot, tail, written, published, ringBasePa, ringSize, rptrWbPa>>
    BY <1>1 DEF driver, config
  <1>4. /\ rptrIndex \in Index /\ rptrMmio \in Index /\ idx \in Index /\ mem \in Mems /\ tail \in Index
        /\ mem' \in Mems /\ regs' \in Regs /\ spins' \in 0..(MaxSpins + 1) /\ span \in {1, RingDwords}
    BY <1>1, <1>2, TypedFacts DEF Data, Typed, TypeOK
  <1>5. RingOf(mem') = s /\ mem'[WriteBackAt] = mem[WriteBackAt]
    <2>1. \A i \in Index : mem'[RingBase + i] = mem[RingBase + i]
      BY <1>1, <1>4, RingMemory
    <2> QED
      BY <1>1, <2>1 DEF RingOf
  <1>6. /\ Live /\ idx # wptrSeen /\ frames = <<>> /\ span = RingDwords /\ rptrWbPa = WriteBackAt
        /\ running
        /\ Held(s, tag, boot, idx, tail, c, written, wptr, published, mem[WriteBackAt], Fetches)
        /\ InBatch(s, idx, tail, wptr, wptrSeen, sinceWb)
    BY <1>1, NotAtEnd
  <1> HIDE DEF s, c
  <1>7. /\ tag[idx] = <<boot, c + 1>>
        /\ Held(s, tag, boot, next', tail, c + 1, written, wptr, published, mem[WriteBackAt], Fetches')
        /\ InBatch(s, next', tail, wptr, wptrSeen, sinceWb + 1)
        /\ During(tag, boot, next', tail, idx, mem[WriteBackAt], c + 1)
    <2>1. PICK r2, q : r2 = Fetches' /\ q = next'
      OBVIOUS
    <2>2. /\ s[idx] = Cell(SwapHeaders[1]) => Value(s[Step(idx, 2)]) \in r2
          /\ q = Step(idx, 1 + Size(s, idx))
      BY <1>2, <2>1
    <2>3. /\ tag[idx] = <<boot, c + 1>>
          /\ Held(s, tag, boot, q, tail, c + 1, written, wptr, published, mem[WriteBackAt], r2)
          /\ InBatch(s, q, tail, wptr, wptrSeen, sinceWb + 1)
          /\ During(tag, boot, q, tail, idx, mem[WriteBackAt], c + 1)
      BY <1>2, <1>6, <2>2, HeldTakes
    <2> QED
      BY <2>1, <2>3
  <1>8. c \in Nat /\ consumed = [k \in 1..c |-> <<boot, k>>] /\ boot # 0
    BY <1>1, TakenSoFar DEF c, Typed
  <1>9. consumed' = [k \in 1..(c + 1) |-> <<boot, k>>] /\ Len(consumed') = c + 1
    <2>1. consumed' = consumed \o <<<<boot, c + 1>>>>
      BY <1>1, <1>7, <1>8 DEF Take, TagAt
    <2>2. consumed' = [k \in 1..(c + 1) |-> <<boot, k>>]
      BY <1>8, <2>1, TakenNext
    <2>3. c + 1 \in Nat
      BY <1>8
    <2> QED
      BY <2>2, <2>3, TakenNext
  <1>10. next' \in Index /\ c + 1 \in Nat /\ c + 1 <= published
    BY <1>7 DEF Held
  <1>11. sinceWb + 1 \in 0..RingDwords /\ wptrSeen \in Index
    BY <1>4, <1>7, <1>10, RoomToCount
  <1>12. pc' \in {"list", "poll", "wb"} /\ idx' \in Index
         /\ (pc' \notin InPacket => idx' = next' /\ pc' = "wb")
         /\ (pc' \in InPacket => idx' = idx)
    BY <1>2, <1>4, <1>10 DEF Flow, InPacket
  <1>13. frames' # <<>> => pc' \in InPacket
    BY <1>2 DEF Flow
  <1>14. Typed'
    BY <1>1, <1>3, <1>4, <1>10, <1>11, <1>12, <1>13, TypedOn
  <1>15. Phased'
    BY <1>1, <1>3, <1>5, <1>6, <1>12 DEF Phased, Batch
  <1>16. TakenInOrder'
    BY <1>3, <1>9, <1>10 DEF TakenInOrder
  <1>17. SwapsInRing'
    BY <1>1, <1>2, SwapsStayInRing
  <1>18. Reader' = next'
    BY <1>12 DEF Reader, InPacket
  <1>19. RingHeld' /\ BatchHeld'
    BY <1>1, <1>3, <1>5, <1>7, <1>9, <1>18 DEF RingHeld, BatchHeld
  <1>20. PacketHeld'
    BY <1>3, <1>5, <1>7, <1>9, <1>12 DEF PacketHeld
  <1> QED
    BY <1>2, <1>14, <1>15, <1>16, <1>17, <1>19, <1>20 DEF RingInv

\* A step inside the packet under way, or its end.
LEMMA PacketGoesOn ==
  ASSUME RingInv, pc \in InPacket, Data, Flow(next), screen' = screen,
         \A a \in RingCells \union {WriteBackAt} : mem'[a] = mem[a],
         UNCHANGED <<wptr, rptrMmio, config, rptrIndex, running, next, wptrSeen, span, sinceWb, driver,
                     consumed>>
  PROVE  RingInv'
  <1> DEFINE s == RingOf(mem)
             c == Len(consumed)
  <1>1. /\ Typed /\ Phased /\ TakenInOrder /\ SwapsInRing /\ SwapMatchesItsFetch
        /\ RingHeld /\ BatchHeld /\ PacketHeld
    BY DEF RingInv
  <1>2. UNCHANGED <<tag, boot, tail, written, published, ringBasePa, ringSize, rptrWbPa, wptrSeen, next, wptr,
                    sinceWb, span, running, consumed, screen, rptrIndex>>
    BY DEF driver, config
  <1>3. /\ rptrIndex \in Index /\ rptrMmio \in Index /\ idx \in Index /\ mem \in Mems /\ tail \in Index
        /\ next \in Index /\ wptrSeen \in Index /\ sinceWb \in 0..RingDwords
        /\ mem' \in Mems /\ regs' \in Regs /\ spins' \in 0..(MaxSpins + 1) /\ span \in {1, RingDwords}
    BY <1>1, TypedFacts DEF Data, Typed, TypeOK
  <1>4. RingOf(mem') = s /\ mem'[WriteBackAt] = mem[WriteBackAt]
    <2>1. \A i \in Index : mem'[RingBase + i] = mem[RingBase + i]
      BY <1>3, RingMemory
    <2> QED
      BY <2>1 DEF RingOf
  <1>5. pc \in Batch
    BY DEF InPacket, Batch
  <1>6. Live /\ span = RingDwords /\ rptrWbPa = WriteBackAt
    BY <1>1, <1>5, BatchIsLive
  <1>7. Reader = next /\ Fetches = {}
    BY DEF Reader, Fetches
  <1> HIDE DEF s, c
  <1>8. /\ Held(s, tag, boot, next, tail, c, written, wptr, published, mem[WriteBackAt], {})
        /\ InBatch(s, next, tail, wptr, wptrSeen, sinceWb)
        /\ During(tag, boot, next, tail, idx, mem[WriteBackAt], c)
    BY <1>1, <1>5, <1>6, <1>7 DEF RingHeld, BatchHeld, PacketHeld, s, c
  <1>9. \A r : Held(s, tag, boot, next, tail, c, written, wptr, published, mem[WriteBackAt], r)
    BY <1>8, HeldForgets
  <1>10. /\ pc' \in {"list", "poll", "wb"} /\ idx' \in Index
         /\ frames' # <<>> => pc' \in InPacket
         /\ pc' \in InPacket => idx' = idx
         /\ pc' \notin InPacket => pc' = "wb" /\ idx' = next
    BY <1>3 DEF Flow, InPacket
  <1>11. Typed'
    BY <1>1, <1>3, <1>10, TypedOn
  <1>12. Phased'
    <2>1. rptrWbPa # 0
      BY <1>1, <1>5 DEF Phased, Batch
    <2> QED
      BY <1>1, <1>2, <1>4, <1>6, <2>1 DEF Phased
  <1>13. Reader' = next
    BY <1>2, <1>10 DEF Reader
  <1>14. RingHeld'
    <2>1. PICK r : r = Fetches'
      OBVIOUS
    <2>2. Held(s, tag, boot, next, tail, c, written, wptr, published, mem[WriteBackAt], r)
      BY <1>9
    <2> QED
      BY <1>2, <1>4, <1>13, <2>1, <2>2 DEF RingHeld, c
  <1>15. BatchHeld'
    BY <1>2, <1>4, <1>8, <1>13 DEF BatchHeld
  <1>16. PacketHeld'
    BY <1>2, <1>4, <1>8, <1>10 DEF PacketHeld, c
  <1>17. SwapsInRing'
    BY <1>1, SwapsStayInRing
  <1>18. TakenInOrder' /\ SwapMatchesItsFetch'
    <2>1. regs' = regs \/ screen' = screen
      OBVIOUS
    <2> QED
      BY <1>1, <1>2 DEF TakenInOrder, SwapMatchesItsFetch
  <1> QED
    BY <1>11, <1>12, <1>14, <1>15, <1>16, <1>17, <1>18 DEF RingInv

\* ListEnds: back to the list outside, or behind the packet.
LEMMA ListEndsKeeps ==
  ASSUME RingInv, ListEnds
  PROVE  RingInv'
  <1>1. /\ pc \in InPacket /\ Resume(Front(frames), next)
        /\ UNCHANGED <<mem, wptr, rptrMmio, config, rptrIndex, machine, running, next, wptrSeen, span,
                       sinceWb, wait, spins, driver, consumed>>
    BY DEF ListEnds, InPacket
  <1>2. Typed /\ UNCHANGED <<mem, regs, screen, spins>>
    BY <1>1 DEF RingInv, machine
  <1>3. Data
    BY <1>2, DataKept, Zeroed
  <1> QED
    BY <1>1, <1>2, <1>3, ResumeFlows, PacketGoesOn

\* Poll: the wait goes on or is over.
LEMMA PollKeeps ==
  ASSUME RingInv, Poll
  PROVE  RingInv'
  <1>1. /\ pc = "poll"
        /\ \/ Resume(frames, next) /\ UNCHANGED spins
           \/ /\ ~PollEnds /\ spins' = spins + 1
              /\ UNCHANGED <<pc, idx, frames>>
        /\ UNCHANGED <<mem, wptr, rptrMmio, config, rptrIndex, machine, running, next, wptrSeen, span,
                       sinceWb, wait, driver, consumed>>
    BY DEF Poll, Spun
  <1>2. Typed /\ UNCHANGED <<mem, regs, screen>>
    BY <1>1 DEF RingInv, machine
  <1>3. spins' \in 0..(MaxSpins + 1)
    <2>1. MaxSpins \in Nat /\ spins \in 0..(MaxSpins + 1)
      BY <1>2, Zeroed, BoundsAreNat
    <2> QED
      BY <1>1, <2>1 DEF PollEnds
  <1>4. Data
    BY <1>2, <1>3, DataKept
  <1>5. Flow(next)
    BY <1>1, ResumeFlows DEF Flow, InPacket
  <1>6. pc \in InPacket
    BY <1>1 DEF InPacket
  <1> QED
    BY <1>1, <1>2, <1>4, <1>5, <1>6, PacketGoesOn

\* ListPacket: a packet of a list, which is not in the ring and so is no swap.
LEMMA ListPacketKeeps ==
  ASSUME RingInv, ListPacket, LeavesTheRing
  PROVE  RingInv'
  <1> DEFINE h == HeaderOf(ListCell)
             at == Frame.pa + Frame.i
  <1>1. /\ Typed /\ SwapsInRing /\ pc = "list"
        /\ \/ /\ UNCHANGED <<pc, idx, machine, mem, wait, spins>>
           \/ /\ h.type = "type0"
              /\ Becomes(WriteRegisters(Machine, h.base, Block(mem, at + 1, h.n), h.one))
              /\ UNCHANGED <<pc, idx, wait, spins>>
           \/ /\ h.type = "type3"
              /\ Type3(h, Block(mem, at + 1, ArgsRead(h.n)), Advanced(1 + h.n), next)
        /\ UNCHANGED <<wptr, rptrMmio, config, rptrIndex, running, next, wptrSeen, span, sinceWb,
                       driver, consumed>>
    BY DEF RingInv, ListPacket
  <1>2. (\A a \in RingCells \union {WriteBackAt} : mem'[a] = mem[a]) /\ at \notin RingCells
    BY DEF LeavesTheRing
  <1>3. mem \in Mems /\ DOMAIN mem = Addresses /\ Good(Machine)
    BY <1>1, TypedFacts
  <1>4. ListCell \in Cells /\ ~IsSwap(ListCell)
    <2>1. 0 \in Words
      BY DEF Words, WordMax
    <2>2. CASE at \in Addresses
      BY <1>1, <1>2, <1>3, <2>2 DEF ListCell, ReadPhys, SwapsInRing, Mems
    <2>3. CASE at \notin Addresses
      BY <1>3, <2>1, <2>3, WordsAreCells DEF ListCell, ReadPhys
    <2> QED
      BY <2>2, <2>3
  <1>5. /\ h \in HeaderSet /\ h.n \in Nat /\ h.base \in Nat /\ h.op # "XE_SWAP"
        /\ (h.n = 0 <=> h.type \in {"type1", "type2"})
    BY <1>4, HeadersOfCells DEF HeaderSet, IsSwap
  <1>6. pc \in InPacket
    BY <1>1 DEF InPacket
  <1> HIDE DEF h, at
  <1>7. CASE UNCHANGED <<pc, idx, machine, mem, wait, spins>>
    <2>1. Data /\ screen' = screen
      BY <1>1, <1>7, DataKept, Zeroed DEF machine
    <2>2. Flow(next)
      BY <1>6, <1>7 DEF Flow
    <2> QED
      BY <1>1, <1>2, <1>6, <2>1, <2>2, PacketGoesOn
  <1>8. CASE /\ h.type = "type0"
             /\ Becomes(WriteRegisters(Machine, h.base, Block(mem, at + 1, h.n), h.one))
             /\ UNCHANGED <<pc, idx, wait, spins>>
    <2>1. PICK r : r = WriteRegisters(Machine, h.base, Block(mem, at + 1, h.n), h.one)
      OBVIOUS
    <2>2. Len(Block(mem, at + 1, h.n)) = h.n /\ \A k \in 1..h.n : Block(mem, at + 1, h.n)[k] \in Words
      BY <1>3, <1>5, Blocks
    <2>3. Writes(Machine, r)
      BY <1>3, <1>5, <2>1, <2>2, RegistersWritten
    <2>4. Becomes(r)
      BY <1>8, <2>1
    <2>5. Data /\ screen' = screen
      BY <1>1, <1>8, <2>3, <2>4, MachineWritten
    <2>6. Flow(next)
      BY <1>6, <1>8 DEF Flow
    <2> QED
      BY <1>1, <1>2, <1>6, <2>5, <2>6, PacketGoesOn
  <1>9. CASE /\ h.type = "type3"
             /\ Type3(h, Block(mem, at + 1, ArgsRead(h.n)), Advanced(1 + h.n), next)
    <2>1. PICK args : args = Block(mem, at + 1, ArgsRead(h.n))
      OBVIOUS
    <2>2. ArgsRead(h.n) \in Nat /\ h.n # 0
      BY <1>5, <1>9 DEF ArgsRead, MaxArgs
    <2>3. \A k \in 1..ArgsRead(h.n) : args[k] \in Words
      BY <1>3, <2>1, <2>2, Blocks
    <2>4. \E outer : Type3(h, args, outer, next)
      BY <1>9, <2>1
    <2>5. Data /\ Flow(next) /\ screen' = screen
      BY <1>1, <1>5, <2>2, <2>3, <2>4, Type3Does
    <2> QED
      BY <1>1, <1>2, <1>6, <2>5, PacketGoesOn
  <1> QED
    BY <1>1, <1>7, <1>8, <1>9

\* Abort: the packets up to the end of the batch are given up, in order.
LEMMA AbortKeeps ==
  ASSUME RingInv, pc \in Batch, NEW first, first = Reader, Abort(first)
  PROVE  RingInv'
  <1> DEFINE s == RingOf(mem)
             c == Len(consumed)
             Skips == {i \in Index : Dist(first, i) < Dist(first, wptrSeen)}
  <1>1. /\ Typed /\ Phased /\ TakenInOrder /\ SwapsInRing /\ SwapMatchesItsFetch
        /\ RingHeld /\ BatchHeld
        /\ pc' = "idle" /\ rptrIndex' = wptrSeen /\ frames' = <<>>
        /\ UNCHANGED <<mem, wptr, rptrMmio, config, machine, running, idx, next, wptrSeen, span,
                       sinceWb, wait, spins, driver>>
    BY DEF RingInv, Abort
  <1>2. UNCHANGED <<tag, boot, tail, written, published, ringBasePa, ringSize, rptrWbPa, regs, screen>>
    BY <1>1 DEF driver, config, machine
  <1>3. /\ rptrMmio \in Index /\ idx \in Index /\ mem \in Mems /\ regs \in Regs /\ tail \in Index
        /\ next \in Index /\ wptrSeen \in Index /\ sinceWb \in 0..RingDwords /\ tag \in TagTables
        /\ span \in {1, RingDwords}
    BY <1>1, TypedFacts DEF Typed, TypeOK
  <1>4. Live /\ span = RingDwords /\ rptrWbPa = WriteBackAt /\ ringBasePa # 0 /\ rptrWbPa # 0
    BY <1>1, BatchIsLive DEF Phased, Batch
  <1>5. /\ Held(s, tag, boot, first, tail, c, written, wptr, published, mem[WriteBackAt], Fetches)
        /\ InBatch(s, first, tail, wptr, wptrSeen, sinceWb)
    BY <1>1, <1>4 DEF RingHeld, BatchHeld
  <1>6. consumed' = consumed \o InOrder({tag[i] : i \in Skips} \ {<<0, 0>>})
    <2>1. {i \in DOMAIN tag : (i - first) % span < (wptrSeen - first) % span} = Skips
      BY <1>3, <1>4 DEF Dist, TagTables
    <2> HIDE DEF Skips
    <2> QED
      BY <2>1 DEF Abort
  <1> HIDE DEF s, c
  <1>7. PICK d \in Nat :
          /\ c <= d /\ \A r : Held(s, tag, boot, wptrSeen, tail, d, written, wptr, published, mem[WriteBackAt], r)
          /\ TagsAre(tag, Skips, boot, c, d)
    <2>1. first \in Index
      BY <1>5 DEF Held
    <2>2. PICK d \in Nat :
            /\ c <= d /\ Held(s, tag, boot, wptrSeen, tail, d, written, wptr, published, mem[WriteBackAt], {})
            /\ TagsAre(tag, Skips, boot, c, d)
      BY <1>5, HeldAborts
    <2> HIDE DEF Skips
    <2> QED
      BY <2>2, HeldForgets
  <1>8. /\ c \in Nat /\ consumed = [k \in 1..c |-> <<boot, k>>] /\ boot # 0 /\ boot \in Nat
    BY <1>1, TakenSoFar DEF c, Typed
  <1>9. consumed' = [k \in 1..d |-> <<boot, k>>]
    <2>1. consumed' = consumed \o InOrder(TagRun(boot, c + 1, d))
      BY <1>6, <1>7 DEF TagsAre
    <2>2. consumed = Taken(boot, c)
      BY <1>8 DEF Taken
    <2>3. Taken(boot, c) \o InOrder(TagRun(boot, c + 1, d)) = Taken(boot, d)
      BY <1>7, <1>8, TakenOn
    <2> QED
      BY <2>1, <2>2, <2>3 DEF Taken
  <1>10. Len(consumed') = d
    BY <1>9
  <1>11. d <= published
    BY <1>7 DEF Held
  <1>12. Typed'
    BY <1>1, <1>2, <1>3, Zeroed, TypedOn
  <1>13. Phased'
    BY <1>1, <1>2, <1>4 DEF Phased, Batch
  <1>14. TakenInOrder'
    BY <1>2, <1>9, <1>11 DEF TakenInOrder
  <1>15. Reader' = wptrSeen
    BY <1>1 DEF Reader, InPacket
  <1>16. RingHeld'
    <2>1. PICK r : r = Fetches'
      OBVIOUS
    <2>2. Held(s, tag, boot, wptrSeen, tail, d, written, wptr, published, mem[WriteBackAt], r)
      BY <1>7
    <2> QED
      BY <1>1, <1>2, <1>10, <1>15, <2>1, <2>2 DEF RingHeld, s
  <1>17. BatchHeld' /\ PacketHeld'
    BY <1>1 DEF BatchHeld, PacketHeld, Batch, InPacket
  <1>18. SwapsInRing' /\ SwapMatchesItsFetch'
    BY <1>1, <1>2 DEF SwapsInRing, SwapMatchesItsFetch
  <1> QED
    BY <1>12, <1>13, <1>14, <1>16, <1>17, <1>18 DEF RingInv

\* Type1InRing and ListInvalid: both give the batch up from the reader on.
LEMMA InvalidKeeps ==
  ASSUME RingInv, Type1InRing \/ ListInvalid
  PROVE  RingInv'
  <1>1. CASE Type1InRing
    <2>1. pc = "ring" /\ Abort(idx)
      BY <1>1 DEF Type1InRing
    <2>2. pc \in Batch /\ idx = Reader
      BY <2>1 DEF Batch, Reader, InPacket
    <2> QED
      BY <2>1, <2>2, AbortKeeps
  <1>2. CASE ListInvalid
    <2>1. pc = "list" /\ Abort(next)
      BY <1>2 DEF ListInvalid
    <2>2. pc \in Batch /\ next = Reader
      BY <2>1 DEF Batch, Reader, InPacket
    <2> QED
      BY <2>1, <2>2, AbortKeeps
  <1> QED
    BY <1>1, <1>2

\* A report of the read index, to the GPU's page and to memory.
LEMMA Reporting ==
  ASSUME Typed, NEW i \in Index, Report(i), rptrWbPa = WriteBackAt
  PROVE  /\ mem' \in Mems /\ rptrMmio' = i /\ mem'[WriteBackAt] = i /\ RingOf(mem') = RingOf(mem)
         /\ (SwapsInRing => SwapsInRing')
  <1>1. mem \in Mems /\ DOMAIN mem = Addresses
    BY TypedFacts
  <1>2. /\ WriteBackAt \in Addresses /\ WriteBackAt \notin RingCells /\ WriteBackAt # 0
        /\ \A j \in Index : RingBase + j \in Addresses /\ RingBase + j # WriteBackAt
    BY <1>1, RingMemory
  <1>3. mem' = [mem EXCEPT ![WriteBackAt] = i] /\ rptrMmio' = i
    BY <1>1, <1>2 DEF Report, WritePhys
  <1>4. i \in Words
    BY RingSize DEF Index, Words, WordMax
  <1>5. i \in Cells /\ ~IsSwap(i)
    BY <1>4, WordsAreCells
  <1>6. mem' \in Mems /\ mem'[WriteBackAt] = i /\ \A a \in Addresses : a # WriteBackAt
        => mem'[a] = mem[a]
    BY <1>1, <1>2, <1>3, <1>5 DEF Mems
  <1>7. RingOf(mem') = RingOf(mem)
    BY <1>2, <1>6 DEF RingOf
  <1>8. ASSUME SwapsInRing PROVE SwapsInRing'
    BY <1>5, <1>6, <1>8 DEF SwapsInRing
  <1> QED
    BY <1>3, <1>6, <1>7, <1>8

\* WriteBack: the driver is told of the packet reached, which is executed to its end.
LEMMA WriteBackKeeps ==
  ASSUME RingInv, WriteBack
  PROVE  RingInv'
  <1> DEFINE s == RingOf(mem)
             c == Len(consumed)
  <1>1. /\ Typed /\ Phased /\ TakenInOrder /\ SwapsInRing /\ SwapMatchesItsFetch
        /\ RingHeld /\ BatchHeld
        /\ pc = "wb" /\ pc' = "ring"
        /\ \/ Report(idx) /\ sinceWb' = 0
           \/ UNCHANGED <<mem, rptrMmio, sinceWb>>
        /\ UNCHANGED <<wptr, config, rptrIndex, machine, running, idx, next, wptrSeen, span, frames,
                       wait, spins, driver, consumed>>
    BY DEF RingInv, WriteBack
  <1>2. UNCHANGED <<tag, boot, tail, written, published, ringBasePa, ringSize, rptrWbPa, regs, screen>>
    BY <1>1 DEF driver, config, machine
  <1>3. /\ rptrMmio \in Index /\ idx \in Index /\ mem \in Mems /\ regs \in Regs /\ tail \in Index
        /\ next \in Index /\ wptrSeen \in Index /\ sinceWb \in 0..RingDwords /\ tag \in TagTables
        /\ span \in {1, RingDwords} /\ frames = <<>> /\ rptrIndex \in Index
    BY <1>1, TypedFacts DEF Typed, TypeOK
  <1>4. Live /\ span = RingDwords /\ rptrWbPa = WriteBackAt /\ ringBasePa # 0 /\ rptrWbPa # 0
    BY <1>1, BatchIsLive DEF Phased, Batch
  <1>5. Reader = idx /\ Reader' = idx /\ Fetches' = Fetches
    BY <1>1, <1>2 DEF Reader, Fetches, InPacket
  <1>6. /\ Held(s, tag, boot, idx, tail, c, written, wptr, published, mem[WriteBackAt], Fetches)
        /\ InBatch(s, idx, tail, wptr, wptrSeen, sinceWb)
    BY <1>1, <1>4, <1>5 DEF RingHeld, BatchHeld, Batch
  <1> HIDE DEF s, c
  <1>7. /\ mem' \in Mems /\ rptrMmio' \in Index /\ mem'[WriteBackAt] \in Index /\ RingOf(mem') = s
        /\ SwapsInRing'
        /\ sinceWb' \in 0..RingDwords
        /\ Held(s, tag, boot, idx, tail, c, written, wptr, published, mem'[WriteBackAt], Fetches)
        /\ InBatch(s, idx, tail, wptr, wptrSeen, sinceWb')
    <2>1. CASE Report(idx) /\ sinceWb' = 0
      <3>1. /\ mem' \in Mems /\ rptrMmio' = idx /\ mem'[WriteBackAt] = idx /\ RingOf(mem') = s
            /\ SwapsInRing'
        BY <1>1, <1>3, <1>4, <2>1, Reporting DEF s
      <3>2. Held(s, tag, boot, idx, tail, c, written, wptr, published, idx, Fetches)
        BY <1>6, HeldReported
      <3>3. InBatch(s, idx, tail, wptr, wptrSeen, 0)
        <4>1. /\ Boundary(s, wptrSeen, idx, tail) /\ Unsplit(s, wptrSeen, idx, tail) /\ sinceWb \in Nat
              /\ Dist(wptr, tail) <= Dist(wptrSeen, tail) /\ Dist(wptrSeen, tail) <= Dist(idx, tail)
              /\ sinceWb + Dist(idx, tail) < RingDwords + Dist(wptrSeen, tail)
          BY <1>6 DEF InBatch
        <4>2. Dist(idx, tail) \in Nat /\ Dist(wptrSeen, tail) \in Nat /\ RingDwords \in Nat
          BY <1>3, Distances, RingSize
        <4>3. 0 + Dist(idx, tail) < RingDwords + Dist(wptrSeen, tail)
          BY <4>1, <4>2
        <4> QED
          BY <1>3, <4>1, <4>3 DEF InBatch
      <3>4. 0 \in 0..RingDwords
        BY RingSize
      <3> QED
        BY <1>3, <2>1, <3>1, <3>2, <3>3, <3>4
    <2>2. CASE UNCHANGED <<mem, rptrMmio, sinceWb>>
      <3>1. mem[WriteBackAt] \in Index
        BY <1>6 DEF Held
      <3> QED
        BY <1>1, <1>3, <1>6, <2>2, <3>1 DEF SwapsInRing, s
    <2> QED
      BY <1>1, <2>1, <2>2
  <1>8. Typed'
    BY <1>1, <1>2, <1>3, <1>7, Zeroed, TypedOn
  <1>9. Phased'
    BY <1>1, <1>2, <1>4, <1>7 DEF Phased
  <1>10. RingHeld' /\ BatchHeld'
    BY <1>1, <1>2, <1>5, <1>7 DEF RingHeld, BatchHeld, c
  <1>11. PacketHeld'
    BY <1>1 DEF PacketHeld, InPacket
  <1>12. TakenInOrder' /\ SwapMatchesItsFetch'
    BY <1>1, <1>2 DEF TakenInOrder, SwapMatchesItsFetch
  <1> QED
    BY <1>7, <1>8, <1>9, <1>10, <1>11, <1>12 DEF RingInv

\* PublishRead: the end of the batch is reported and becomes the read index.
LEMMA PublishReadKeeps ==
  ASSUME RingInv, PublishRead
  PROVE  RingInv'
  <1> DEFINE s == RingOf(mem)
             c == Len(consumed)
  <1>1. /\ Typed /\ Phased /\ TakenInOrder /\ SwapsInRing /\ SwapMatchesItsFetch
        /\ RingHeld
        /\ pc = "publish" /\ pc' = "idle" /\ rptrIndex' = wptrSeen /\ Report(wptrSeen)
        /\ UNCHANGED <<wptr, config, machine, running, locals, driver, consumed>>
    BY DEF RingInv, PublishRead
  <1>2. UNCHANGED <<tag, boot, tail, written, published, ringBasePa, ringSize, rptrWbPa, regs, screen,
                    idx, next, wptrSeen, span, sinceWb, frames, spins>>
    BY <1>1 DEF driver, config, machine, locals
  <1>3. /\ idx \in Index /\ mem \in Mems /\ regs \in Regs /\ tail \in Index
        /\ next \in Index /\ wptrSeen \in Index /\ sinceWb \in 0..RingDwords /\ tag \in TagTables
        /\ span \in {1, RingDwords} /\ frames = <<>>
    BY <1>1, TypedFacts DEF Typed, TypeOK
  <1>4. rptrWbPa = WriteBackAt /\ ringBasePa # 0 /\ rptrWbPa # 0
    BY <1>1, BatchIsLive DEF Phased, Batch
  <1>5. Reader = wptrSeen /\ Reader' = wptrSeen /\ Fetches' = Fetches /\ (Live' => Live)
    BY <1>1, <1>2 DEF Reader, Fetches, InPacket, Live, Batch
  <1>6. /\ mem' \in Mems /\ rptrMmio' = wptrSeen /\ mem'[WriteBackAt] = wptrSeen
        /\ RingOf(mem') = s /\ SwapsInRing'
    BY <1>1, <1>3, <1>4, Reporting
  <1>7. Live => Held(s, tag, boot, wptrSeen, tail, c, written, wptr, published, mem[WriteBackAt], Fetches)
    BY <1>1, <1>5 DEF RingHeld
  <1> HIDE DEF s, c
  <1>8. Live => Held(s, tag, boot, wptrSeen, tail, c, written, wptr, published, wptrSeen, Fetches)
    BY <1>7, HeldReported
  <1>9. Typed'
    BY <1>1, <1>2, <1>3, <1>6, Zeroed, TypedOn
  <1>10. Phased'
    BY <1>1, <1>2, <1>3, <1>4, <1>6 DEF Phased, Batch
  <1>11. RingHeld'
    BY <1>1, <1>2, <1>5, <1>6, <1>8 DEF RingHeld, c
  <1>12. BatchHeld' /\ PacketHeld'
    BY <1>1 DEF BatchHeld, PacketHeld, Batch, InPacket
  <1>13. TakenInOrder' /\ SwapMatchesItsFetch'
    BY <1>1, <1>2 DEF TakenInOrder, SwapMatchesItsFetch
  <1> QED
    BY <1>6, <1>9, <1>10, <1>11, <1>12, <1>13 DEF RingInv

\* ThreadEnds: a thread that has ended reads nothing.
LEMMA ThreadEndsKeeps ==
  ASSUME RingInv, ThreadEnds
  PROVE  RingInv'
  <1>1. /\ Typed /\ Phased /\ TakenInOrder /\ SwapsInRing /\ SwapMatchesItsFetch
        /\ pc = "idle" /\ ~running /\ pc' = "ended"
        /\ UNCHANGED <<mem, wptr, rptrMmio, config, rptrIndex, machine, running, locals, driver, consumed>>
    BY DEF RingInv, ThreadEnds
  <1>2. UNCHANGED <<tag, boot, tail, written, published, ringBasePa, ringSize, rptrWbPa, regs, screen,
                    idx, next, wptrSeen, span, sinceWb, frames, spins>>
    BY <1>1 DEF driver, config, machine, locals
  <1>3. /\ idx \in Index /\ mem \in Mems /\ regs \in Regs /\ tail \in Index /\ rptrMmio \in Index
        /\ next \in Index /\ wptrSeen \in Index /\ sinceWb \in 0..RingDwords /\ rptrIndex \in Index
        /\ span \in {1, RingDwords} /\ frames = <<>>
    BY <1>1, TypedFacts DEF Typed, TypeOK
  <1>4. Typed'
    BY <1>1, <1>2, <1>3, Zeroed, TypedOn
  <1>5. Phased'
    BY <1>1, <1>2 DEF Phased, Batch
  <1>6. ~Live' /\ pc' \notin InPacket
    BY <1>1 DEF Live, Batch, InPacket
  <1>7. RingHeld' /\ BatchHeld' /\ PacketHeld'
    BY <1>6 DEF RingHeld, BatchHeld, PacketHeld
  <1>8. TakenInOrder' /\ SwapsInRing' /\ SwapMatchesItsFetch'
    BY <1>1, <1>2 DEF TakenInOrder, SwapsInRing, SwapMatchesItsFetch
  <1> QED
    BY <1>4, <1>5, <1>7, <1>8 DEF RingInv

----------------------------------------------------------------------------
(* The driver's steps keep the invariant *)

\* The types after a step that leaves the thread's locals alone.
LEMMA TypedDriver ==
  ASSUME Typed, UNCHANGED <<pc, locals, rptrMmio>>, mem' \in Mems, regs' \in Regs,
         wptr' \in Index, rptrIndex' \in Index, tail' \in Index,
         ringBasePa' \in {0, RingBase}, ringSize' \in {0, RingDwords},
         tag' \in TagTables, boot' \in Nat \ {0}, written' \in Nat, published' \in Nat,
           published' <= written',
         \A i \in Index : tag'[i][1] <= boot'
  PROVE  Typed'
  <1>1. UNCHANGED <<idx, next, wptrSeen, span, sinceWb, frames, spins>>
    BY DEF locals
  <1>2. mem' \in [DOMAIN Image -> Cells]
    BY MemoryAssumption DEF Mems, Addresses
  <1>3. regs' \in [0..(kRegCount - 1) -> 0..WordMax]
    BY DEF Regs, Words
  <1>4. idx \in Index /\ next \in Index /\ rptrMmio \in Index
    BY DEF Typed, TypeOK, Index
  <1>5. {wptr', rptrMmio', rptrIndex', idx', next', tail'} \subseteq 0..(RingDwords - 1)
    BY <1>1, <1>4 DEF Index
  <1>6. TypeOK'
    BY <1>1, <1>2, <1>3, <1>5 DEF Typed, TypeOK
  <1> QED
    BY <1>1, <1>6 DEF Typed

\* VdInitializeRingBuffer: the driver that clears the pointers starts with an empty ring.
LEMMA InitializeKeeps ==
  ASSUME RingInv, ClearsPointer, VdInitializeRingBuffer
  PROVE  RingInv'
  <1>1. /\ Typed /\ Phased /\ TakenInOrder /\ SwapsInRing /\ SwapMatchesItsFetch
        /\ ringBasePa = 0
        /\ ringBasePa' = RingBase /\ ringSize' = RingDwords /\ rptrIndex' = 0
        /\ wptr' = 0 /\ mem' = WritePhys(mem, WriteBackAt, 0)
        /\ tail' = 0
        /\ UNCHANGED <<rptrMmio, rptrWbPa, rptrUpdate, machine, running, pc, locals, boot, written,
                       published, tag, consumed>>
    BY DEF RingInv, VdInitializeRingBuffer
  <1>2. UNCHANGED <<regs, screen, idx, next, wptrSeen, span>>
    BY <1>1 DEF machine, locals
  <1>3. /\ mem \in Mems /\ DOMAIN mem = Addresses /\ regs \in Regs /\ tag \in TagTables
        /\ boot \in Nat \ {0}
        /\ written \in Nat /\ published \in Nat /\ published <= written
           /\ \A i \in Index : tag[i][1] <= boot
    BY <1>1, TypedFacts DEF Typed
  <1>4. /\ rptrWbPa = 0 /\ pc \in {"idle", "ended"} /\ written = 0 /\ published = 0
        /\ consumed = <<>> /\ \A i \in Index : tag[i][1] < boot
    BY <1>1 DEF Phased
  <1>5. 0 \in Words /\ 0 \in Index
    BY RingSize DEF Words, WordMax, Index
  <1>6. mem' \in Mems /\ mem'[WriteBackAt] = 0 /\ \A a \in Addresses : mem'[a] = mem[a]
        \/ mem'[a] \in Words
    <2>1. WriteBackAt \in Addresses
      BY <1>3, RingMemory
    <2> QED
      BY <1>1, <1>3, <1>5, <2>1, PhysWritten DEF WritePhys, Mems
  <1>7. RingOf(mem') \in Rings /\ RingBase # 0 /\ WriteBackAt # 0
    BY <1>3, <1>6, RingMemory
  <1>8. Typed'
    BY <1>1, <1>2, <1>3, <1>5, <1>6, TypedDriver
  <1>9. Phased'
    BY <1>1, <1>2, <1>4, <1>5, <1>6, <1>7 DEF Phased, Batch
  <1>10. Reader' = 0 /\ Len(consumed) = 0
    BY <1>1, <1>4 DEF Reader, InPacket
  <1>11. RingHeld'
    <2>1. PICK s, r : s = RingOf(mem') /\ r = Fetches'
      OBVIOUS
    <2>2. Held(s, tag, boot, 0, 0, 0, 0, 0, 0, 0, r)
      BY <1>3, <1>4, <1>7, <2>1, HeldStarts
    <2> QED
      BY <1>1, <1>4, <1>6, <1>10, <2>1, <2>2 DEF RingHeld
  <1>12. BatchHeld' /\ PacketHeld'
    BY <1>1, <1>4 DEF BatchHeld, PacketHeld, Batch, InPacket
  <1>13. SwapsInRing'
    BY <1>1, <1>6, WordsAreCells DEF SwapsInRing
  <1>14. TakenInOrder' /\ SwapMatchesItsFetch'
    BY <1>1, <1>2 DEF TakenInOrder, SwapMatchesItsFetch
  <1> QED
    BY <1>8, <1>9, <1>11, <1>12, <1>13, <1>14 DEF RingInv

\* VdEnableRingBufferRPtrWriteBack: the ring is still empty, so all that is read holds.
LEMMA EnableKeeps ==
  ASSUME RingInv, VdEnableRingBufferRPtrWriteBack
  PROVE  RingInv'
  <1>1. /\ Typed /\ Phased /\ TakenInOrder /\ SwapsInRing /\ SwapMatchesItsFetch
        /\ RingHeld /\ BatchHeld /\ PacketHeld
        /\ ringBasePa # 0 /\ rptrWbPa' = WriteBackAt
        /\ UNCHANGED <<mem, wptr, rptrMmio, ringBasePa, ringSize, rptrIndex, machine, running, pc, locals,
                       driver, consumed>>
    BY DEF RingInv, VdEnableRingBufferRPtrWriteBack
  <1>2. UNCHANGED <<regs, screen, idx, next, wptrSeen, span, sinceWb, tag, boot, tail, written, published>>
    BY <1>1 DEF machine, locals, driver
  <1>3. /\ mem \in Mems /\ regs \in Regs /\ tag \in TagTables /\ boot \in Nat \ {0}
        /\ wptr \in Index /\ tail \in Index
        /\ written \in Nat /\ published \in Nat /\ published <= written
           /\ \A i \in Index : tag[i][1] <= boot
        /\ rptrIndex \in Index /\ ringBasePa \in {0, RingBase} /\ ringSize \in {0, RingDwords}
    BY <1>1, TypedFacts DEF Typed, TypeOK
  <1>4. WriteBackAt # 0
    BY <1>3, RingMemory
  <1>5. Typed'
    BY <1>1, <1>2, <1>3, TypedDriver
  <1>6. Phased'
    BY <1>1, <1>2, <1>4 DEF Phased
  <1>7. Reader' = Reader /\ Fetches' = Fetches /\ Live' = Live
    BY <1>1, <1>2 DEF Reader, Fetches, Live
  <1>8. RingHeld' /\ BatchHeld' /\ PacketHeld'
    BY <1>1, <1>2, <1>7 DEF RingHeld, BatchHeld, PacketHeld
  <1>9. TakenInOrder' /\ SwapsInRing' /\ SwapMatchesItsFetch'
    BY <1>1, <1>2 DEF TakenInOrder, SwapsInRing, SwapMatchesItsFetch
  <1> QED
    BY <1>5, <1>6, <1>8, <1>9 DEF RingInv

\* What putting cells does, in terms of the ring and its tags.
LEMMA CellsArePut ==
  ASSUME Typed, Phased, NEW cells, WellFormed(cells), PutCells(cells), NEW n, n = Len(cells)
  PROVE  /\ n \in Nat /\ Dist(mem[WriteBackAt], tail) + n < RingDwords
         /\ mem[WriteBackAt] \in Index /\ mem'[WriteBackAt] = mem[WriteBackAt]
         /\ mem' \in Mems /\ RingOf(mem') \in Rings /\ (SwapsInRing => SwapsInRing')
         /\ CellsPut(RingOf(mem'), RingOf(mem), cells, n, tail)
         /\ tag' \in TagTables /\ TagsPut(tag', tag, cells, n, tail, boot, written)
         /\ \A i \in Index : tag'[i][1] <= boot
         /\ tail' = Step(tail, n) /\ tail' \in Index
         /\ written' = written + Headed(cells, n) /\ Headed(cells, n) \in Nat
  <1> DEFINE At(i) == ((i - tail) % RingDwords) + 1
             wb == mem[WriteBackAt]
  <1>1. /\ rptrWbPa # 0 /\ n <= Free
        /\ mem' = [a \in DOMAIN mem |->
                     IF a \in RingCells /\ At(a - RingBase) <= n THEN cells[At(a - RingBase)] ELSE mem[a]]
        /\ tag' = [i \in DOMAIN tag |->
                     IF At(i) > n THEN tag[i]
                     ELSE IF ~IsHeader(cells[At(i)]) THEN <<0, 0>>
                     ELSE <<boot, written + Headed(cells, At(i))>>]
        /\ tail' = (tail + n) % RingDwords
        /\ written' = written + Headed(cells, n)
    BY DEF PutCells
  <1>2. /\ mem \in Mems /\ DOMAIN mem = Addresses /\ tail \in Index /\ tag \in TagTables /\ boot \in Nat
        /\ written \in Nat /\ \A i \in Index : tag[i][1] <= boot
    BY TypedFacts DEF Typed
  <1>3. cells \in Seq(Cells) /\ n \in Nat /\ \A k \in 1..n : cells[k] \in Cells
    BY DEF WellFormed
  <1>4. wb \in Index /\ WriteBackAt \in Addresses /\ WriteBackAt \notin RingCells
    BY <1>1, <1>2, RingMemory DEF Phased
  <1>5. Reported = wb
    BY <1>4, RingSize DEF Reported, Value, WordMax, Index
  <1> HIDE DEF wb
  <1>6. Free = RingDwords - 1 - Dist(wb, tail) /\ Dist(wb, tail) \in Nat /\ RingDwords \in Nat
    <2>1. PICK t \in Index, v \in Index : t = tail /\ v = wb
      BY <1>2, <1>4
    <2>2. Free = (v - t - 1) % RingDwords
      BY <1>5, <2>1 DEF Free
    <2>3. (v - t - 1) % RingDwords = RingDwords - 1 - Dist(v, t)
      BY FreeIs
    <2> QED
      BY <2>1, <2>2, <2>3, Distances, RingSize
  <1>7. Dist(wb, tail) + n < RingDwords
    BY <1>1, <1>3, <1>6
  <1>8. /\ Step(tail, n) \in Index /\ \A i \in Index : Place(i, tail) \in 1..RingDwords
    BY <1>2, <1>3, <1>4, <1>7, Places
  <1>9. \A i : At(i) = Place(i, tail)
    BY DEF Place
  <1>10. \A k \in Nat : Headed(cells, k) \in Nat
    BY HeadedStep
  <1> HIDE DEF At
  <1>11. \A i \in Index : At(i) \in 1..RingDwords /\ (At(i) <= n => At(i) \in 1..n)
    <2>1. \A i \in Index : At(i) \in 1..RingDwords
      BY <1>8, <1>9
    <2> QED
      BY <1>3, <1>6, <2>1
  <1>12. /\ \A i \in Index : /\ RingBase + i \in Addresses /\ RingBase + i \in RingCells
                             /\ RingBase + i - RingBase = i /\ RingOf(mem)[i] = mem[RingBase + i]
         /\ \A a \in RingCells : a - RingBase \in Index /\ a \in Addresses
    <2>1. RingBase \in Nat
      BY RingIsInMemory
    <2> QED
      BY <1>2, <2>1, RingMemory DEF Index
  <1>13. mem' \in Mems
    <2> SUFFICES ASSUME NEW a \in Addresses
                 PROVE  (IF a \in RingCells /\ At(a - RingBase) <= n THEN cells[At(a - RingBase)] ELSE mem[a]) \in Cells
      BY <1>1, <1>2 DEF Mems
    <2>1. CASE a \in RingCells /\ At(a - RingBase) <= n
      <3>1. At(a - RingBase) \in 1..n
        BY <1>11, <1>12, <2>1
      <3> QED
        BY <1>3, <2>1, <3>1
    <2>2. CASE ~(a \in RingCells /\ At(a - RingBase) <= n)
      BY <1>2, <2>2 DEF Mems
    <2> QED
      BY <2>1, <2>2
  <1>14. /\ \A i \in Index : mem'[RingBase + i] = IF At(i) <= n THEN cells[At(i)] ELSE mem[RingBase + i]
         /\ \A a \in Addresses : a \notin RingCells => mem'[a] = mem[a]
    <2>1. \A a \in Addresses :
            mem'[a] = IF a \in RingCells
              /\ At(a - RingBase) <= n THEN cells[At(a - RingBase)] ELSE mem[a]
      BY <1>1, <1>2
    <2>2. ASSUME NEW i \in Index
          PROVE mem'[RingBase + i] = IF At(i) <= n THEN cells[At(i)] ELSE mem[RingBase + i]
      <3>1. PICK a \in Addresses : a = RingBase + i /\ a \in RingCells /\ a - RingBase = i
        <4>1. RingBase \in Nat /\ i \in Nat
          BY RingIsInMemory, RingSize DEF Index
        <4>2. PICK a \in Nat : a = RingBase + i
          BY <4>1
        <4>3. a - RingBase = i
          BY <4>1, <4>2
        <4> QED
          BY <1>12, <4>2, <4>3
      <3>2. mem'[a] = IF At(i) <= n THEN cells[At(i)] ELSE mem[a]
        BY <2>1, <3>1
      <3> QED
        BY <3>1, <3>2
    <2> QED
      BY <2>1, <2>2
  <1>15. /\ RingOf(mem') \in Rings /\ \A i \in Index : RingOf(mem')[i] = mem'[RingBase + i]
    BY <1>13, RingMemory
  <1>16. CellsPut(RingOf(mem'), RingOf(mem), cells, n, tail)
    BY <1>9, <1>12, <1>14, <1>15 DEF CellsPut
  <1>17. /\ \A i \in Index : tag'[i] = IF At(i) > n THEN tag[i]
                                       ELSE IF ~IsHeader(cells[At(i)]) THEN <<0, 0>>
                                       ELSE <<boot, written + Headed(cells, At(i))>>
         /\ DOMAIN tag' = Index /\ tag' = [i \in Index |-> tag'[i]]
    BY <1>1, <1>2 DEF TagTables
  <1>18. ASSUME NEW i \in Index
         PROVE  tag'[i] \in Nat \X Nat /\ tag'[i][1] <= boot
    <2>1. CASE At(i) > n
      BY <1>2, <1>17, <2>1 DEF TagTables
    <2>2. CASE ~(At(i) > n) /\ ~IsHeader(cells[At(i)])
      BY <1>2, <1>17, <2>2
    <2>3. CASE ~(At(i) > n) /\ IsHeader(cells[At(i)])
      <3>1. tag'[i] = <<boot, written + Headed(cells, At(i))>>
        BY <1>17, <2>3
      <3>2. Headed(cells, At(i)) \in Nat
        <4>1. At(i) \in Nat
          BY <1>6, <1>11
        <4> QED
          BY <4>1, <1>10
      <3>3. PICK k \in Nat : k = Headed(cells, At(i))
        BY <3>2
      <3> QED
        BY <1>2, <3>1, <3>3
    <2> QED
      BY <2>1, <2>2, <2>3
  <1>19. tag' \in TagTables /\ TagsPut(tag', tag, cells, n, tail, boot, written)
    BY <1>9, <1>17, <1>18 DEF TagTables, TagsPut
  <1>20. SwapsInRing => SwapsInRing'
    BY <1>14 DEF SwapsInRing
  <1>21. tail' = Step(tail, n) /\ written' = written + Headed(cells, n) /\ Headed(cells, n) \in Nat
    BY <1>1, <1>3, <1>10 DEF Step
  <1>22. mem'[WriteBackAt] = mem[WriteBackAt]
    BY <1>4, <1>14
  <1> QED
    BY <1>3, <1>4, <1>7, <1>8, <1>13, <1>15, <1>16, <1>18, <1>19, <1>20, <1>21, <1>22 DEF wb

\* WritePacket and VdSwap: the cells they put are behind all that is unread.
LEMMA PutKeeps ==
  ASSUME RingInv, NEW cells, WellFormed(cells), SwapBlocks(cells), PutCells(cells)
  PROVE  RingInv'
  <1> DEFINE s == RingOf(mem)
             c == Len(consumed)
  <1>1. /\ Typed /\ Phased /\ TakenInOrder /\ SwapsInRing /\ SwapMatchesItsFetch
        /\ RingHeld /\ BatchHeld /\ PacketHeld
        /\ rptrWbPa # 0
        /\ UNCHANGED <<wptr, rptrMmio, config, rptrIndex, machine, running, pc, locals, boot,
                       published, consumed>>
    BY DEF RingInv, PutCells
  <1>2. UNCHANGED <<regs, screen, idx, next, wptrSeen, span, sinceWb, ringBasePa, ringSize, rptrWbPa>>
    BY <1>1 DEF machine, locals, config
  <1>3. /\ mem \in Mems /\ regs \in Regs /\ boot \in Nat \ {0} /\ wptr \in Index /\ tail \in Index
        /\ written \in Nat /\ published \in Nat /\ published <= written
        /\ rptrIndex \in Index /\ ringBasePa \in {0, RingBase} /\ ringSize \in {0, RingDwords}
    BY <1>1, TypedFacts DEF Typed, TypeOK
  <1>4. PICK n : n = Len(cells)
    OBVIOUS
  <1>5. PICK s2, tg2, u, wb, w2 :
          /\ s2 = RingOf(mem') /\ tg2 = tag' /\ u = tail' /\ wb = mem[WriteBackAt] /\ w2 = written'
          /\ n \in Nat /\ Dist(wb, tail) + n < RingDwords
          /\ wb \in Index /\ mem'[WriteBackAt] = wb
          /\ mem' \in Mems /\ s2 \in Rings /\ SwapsInRing'
          /\ CellsPut(s2, s, cells, n, tail)
          /\ tg2 \in TagTables /\ TagsPut(tg2, tag, cells, n, tail, boot, written)
          /\ \A i \in Index : tg2[i][1] <= boot
          /\ u = Step(tail, n) /\ u \in Index
          /\ w2 = written + Headed(cells, n) /\ Headed(cells, n) \in Nat
    BY <1>1, <1>4, CellsArePut
  <1>6. Reader' = Reader /\ Fetches' = Fetches /\ Live' = Live
    BY <1>1, <1>2 DEF Reader, Fetches, Live
  <1>7. w2 \in Nat /\ published <= w2
    BY <1>3, <1>5
  <1>8. Typed'
    BY <1>1, <1>2, <1>3, <1>5, <1>7, TypedDriver
  <1>9. Phased'
    BY <1>1, <1>2, <1>5 DEF Phased
  <1> HIDE DEF s, c
  <1>10. ASSUME Live
         PROVE  /\ Held(s2, tg2, boot, Reader, u, c, w2, wptr, published, wb, Fetches)
                /\ \A e, since : InBatch(s, Reader, tail, wptr, e, since)
                   => InBatch(s2, Reader, u, wptr, e, since)
                /\ \A i : During(tag, boot, Reader, tail, i, wb, c)
                   => During(tg2, boot, Reader, u, i, wb, c)
    <2>1. Held(s, tag, boot, Reader, tail, c, written, wptr, published, wb, Fetches)
      BY <1>1, <1>5, <1>10 DEF RingHeld, s, c
    <2> QED
      BY <1>4, <1>5, <2>1, HeldPuts
  <1>11. RingHeld'
    BY <1>1, <1>5, <1>6, <1>10 DEF RingHeld, c
  <1>12. BatchHeld'
    BY <1>1, <1>2, <1>5, <1>6, <1>10 DEF BatchHeld, s
  <1>13. PacketHeld'
    <2> SUFFICES ASSUME pc \in InPacket
                 PROVE  During(tg2, boot, next, u, idx, wb, c)
      BY <1>1, <1>2, <1>5 DEF PacketHeld, c
    <2>1. Live /\ Reader = next
      BY <1>1, BatchIsLive DEF Batch, InPacket, Reader
    <2>2. During(tag, boot, next, tail, idx, wb, c)
      BY <1>1, <1>5 DEF PacketHeld, c
    <2> QED
      BY <1>10, <2>1, <2>2
  <1>14. TakenInOrder' /\ SwapMatchesItsFetch'
    BY <1>1, <1>2 DEF TakenInOrder, SwapMatchesItsFetch
  <1> QED
    BY <1>5, <1>8, <1>9, <1>11, <1>12, <1>13, <1>14 DEF RingInv

\* MovePointer: what is written is published.
LEMMA MovePointerKeeps ==
  ASSUME RingInv, MovePointer
  PROVE  RingInv'
  <1> DEFINE s == RingOf(mem)
             c == Len(consumed)
  <1>1. /\ Typed /\ Phased /\ TakenInOrder /\ SwapsInRing /\ SwapMatchesItsFetch
        /\ RingHeld /\ BatchHeld /\ PacketHeld
        /\ rptrWbPa # 0 /\ wptr' = tail /\ published' = written
        /\ UNCHANGED <<mem, rptrMmio, config, rptrIndex, machine, running, pc, locals, tail, boot,
                       written, tag, consumed>>
    BY DEF RingInv, MovePointer
  <1>2. UNCHANGED <<regs, screen, idx, next, wptrSeen, span, sinceWb, ringBasePa, ringSize, rptrWbPa>>
    BY <1>1 DEF machine, locals, config
  <1>3. /\ mem \in Mems /\ regs \in Regs /\ tag \in TagTables /\ boot \in Nat \ {0} /\ tail \in Index
        /\ written \in Nat /\ published \in Nat /\ published <= written
           /\ \A i \in Index : tag[i][1] <= boot
        /\ rptrIndex \in Index /\ ringBasePa \in {0, RingBase} /\ ringSize \in {0, RingDwords}
    BY <1>1, TypedFacts DEF Typed, TypeOK
  <1>4. written <= written
    BY <1>3
  <1>5. Typed'
    BY <1>1, <1>2, <1>3, <1>4, TypedDriver
  <1>6. Phased'
    BY <1>1, <1>2 DEF Phased
  <1>7. Reader' = Reader /\ Fetches' = Fetches /\ Live' = Live
    BY <1>1, <1>2 DEF Reader, Fetches, Live
  <1> HIDE DEF s, c
  <1>8. ASSUME Live
        PROVE  /\ Held(s, tag, boot, Reader, tail, c, written, tail, written, mem[WriteBackAt], Fetches)
               /\ \A e, since : InBatch(s, Reader, tail, wptr, e, since)
                  => InBatch(s, Reader, tail, tail, e, since)
    <2>1. Held(s, tag, boot, Reader, tail, c, written, wptr, published, mem[WriteBackAt], Fetches)
      BY <1>1, <1>8 DEF RingHeld, s, c
    <2> QED
      BY <2>1, HeldPublished
  <1>9. RingHeld' /\ BatchHeld'
    BY <1>1, <1>2, <1>7, <1>8 DEF RingHeld, BatchHeld, s, c
  <1>10. PacketHeld'
    BY <1>1, <1>2 DEF PacketHeld
  <1>11. TakenInOrder'
    <2>1. PICK d \in Nat : d <= published /\ consumed = [k \in 1..d |-> <<boot, k>>]
      BY <1>1 DEF TakenInOrder
    <2>2. d <= written
      BY <1>3, <2>1
    <2> QED
      BY <1>1, <2>1, <2>2 DEF TakenInOrder
  <1>12. SwapsInRing' /\ SwapMatchesItsFetch'
    BY <1>1, <1>2 DEF SwapsInRing, SwapMatchesItsFetch
  <1> QED
    BY <1>5, <1>6, <1>9, <1>10, <1>11, <1>12 DEF RingInv

\* GuestStore: the title stores a cell outside the ring.
LEMMA GuestStoreKeeps ==
  ASSUME RingInv, GuestStore, LeavesTheRing
  PROVE  RingInv'
  <1>1. /\ Typed /\ Phased /\ TakenInOrder /\ SwapsInRing /\ SwapMatchesItsFetch
        /\ RingHeld /\ BatchHeld /\ PacketHeld
        /\ UNCHANGED <<wptr, rptrMmio, config, rptrIndex, machine, running, pc, locals, driver, consumed>>
        /\ \A a \in RingCells \union {WriteBackAt} : mem'[a] = mem[a]
    BY DEF RingInv, GuestStore, LeavesTheRing
  <1>2. PICK a0 \in 0..(WriteBackAt + 7), v \in Cells : mem' = WritePhys(mem, a0, v) /\ ~IsSwap(v)
    BY MemoryAssumption, SwapsAreVdSwaps DEF GuestStore
  <1>3. UNCHANGED <<regs, screen, idx, next, wptrSeen, span, sinceWb, ringBasePa, ringSize, rptrWbPa,
                    tag, boot, tail, written, published>>
    BY <1>1 DEF machine, locals, config, driver
  <1>4. /\ mem \in Mems /\ DOMAIN mem = Addresses /\ regs \in Regs /\ tag \in TagTables
        /\ boot \in Nat \ {0}
        /\ tail \in Index /\ wptr \in Index
        /\ written \in Nat /\ published \in Nat /\ published <= written
           /\ \A i \in Index : tag[i][1] <= boot
        /\ rptrIndex \in Index /\ ringBasePa \in {0, RingBase} /\ ringSize \in {0, RingDwords}
    BY <1>1, TypedFacts DEF Typed, TypeOK
  <1>5. mem' = [mem EXCEPT ![a0] = v] /\ mem' \in Mems
    BY <1>2, <1>4 DEF WritePhys, Addresses, Mems
  <1>6. RingOf(mem') = RingOf(mem) /\ mem'[WriteBackAt] = mem[WriteBackAt]
    <2>1. \A i \in Index : mem'[RingBase + i] = mem[RingBase + i]
      BY <1>1, <1>4, RingMemory
    <2> QED
      BY <1>1, <2>1 DEF RingOf
  <1>7. Typed'
    BY <1>1, <1>3, <1>4, <1>5, TypedDriver
  <1>8. Phased'
    BY <1>1, <1>3, <1>6 DEF Phased
  <1>9. Reader' = Reader /\ Fetches' = Fetches /\ Live' = Live
    BY <1>1, <1>3 DEF Reader, Fetches, Live
  <1>10. RingHeld' /\ BatchHeld' /\ PacketHeld'
    BY <1>1, <1>3, <1>6, <1>9 DEF RingHeld, BatchHeld, PacketHeld
  <1>11. SwapsInRing'
    <2>1. ASSUME NEW a \in Addresses, a \notin RingCells PROVE ~IsSwap(mem'[a])
      BY <1>1, <1>2, <1>4, <1>5, <2>1 DEF SwapsInRing, Mems
    <2> QED
      BY <2>1 DEF SwapsInRing
  <1>12. TakenInOrder' /\ SwapMatchesItsFetch'
    BY <1>1, <1>3 DEF TakenInOrder, SwapMatchesItsFetch
  <1> QED
    BY <1>7, <1>8, <1>10, <1>11, <1>12 DEF RingInv

\* ResetForRelaunch: at a moment when the thread reads nothing.
LEMMA ResetKeeps ==
  ASSUME RingInv, ~ResetWhileBusy, ResetForRelaunch
  PROVE  RingInv'
  <1>1. /\ Typed /\ Phased /\ SwapsInRing /\ SwapMatchesItsFetch
        /\ pc = "idle"
        /\ boot' = boot + 1 /\ written' = 0 /\ published' = 0 /\ tail' = 0 /\ consumed' = <<>>
        /\ ringBasePa' = 0 /\ ringSize' = 0 /\ rptrWbPa' = 0 /\ rptrUpdate' = 0 /\ rptrIndex' = 0
        /\ regs' = NoRegs
        /\ UNCHANGED <<mem, wptr, rptrMmio, screen, running, pc, locals, tag>>
    BY DEF RingInv, ResetForRelaunch
  <1>2. /\ mem \in Mems /\ tag \in TagTables /\ boot \in Nat \ {0} /\ wptr \in Index
        /\ \A i \in Index : tag[i][1] <= boot /\ tag[i][1] \in Nat
    BY <1>1, TypedFacts DEF Typed, TypeOK, TagTables
  <1>3. 0 \in Index /\ NoRegs \in Regs
    BY RingSize DEF Index, NoRegs, Regs, Words, WordMax
  <1>4. boot + 1 \in Nat \ {0} /\ \A i \in Index : tag[i][1] < boot + 1 /\ tag[i][1] <= boot + 1
    BY <1>2
  <1>5. Typed'
    BY <1>1, <1>2, <1>3, <1>4, TypedDriver
  <1>6. Phased'
    BY <1>1, <1>4 DEF Phased, Batch
  <1>7. ~Live' /\ pc' \notin InPacket
    BY <1>1 DEF Live, InPacket
  <1>8. RingHeld' /\ BatchHeld' /\ PacketHeld'
    BY <1>7 DEF RingHeld, BatchHeld, PacketHeld
  <1>9. TakenInOrder'
    <2>1. <<>> = [k \in 1..0 |-> <<boot', k>>]
      OBVIOUS
    <2>2. 0 \in Nat /\ 0 <= 0
      OBVIOUS
    <2> QED
      BY <1>1, <2>1, <2>2 DEF TakenInOrder
  <1>10. SwapsInRing' /\ SwapMatchesItsFetch'
    BY <1>1 DEF SwapsInRing, SwapMatchesItsFetch
  <1> QED
    BY <1>5, <1>6, <1>8, <1>9, <1>10 DEF RingInv

\* Stop: a batch under way goes on to its next test.
LEMMA StopKeeps ==
  ASSUME RingInv, Stop
  PROVE  RingInv'
  <1>1. /\ Typed /\ Phased /\ TakenInOrder /\ SwapsInRing /\ SwapMatchesItsFetch
        /\ RingHeld /\ BatchHeld /\ PacketHeld
        /\ running
        /\ UNCHANGED <<mem, wptr, rptrMmio, config, rptrIndex, machine, pc, locals, driver, consumed>>
    BY DEF RingInv, Stop
  <1>2. UNCHANGED <<regs, screen, idx, next, wptrSeen, span, sinceWb, ringBasePa, ringSize, rptrWbPa,
                    tag, boot, tail, written, published>>
    BY <1>1 DEF machine, locals, config, driver
  <1>3. /\ mem \in Mems /\ regs \in Regs /\ tag \in TagTables /\ boot \in Nat \ {0}
        /\ tail \in Index /\ wptr \in Index
        /\ written \in Nat /\ published \in Nat /\ published <= written
           /\ \A i \in Index : tag[i][1] <= boot
        /\ rptrIndex \in Index /\ ringBasePa \in {0, RingBase} /\ ringSize \in {0, RingDwords}
    BY <1>1, TypedFacts DEF Typed, TypeOK
  <1>4. Typed'
    BY <1>1, <1>2, <1>3, TypedDriver
  <1>5. Phased'
    BY <1>1, <1>2 DEF Phased
  <1>6. Reader' = Reader /\ Fetches' = Fetches /\ (Live' => Live)
    BY <1>1, <1>2 DEF Reader, Fetches, Live
  <1>7. RingHeld' /\ BatchHeld' /\ PacketHeld'
    BY <1>1, <1>2, <1>6 DEF RingHeld, BatchHeld, PacketHeld
  <1>8. TakenInOrder' /\ SwapsInRing' /\ SwapMatchesItsFetch'
    BY <1>1, <1>2 DEF TakenInOrder, SwapsInRing, SwapMatchesItsFetch
  <1> QED
    BY <1>4, <1>5, <1>7, <1>8 DEF RingInv

\* A step of something else.
LEMMA StutterKeeps ==
  ASSUME RingInv, UNCHANGED vars
  PROVE  RingInv'
  <1>1. UNCHANGED <<mem, wptr, rptrMmio, rptrIndex, running, pc, consumed, regs, bins, screen, idx, next, wptrSeen,
                    span, sinceWb, frames, spins, ringBasePa, ringSize, rptrWbPa, tag, boot, tail,
                      written,
                    published>>
    BY DEF vars, machine, locals, config, driver
  <1>2. Typed' /\ Phased'
    BY <1>1 DEF RingInv, Typed, TypeOK, Phased
  <1>3. Reader' = Reader /\ Fetches' = Fetches /\ Live' = Live
    BY <1>1 DEF Reader, Fetches, Live
  <1>4. RingHeld' /\ BatchHeld' /\ PacketHeld'
    BY <1>1, <1>3 DEF RingInv, RingHeld, BatchHeld, PacketHeld
  <1>5. TakenInOrder' /\ SwapsInRing' /\ SwapMatchesItsFetch'
    BY <1>1 DEF RingInv, TakenInOrder, SwapsInRing, SwapMatchesItsFetch
  <1> QED
    BY <1>2, <1>4, <1>5 DEF RingInv

\* Before a ring is set up there is nothing to hold.
LEMMA InitHolds ==
  ASSUME Init
  PROVE  RingInv
  <1>1. /\ 0 \in Index /\ NoRegs \in Regs /\ 1 \in {1, RingDwords} /\ 0 \in 0..RingDwords
    BY RingSize DEF Index, NoRegs, Regs, Words, WordMax
  <1>2. NoTags \in TagTables /\ \A i \in Index : NoTags[i][1] = 0 /\ NoTags[i][1] <= 1
        /\ NoTags[i][1] < 1
    BY DEF NoTags, TagTables, Index
  <1>3. mem \in [DOMAIN Image -> Cells] /\ mem = Image /\ DOMAIN Image = Addresses
    BY MemoryAssumption DEF Init, Addresses
  <1>4. 0 \in 0..(MaxSpins + 1)
    BY BoundsAreNat
  <1>5. regs \in [0..(kRegCount - 1) -> 0..WordMax]
    BY <1>1 DEF Init, Regs, Words
  <1>6. {wptr, rptrMmio, rptrIndex, idx, next, tail} \subseteq 0..(RingDwords - 1)
    BY <1>1 DEF Init, Index
  <1>7. TypeOK
    BY <1>1, <1>3, <1>4, <1>5, <1>6 DEF Init, TypeOK
  <1>8. Typed
    BY <1>1, <1>2, <1>7 DEF Init, Typed
  <1>9. Phased
    BY <1>2 DEF Init, Phased, Batch
  <1>10. ~Live /\ pc \notin InPacket
    BY DEF Init, Live, InPacket
  <1>11. RingHeld /\ BatchHeld /\ PacketHeld
    BY <1>10 DEF RingHeld, BatchHeld, PacketHeld
  <1>12. TakenInOrder
    <2>1. <<>> = [k \in 1..0 |-> <<boot, k>>]
      OBVIOUS
    <2>2. 0 \in Nat /\ 0 <= 0
      OBVIOUS
    <2> QED
      BY <2>1, <2>2 DEF Init, TakenInOrder
  <1>13. SwapsInRing /\ SwapMatchesItsFetch
    <2>1. NoScreen.pa = 16 * NoScreen.page
      BY DEF NoScreen
    <2> QED
      BY <1>3, <2>1, SwapsAreVdSwaps DEF Init, SwapsInRing, SwapMatchesItsFetch
  <1> QED
    BY <1>8, <1>9, <1>11, <1>12, <1>13 DEF RingInv

\* Every step keeps the invariant, with a driver that clears its pointer and relaunches at rest.
LEMMA StepKeeps ==
  ASSUME ClearsPointer, ~ResetWhileBusy, RingInv, [Next]_vars, LeavesTheRing
  PROVE  RingInv'
  <1>1. CASE Fetch
    BY <1>1, FetchKeeps
  <1>2. CASE BatchEnds
    BY <1>2, BatchEndsKeeps
  <1>3. CASE SkipZero
    BY <1>3, SkipZeroKeeps
  <1>4. CASE RunPacket
    BY <1>4, RunPacketKeeps
  <1>5. CASE Type1InRing \/ ListInvalid
    BY <1>5, InvalidKeeps
  <1>6. CASE ListEnds
    BY <1>6, ListEndsKeeps
  <1>7. CASE ListPacket
    BY <1>7, ListPacketKeeps
  <1>8. CASE Poll
    BY <1>8, PollKeeps
  <1>9. CASE WriteBack
    BY <1>9, WriteBackKeeps
  <1>10. CASE PublishRead
    BY <1>10, PublishReadKeeps
  <1>11. CASE ThreadEnds
    BY <1>11, ThreadEndsKeeps
  <1>12. CASE VdInitializeRingBuffer
    BY <1>12, InitializeKeeps
  <1>13. CASE VdEnableRingBufferRPtrWriteBack
    BY <1>13, EnableKeeps
  <1>14. CASE WritePacket
    <2>1. PICK p \in Packets : PutCells(p)
      BY <1>14 DEF WritePacket
    <2> QED
      BY <2>1, PacketsHaveNoSwaps, PutKeeps
  <1>15. CASE VdSwap
    <2>1. PICK b \in FrontBuffers : PutCells(SwapBlock(b[1], b[2])) /\ b[2] \in 0..15
      BY <1>15, SwapsAreVdSwaps DEF VdSwap
    <2> QED
      BY <2>1, SwapBlockIsGood, PutKeeps
  <1>16. CASE MovePointer
    BY <1>16, MovePointerKeeps
  <1>17. CASE GuestStore
    BY <1>17, GuestStoreKeeps
  <1>18. CASE ResetForRelaunch
    BY <1>18, ResetKeeps
  <1>19. CASE Stop
    BY <1>19, StopKeeps
  <1>20. CASE UNCHANGED vars
    BY <1>20, StutterKeeps
  <1> QED
    BY <1>1, <1>2, <1>3, <1>4, <1>5, <1>6, <1>7, <1>8, <1>9, <1>10, <1>11, <1>12, <1>13, <1>14, <1>15,
       <1>16, <1>17, <1>18, <1>19, <1>20 DEF Next, Processor

\* The packets taken are those from the first on.
LEMMA InOrderFromInv == RingInv => PacketsOnceInOrder
  <1> SUFFICES ASSUME RingInv PROVE PacketsOnceInOrder
    OBVIOUS
  <1>1. TakenInOrder /\ Typed
    BY DEF RingInv
  <1> QED
    BY <1>1, TakenSoFar DEF PacketsOnceInOrder

\* No cell that the driver may write next has a packet that is not executed to its end.
LEMMA ReportedFromInv == RingInv => ReportedIsExecuted
  <1> SUFFICES ASSUME RingInv, running, rptrWbPa # 0,
                      NEW i \in DOMAIN tag, tag[i][1] = boot, tag[i][2] > Len(consumed) - InProgress,
                      NEW k \in 0..Free, i = (tail + k) % RingDwords
               PROVE  FALSE
    BY DEF ReportedIsExecuted
  <1>1. Typed /\ Phased /\ PacketHeld /\ TakenInOrder
    BY DEF RingInv
  <1>2. tag \in TagTables /\ DOMAIN tag = Index /\ tail \in Index /\ mem \in Mems
    BY <1>1, TypedFacts DEF Typed, TagTables
  <1>3. Live /\ mem[WriteBackAt] \in Index
    BY <1>1 DEF Phased, Live
  <1>4. Reported = mem[WriteBackAt]
    <2> DEFINE v == mem[WriteBackAt]
    <2>1. v \in Int /\ v <= 255
      BY <1>3, RingSize DEF Index
    <2> QED
      BY <2>1 DEF Reported, Value, WordMax
  <1>5. Free = (mem[WriteBackAt] - tail - 1) % RingDwords
    BY <1>4 DEF Free
  <1>6. Held(RingOf(mem), tag, boot, Reader, tail, Len(consumed), written, wptr, published,
             mem[WriteBackAt], Fetches)
    BY <1>3, RingFacts
  <1>7. PICK wb, c, s, rd, r :
          /\ wb \in Index /\ c \in Nat
          /\ wb = mem[WriteBackAt] /\ c = Len(consumed) /\ s = RingOf(mem) /\ rd = Reader /\ r = Fetches
    BY <1>1, <1>3, TakenSoFar
  <1>8. /\ tag[i][2] <= c
        /\ \A j : During(tag, boot, rd, tail, j, wb, c) => tag[i][2] <= c - 1
    <2>1. /\ Held(s, tag, boot, rd, tail, c, written, wptr, published, wb, r)
          /\ k \in 0..((wb - tail - 1) % RingDwords) /\ i \in Index
      BY <1>2, <1>5, <1>6, <1>7
    <2> QED
      BY <2>1, HeldFree
  <1>9. tag[i][2] \in Nat
    BY <1>2 DEF TagTables
  <1>10. CASE pc \in InPacket
    <2>1. rd = next
      BY <1>7, <1>10 DEF Reader
    <2>2. During(tag, boot, rd, tail, idx, wb, c)
      BY <1>1, <1>7, <1>10, <2>1 DEF PacketHeld
    <2>3. InProgress = 1
      BY <1>10 DEF InProgress, InPacket
    <2> QED
      BY <1>7, <1>8, <1>9, <2>2, <2>3
  <1>11. CASE pc \notin InPacket
    <2>1. InProgress = 0
      BY <1>11 DEF InProgress, InPacket
    <2> QED
      BY <1>7, <1>8, <1>9, <2>1
  <1> QED
    BY <1>10, <1>11

\* The invariant of the ring, for a driver that clears its pointers, relaunches at rest and has the
\* ring to itself: the three things the code counts on and does not enforce.
THEOREM RingInvariant ==
  ASSUME ClearsPointer, ~ResetWhileBusy
  PROVE  Spec /\ RingIsTheDrivers => []RingInv
  <1>1. Init => RingInv
    BY InitHolds
  <1>2. RingInv /\ [Next]_vars /\ [LeavesTheRing]_vars => RingInv'
    <2>1. CASE UNCHANGED vars
      BY <2>1, StutterKeeps
    <2>2. CASE LeavesTheRing
      BY <2>2, StepKeeps
    <2> QED
      BY <2>1, <2>2
  <1> QED
    BY <1>1, <1>2, PTL DEF Spec, RingIsTheDrivers

\* Every packet is taken once and in the order of writing, whatever the size of the ring, the packets
\* and the place where they wrap (executePrimaryBuffer).
THEOREM PacketsInOrder ==
  ASSUME ClearsPointer, ~ResetWhileBusy
  PROVE  Spec /\ RingIsTheDrivers => []PacketsOnceInOrder
  BY RingInvariant, InOrderFromInv, PTL

\* The read pointer the guest sees never passes a packet that is not executed to its end
\* (writeRptrMmio, the write-back in memory).
THEOREM ReportedExecuted ==
  ASSUME ClearsPointer, ~ResetWhileBusy
  PROVE  Spec /\ RingIsTheDrivers => []ReportedIsExecuted
  BY RingInvariant, ReportedFromInv, PTL

\* A swap hands over the buffer that the fetch constant of the same VdSwap describes (issueSwap).
THEOREM SwapsMatch ==
  ASSUME ClearsPointer, ~ResetWhileBusy
  PROVE  Spec /\ RingIsTheDrivers => []SwapMatchesItsFetch
  <1>1. RingInv => SwapMatchesItsFetch
    BY DEF RingInv
  <1> QED
    BY <1>1, RingInvariant, PTL

\* Indexes stay inside the ring and words inside their width.
THEOREM CommandProcessorTypes ==
  ASSUME ClearsPointer, ~ResetWhileBusy
  PROVE  Spec /\ RingIsTheDrivers => []TypeOK
  <1>1. RingInv => TypeOK
    BY DEF RingInv, Typed
  <1> QED
    BY <1>1, RingInvariant, PTL

----------------------------------------------------------------------------
(* The Vulkan backend *)

(***************************************************************************)
(* The properties of the display rest on three facts that are not visible in them: the    *)
(* fence of a submission that the GPU still has is not signaled; a slot    *)
(* whose fence was waited for stays signaled until its submission, whatever*)
(* the acquire did to the swapchain (and what is resized for is a frame of *)
(* the title); and fences exist while a swapchain does.                    *)
(***************************************************************************)
QueueHoldsFence == \A f \in Slots : InQueue(f) => inFlight[f] = "unsignaled"
AtPlace ==
  /\ phase \in {"acquire", "record"} => inFlight[slot] = "signaled"
  /\ phase = "resize" => front \in Fronts
FencesAreWhole == \A f \in Slots : chain = NoSize <=> inFlight[f] = "none"

Fences == NoFenceIsStuck /\ QueueHoldsFence /\ OneFramePerSlot
DisplayInv == DisplayTypeOK /\ SwapchainIsWhole /\ Fences /\ AtPlace /\ FencesAreWhole

USE DEF kMaxInFlight, Slots, Orphan

\* The initial states satisfy the invariant.
LEMMA InitDisplayInv == DisplayInit => DisplayInv
  <1> SUFFICES ASSUME DisplayInit PROVE DisplayInv
    OBVIOUS
  <1>1. DisplayTypeOK
    <2>1. imageIndex \in Images
      BY ThereAreImages DEF DisplayInit
    <2>2. queue \in Seq(Submission) /\ presents \in Seq(Images)
      BY DEF DisplayInit
    <2> QED
      BY <2>1, <2>2, Sentinels, FailuresBounded DEF DisplayInit, DisplayTypeOK, NoImages, NoSync
  <1>2. SwapchainIsWhole /\ AtPlace /\ FencesAreWhole
    BY DEF DisplayInit, SwapchainIsWhole, AtPlace, FencesAreWhole, NoSync
  <1>3. Fences
    BY DEF DisplayInit, Fences, NoFenceIsStuck, QueueHoldsFence, OneFramePerSlot, InQueue, NoSync
  <1> QED
    BY <1>1, <1>2, <1>3 DEF DisplayInv

----------------------------------------------------------------------------
(* The queue of the GPU and the fences *)

\* Whatever leaves the queue and the fences alone keeps what relates them.
LEMMA FencesUnchanged ==
  ASSUME Fences, UNCHANGED <<queue, inFlight>>
  PROVE  Fences'
  BY DEF Fences, NoFenceIsStuck, QueueHoldsFence, OneFramePerSlot, InQueue

\* So does a step that changes nothing at all.
LEMMA DisplayUnchanged == ASSUME DisplayInv, UNCHANGED displayVars PROVE DisplayInv'
  <1>1. UNCHANGED <<stage, window, chain, images, inFlight, surfaceValid, extent, slot, fbSize, phase,
                    imageIndex, front, queue, presents, shape, failures>>
    BY DEF displayVars, device, objects, frame, gpu
  <1>2. DisplayTypeOK'
    BY <1>1 DEF DisplayInv, DisplayTypeOK
  <1> QED
    BY <1>1, <1>2, FencesUnchanged
    DEF DisplayInv, SwapchainIsWhole, AtPlace, FencesAreWhole

\* Without a swapchain there are no fences, and the GPU has nothing for them.
LEMMA NothingForNoChain ==
  ASSUME DisplayInv, ~surfaceValid
  PROVE  \A i \in 1..Len(queue) : queue[i].slot = Orphan
  <1> SUFFICES ASSUME NEW i \in 1..Len(queue) PROVE queue[i].slot = Orphan
    OBVIOUS
  <1>1. queue[i] \in Submission
    BY ElementOfSeq DEF DisplayInv, DisplayTypeOK
  <1>2. \A f \in Slots : inFlight[f] = "none"
    BY DEF DisplayInv, SwapchainIsWhole, FencesAreWhole
  <1>3. \A f \in Slots : ~InQueue(f)
    BY <1>2 DEF DisplayInv, Fences, QueueHoldsFence
  <1> QED
    BY <1>1, <1>3 DEF InQueue, Submission

\* Fences that wait for nothing, and a queue with nothing for them.
LEMMA NothingPending ==
  ASSUME \A f \in Slots : inFlight'[f] # "unsignaled",
         \A i \in 1..Len(queue') : queue'[i].slot = Orphan
  PROVE  Fences'
  <1>1. \A f \in Slots : ~InQueue(f)'
    BY DEF InQueue
  <1>2. (NoFenceIsStuck /\ QueueHoldsFence)'
    BY <1>1 DEF NoFenceIsStuck, QueueHoldsFence
  <1> QED
    BY <1>2 DEF Fences, OneFramePerSlot

\* The objects are created: every fence is signaled and the GPU has nothing for them.
LEMMA CreatedKeeps ==
  ASSUME DisplayTypeOK, Created, \A i \in 1..Len(queue') : queue'[i].slot = Orphan
  PROVE  /\ Fences' /\ FencesAreWhole'
         /\ chain' \in Sizes /\ extent' \in Sizes /\ surfaceValid' = TRUE
         /\ inFlight' = [f \in Slots |-> "signaled"]
  <1>1. Fences'
    BY NothingPending DEF Created
  <1> QED
    BY <1>1, Sentinels DEF Created, FencesAreWhole, DisplayTypeOK

\* Or they are not, and nothing is left of them.
LEMMA NotCreatedKeeps ==
  ASSUME DisplayTypeOK, NotCreated, \A i \in 1..Len(queue') : queue'[i].slot = Orphan
  PROVE  /\ Fences' /\ FencesAreWhole'
         /\ chain' = NoSize /\ extent' \in Sizes \cup {NoSize} /\ surfaceValid' = FALSE
         /\ inFlight' = NoSync /\ images' = NoImages
  <1>1. Fences'
    BY NothingPending DEF NotCreated, Destroyed, NoSync
  <1> QED
    BY <1>1 DEF NotCreated, Destroyed, FencesAreWhole, DisplayTypeOK, NoSync

\* Every outcome of createSwapchainObjects keeps the invariant's parts about the swapchain.
LEMMA CreateKeeps ==
  ASSUME DisplayTypeOK, CreateSwapchainObjects, \A i \in 1..Len(queue') : queue'[i].slot = Orphan
  PROVE  /\ Fences' /\ FencesAreWhole'
         /\ chain' \in Sizes \cup {NoSize} /\ extent' \in Sizes \cup {NoSize}
         /\ surfaceValid' \in BOOLEAN /\ (surfaceValid' <=> chain' # NoSize)
         /\ inFlight' \in [Slots -> {"none", "unsignaled", "signaled"}]
         /\ surfaceValid' => inFlight' = [f \in Slots |-> "signaled"]
         /\ images' \in [Images -> {"none", "free", "acquired", "queued", "shown"}]
  <1>1. CASE Created /\ images' = [i \in Images |-> "free"]
    BY <1>1, CreatedKeeps, Sentinels
  <1>2. CASE NotCreated
    BY <1>2, NotCreatedKeeps DEF NoSync, NoImages
  <1> QED
    BY <1>1, <1>2 DEF CreateSwapchainObjects

\* After a re-creation, what the GPU has is of no slot any more.
LEMMA OrphanedIsOrphan ==
  ASSUME DisplayTypeOK, Orphaned
  PROVE  /\ queue' \in Seq(Submission) /\ presents' \in Seq(Images)
         /\ \A i \in 1..Len(queue') : queue'[i].slot = Orphan
  <1>1. queue \in Seq(Submission)
    BY DEF DisplayTypeOK
  <1>2. \A i \in DOMAIN queue : [queue[i] EXCEPT !.slot = Orphan] \in Submission
    <2> SUFFICES ASSUME NEW i \in DOMAIN queue PROVE [queue[i] EXCEPT !.slot = Orphan] \in Submission
      OBVIOUS
    <2>1. queue[i] \in Submission
      BY <1>1, ElementOfSeq
    <2> QED
      BY <2>1 DEF Submission
  <1> QED
    BY <1>1, <1>2 DEF Orphaned

\* recreateSwapchain at the end of a frame.
LEMMA RecreateKeeps ==
  ASSUME DisplayInv, RecreateSwapchain, phase' = "idle", slot' \in Slots,
         imageIndex' \in Images,
         stage = "device" /\ window \in Windows,
         UNCHANGED <<stage, window, fbSize, front, shape, failures>>
  PROVE  DisplayInv'
  <1> USE DEF DisplayInv, RecreateSwapchain
  <1>1. \A i \in 1..Len(queue') : queue'[i].slot = Orphan
    BY OrphanedIsOrphan
  <1>2. DisplayTypeOK'
    <2>1. queue' \in Seq(Submission) /\ presents' \in Seq(Images)
      BY OrphanedIsOrphan
    <2>2. /\ chain' \in Sizes \cup {NoSize} /\ extent' \in Sizes \cup {NoSize}
          /\ inFlight' \in [Slots -> {"none", "unsignaled", "signaled"}]
          /\ images' \in [Images -> {"none", "free", "acquired", "queued", "shown"}]
          /\ surfaceValid' \in BOOLEAN
      BY <1>1, CreateKeeps
    <2> QED
      BY <2>1, <2>2 DEF DisplayTypeOK
  <1>3. (SwapchainIsWhole /\ AtPlace)'
    BY <1>1, CreateKeeps DEF SwapchainIsWhole, AtPlace
  <1> QED
    BY <1>1, <1>2, <1>3, CreateKeeps

----------------------------------------------------------------------------
(* One lemma per operation: it keeps the invariant *)

LEMMA AvailableKeeps ==
  ASSUME DisplayInv, NEW w \in Windows, OnSurfaceAvailable(w)
  PROVE  DisplayInv'
  <1> USE DEF DisplayInv
  <1>1. CASE stage = "none" /\ UNCHANGED <<device, objects, extent, fbSize, gpu>>
    <2>1. UNCHANGED displayVars
      BY <1>1 DEF OnSurfaceAvailable, device, objects, gpu, frame, displayVars
    <2> QED
      BY <2>1, DisplayUnchanged
  <1>2. CASE CreateAgain /\ stage = "device" /\ window = w /\ chain = NoSize
    <2>1. \A i \in 1..Len(queue') : queue'[i].slot = Orphan
      BY <1>2, NothingForNoChain DEF CreateAgain, gpu, SwapchainIsWhole
    <2>2. CreateSwapchainObjects /\ UNCHANGED gpu
      BY <1>2 DEF CreateAgain
    <2>3. phase = "idle" /\ phase' = "idle"
      BY DEF OnSurfaceAvailable, frame
    <2>4. DisplayTypeOK'
      BY <1>2, <2>1, <2>2, CreateKeeps DEF CreateAgain, OnSurfaceAvailable, frame, gpu, DisplayTypeOK
    <2>5. (SwapchainIsWhole /\ AtPlace)'
      BY <1>2, <2>1, <2>2, <2>3, CreateKeeps DEF CreateAgain, SwapchainIsWhole, AtPlace
    <2> QED
      BY <2>1, <2>2, <2>4, <2>5, CreateKeeps
  <1>3. CASE CreateAgain /\ chain # NoSize
    <2>1. UNCHANGED <<stage, window, chain, images, inFlight, surfaceValid, slot, fbSize, phase, imageIndex,
                      front, queue, presents, shape, failures>>
      BY <1>3 DEF CreateAgain, OnSurfaceAvailable, objects, gpu, frame
    <2>2. extent' \in Sizes \cup {NoSize}
      BY <1>3 DEF CreateAgain, DisplayTypeOK
    <2>3. DisplayTypeOK'
      BY <2>1, <2>2 DEF DisplayTypeOK
    <2> QED
      BY <2>1, <2>3, FencesUnchanged DEF SwapchainIsWhole, AtPlace, FencesAreWhole
  <1>4. CASE Rebuild(w)
    <2>1. queue' = <<>> /\ presents' = <<>> /\ fbSize' = NoSize
      BY <1>4 DEF Rebuild, AllDestroyed
    <2>2. \A i \in 1..Len(queue') : queue'[i].slot = Orphan
      BY <2>1
    <2>3. UNCHANGED <<slot, phase, imageIndex, front, shape, failures>> /\ phase = "idle"
      BY DEF OnSurfaceAvailable, frame
    <2>4. CASE /\ stage' \in {"none", "instance", "surface"} /\ window' \in {w, NoWindow}
               /\ Destroyed /\ UNCHANGED extent
      <3>1. NotCreated
        BY <2>4 DEF NotCreated
      <3>2. /\ chain' = NoSize /\ surfaceValid' = FALSE
            /\ inFlight' = NoSync /\ images' = NoImages /\ extent' \in Sizes \cup {NoSize}
        BY <2>2, <3>1, NotCreatedKeeps
      <3>3. stage' \in {"none", "instance", "surface", "device"} /\ window' \in Windows \cup {NoWindow}
        BY <2>4
      <3>4. DisplayTypeOK'
        <4>1. queue' \in Seq(Submission) /\ presents' \in Seq(Images)
          BY <2>1
        <4>2. images' \in [Images -> {"none", "free", "acquired", "queued", "shown"}]
          BY <3>2 DEF NoImages
        <4>3. inFlight' \in [Slots -> {"none", "unsignaled", "signaled"}]
          BY <3>2 DEF NoSync
        <4> QED
          BY <2>1, <2>3, <3>2, <3>3, <4>1, <4>2, <4>3 DEF DisplayTypeOK
      <3> QED
        BY <2>2, <2>3, <2>4, <3>1, <3>2, <3>4, NotCreatedKeeps DEF SwapchainIsWhole, AtPlace
    <2>5. CASE stage' = "device" /\ window' = w /\ CreateSwapchainObjects
      <3>1. DisplayTypeOK'
        BY <2>1, <2>2, <2>3, <2>5, CreateKeeps DEF DisplayTypeOK
      <3>2. SwapchainIsWhole'
        BY <2>2, <2>3, <2>5, CreateKeeps DEF SwapchainIsWhole
      <3>3. AtPlace'
        BY <2>3 DEF AtPlace
      <3> QED
        BY <2>2, <2>5, <3>1, <3>2, <3>3, CreateKeeps
    <2> QED
      BY <1>4, <2>4, <2>5 DEF Rebuild
  <1> QED
    BY <1>1, <1>2, <1>3, <1>4 DEF OnSurfaceAvailable

LEMMA LostKeeps ==
  ASSUME DisplayInv, OnSurfaceLost
  PROVE  DisplayInv'
  <1> USE DEF DisplayInv
  <1>1. NotCreated
    BY DEF OnSurfaceLost, NotCreated
  <1>2. queue' = <<>> /\ presents' = <<>> /\ fbSize' = NoSize
    BY DEF OnSurfaceLost, AllDestroyed
  <1>3. phase' = "idle" /\ UNCHANGED <<extent, slot, imageIndex, front, shape, failures>>
    BY DEF OnSurfaceLost, frame
  <1>4. DisplayTypeOK'
    <2>1. queue' \in Seq(Submission) /\ presents' \in Seq(Images)
      BY <1>2
    <2>2. /\ chain' = NoSize /\ surfaceValid' = FALSE
          /\ inFlight' \in [Slots -> {"none", "unsignaled", "signaled"}]
          /\ images' \in [Images -> {"none", "free", "acquired", "queued", "shown"}]
      BY <1>1, <1>2, NotCreatedKeeps DEF NoSync, NoImages
    <2> QED
      BY <1>2, <1>3, <2>1, <2>2 DEF OnSurfaceLost, DisplayTypeOK
  <1> QED
    BY <1>1, <1>2, <1>3, <1>4, NotCreatedKeeps DEF SwapchainIsWhole, AtPlace

LEMMA BeginKeeps ==
  ASSUME DisplayInv, NEW f \in Fronts \cup {Clear}, Begin(f)
  PROVE  DisplayInv'
  <1> USE DEF DisplayInv
  <1>1. UNCHANGED <<stage, window, chain, images, inFlight, surfaceValid, extent, slot, fbSize, imageIndex,
                    queue, presents, shape, failures>>
    BY DEF Begin, device, objects, gpu
  <1>2. phase' \in {"fence", "resize"} /\ front' = f /\ surfaceValid
    BY DEF Begin
  <1>4. phase' = "resize" => f \in Fronts
    BY DEF Begin
  <1>3. DisplayTypeOK'
    BY <1>1, <1>2 DEF DisplayTypeOK
  <1> QED
    BY <1>1, <1>2, <1>3, <1>4, FencesUnchanged DEF SwapchainIsWhole, AtPlace, FencesAreWhole

LEMMA ResizeFrontKeeps ==
  ASSUME DisplayInv, ResizeFront
  PROVE  DisplayInv'
  <1> USE DEF DisplayInv
  <1>1. UNCHANGED <<stage, window, chain, images, inFlight, surfaceValid, extent, slot, imageIndex, front,
                    queue, presents, shape, failures>>
    BY DEF ResizeFront, device, objects, gpu
  <1>2. phase = "resize" /\ phase' \in {"fence", "idle"}
    BY DEF ResizeFront
  <1>3. fbSize' \in Fronts \cup {NoSize}
    <2>1. CASE fbSize' = NoSize
      BY <2>1
    <2>2. CASE fbSize' = front
      BY <2>2 DEF ResizeFront, AtPlace
    <2> QED
      BY <2>1, <2>2 DEF ResizeFront
  <1>4. DisplayTypeOK'
    BY <1>1, <1>2, <1>3 DEF DisplayTypeOK
  <1> QED
    BY <1>1, <1>2, <1>4, FencesUnchanged
    DEF SwapchainIsWhole, AtPlace, FencesAreWhole

LEMMA WaitForFenceKeeps ==
  ASSUME DisplayInv, WaitForFence
  PROVE  DisplayInv'
  <1> USE DEF DisplayInv
  <1>1. UNCHANGED <<stage, window, chain, images, inFlight, surfaceValid, extent, slot, fbSize, imageIndex,
                    front, queue, presents, shape, failures>>
    BY DEF WaitForFence, device, objects, gpu
  <1>2. phase = "fence" /\ phase' = "acquire" /\ inFlight[slot] = "signaled"
    BY DEF WaitForFence, FrameDone
  <1>3. DisplayTypeOK'
    BY <1>1, <1>2 DEF DisplayTypeOK
  <1> QED
    BY <1>1, <1>2, <1>3, FencesUnchanged DEF SwapchainIsWhole, AtPlace, FencesAreWhole

LEMMA AcquireKeeps ==
  ASSUME DisplayInv, Acquire
  PROVE  DisplayInv'
  <1> USE DEF DisplayInv
  <1>1. /\ UNCHANGED <<stage, window, slot, fbSize, front, shape, failures>>
        /\ phase = "acquire" /\ surfaceValid /\ inFlight[slot] = "signaled"
    BY DEF Acquire, device, SwapchainIsWhole, AtPlace
  <1>2. CASE \E i \in Images :
               images[i] = "free" /\ imageIndex' = i /\ images' = [images EXCEPT ![i] = "acquired"]
             /\ phase' = "record"
             /\ UNCHANGED <<chain, inFlight, surfaceValid, extent, gpu>>
    <2>1. DisplayTypeOK'
      BY <1>1, <1>2 DEF DisplayTypeOK, gpu
    <2> QED
      BY <1>1, <1>2, <2>1, FencesUnchanged
      DEF SwapchainIsWhole, AtPlace, FencesAreWhole, gpu
  <1>3. CASE /\ imageIndex' \in Images /\ Orphaned /\ Created /\ phase' = "record"
             /\ images' = [i \in Images |-> IF i = imageIndex' THEN "acquired" ELSE "free"]
    <2>1. \A i \in 1..Len(queue') : queue'[i].slot = Orphan
      BY <1>3, OrphanedIsOrphan
    <2>2. DisplayTypeOK'
      <3>1. queue' \in Seq(Submission) /\ presents' \in Seq(Images)
        BY <1>3, OrphanedIsOrphan
      <3>2. /\ chain' \in Sizes /\ extent' \in Sizes /\ surfaceValid' = TRUE
            /\ inFlight' \in [Slots -> {"none", "unsignaled", "signaled"}]
        BY <1>3, <2>1, CreatedKeeps
      <3>3. images' \in [Images -> {"none", "free", "acquired", "queued", "shown"}]
        BY <1>3
      <3> QED
        BY <1>1, <1>3, <3>1, <3>2, <3>3 DEF DisplayTypeOK
    <2>3. (SwapchainIsWhole /\ AtPlace)'
      BY <1>1, <1>3, <2>1, <2>2, CreatedKeeps, Sentinels
      DEF SwapchainIsWhole, AtPlace, DisplayTypeOK
    <2> QED
      BY <1>3, <2>1, <2>2, <2>3, CreatedKeeps
  <1>4. CASE RecreateSwapchain /\ phase' = "idle" /\ UNCHANGED imageIndex
    <2>1. UNCHANGED <<stage, window, fbSize, front, shape, failures>> /\ slot' \in Slots
      BY <1>1 DEF DisplayTypeOK
    <2> QED
      BY <1>1, <1>4, <2>1, RecreateKeeps DEF SwapchainIsWhole, DisplayTypeOK
  <1> QED
    BY <1>1, <1>2, <1>3, <1>4 DEF Acquire

LEMMA AcquireFailsKeeps ==
  ASSUME DisplayInv, AcquireFails
  PROVE  DisplayInv'
  <1> USE DEF DisplayInv
  <1>1. UNCHANGED <<stage, window, chain, images, inFlight, surfaceValid, extent, slot, fbSize, imageIndex,
                    front, queue, presents, shape, failures>> /\ phase' = "idle"
    BY DEF AcquireFails, device, objects, gpu
  <1>2. DisplayTypeOK'
    BY <1>1 DEF DisplayTypeOK
  <1> QED
    BY <1>1, <1>2, FencesUnchanged DEF SwapchainIsWhole, AtPlace, FencesAreWhole

LEMMA RecordFailsKeeps ==
  ASSUME DisplayInv, RecordFails
  PROVE  DisplayInv'
  <1> USE DEF DisplayInv
  <1>1. UNCHANGED <<stage, window, chain, images, surfaceValid, extent, slot, fbSize, imageIndex, front,
                    queue, presents, shape>>
    BY DEF RecordFails, device, gpu
  <1>2. phase = "record" /\ phase' = "idle" /\ inFlight[slot] = "signaled" /\ slot \in Slots
    BY DEF RecordFails, AtPlace, DisplayTypeOK
  <1>3. inFlight' = inFlight
    BY <1>2 DEF RecordFails, RecreateFenceSignaled, DisplayTypeOK
  <1>4. failures' \in 0..MaxFailures
    BY FailuresBounded DEF RecordFails, DisplayTypeOK
  <1>5. DisplayTypeOK'
    BY <1>1, <1>2, <1>3, <1>4 DEF DisplayTypeOK
  <1> QED
    BY <1>1, <1>2, <1>3, <1>5, FencesUnchanged DEF SwapchainIsWhole, AtPlace, FencesAreWhole

LEMMA SubmitKeeps ==
  ASSUME DisplayInv, Submit
  PROVE  DisplayInv'
  <1> USE DEF DisplayInv
  <1> DEFINE new == [slot |-> slot, image |-> imageIndex, copies |-> front # Clear]
  <1>1. UNCHANGED <<stage, window, chain, images, surfaceValid, extent, slot, fbSize, imageIndex, front,
                    presents, shape, failures>>
    BY DEF Submit, device
  <1>2. phase = "record" /\ phase' = "present" /\ inFlight[slot] = "signaled" /\ slot \in Slots
    BY DEF Submit, AtPlace, DisplayTypeOK
  <1>3. inFlight' = [inFlight EXCEPT ![slot] = "unsignaled"] /\ queue' = Append(queue, new)
    BY DEF Submit
  <1>4. queue \in Seq(Submission) /\ new \in Submission
    BY <1>2 DEF DisplayTypeOK, Submission
  <1>5. /\ queue' \in Seq(Submission) /\ Len(queue') = Len(queue) + 1
        /\ queue'[Len(queue) + 1] = new
        /\ \A i \in 1..Len(queue) : queue'[i] = queue[i]
    BY <1>3, <1>4, AppendProperties
  <1>6. Len(queue) \in Nat /\ \A f \in Slots : InQueue(f)' <=> InQueue(f) \/ f = slot
    BY <1>4, <1>5, LenProperties DEF InQueue
  <1>7. ~InQueue(slot)
    BY <1>2 DEF Fences, QueueHoldsFence
  <1>8. Fences'
    <2>1. inFlight \in [Slots -> {"none", "unsignaled", "signaled"}]
      BY DEF DisplayTypeOK
    <2>2. (NoFenceIsStuck /\ QueueHoldsFence)'
      BY <1>2, <1>3, <1>6, <2>1 DEF Fences, NoFenceIsStuck, QueueHoldsFence
    <2>3. OneFramePerSlot'
      BY <1>4, <1>5, <1>6, <1>7 DEF Fences, OneFramePerSlot, InQueue
    <2> QED
      BY <2>2, <2>3 DEF Fences
  <1>9. DisplayTypeOK'
    BY <1>1, <1>2, <1>3, <1>5 DEF DisplayTypeOK
  <1>10. (SwapchainIsWhole /\ FencesAreWhole /\ AtPlace)'
    BY <1>1, <1>2, <1>3 DEF SwapchainIsWhole, FencesAreWhole, AtPlace, DisplayTypeOK
  <1> QED
    BY <1>8, <1>9, <1>10

LEMMA PresentKeeps ==
  ASSUME DisplayInv, Present
  PROVE  DisplayInv'
  <1> USE DEF DisplayInv
  <1>1. /\ UNCHANGED <<stage, window, fbSize, imageIndex, front, shape, failures>>
        /\ phase = "present" /\ phase' = "idle" /\ surfaceValid
    BY DEF Present, device, SwapchainIsWhole
  <1>2. slot' \in Slots
    BY DEF Present, NextSlot, DisplayTypeOK
  <1>3. CASE /\ images' = [images EXCEPT ![imageIndex] = "queued"]
             /\ presents' = Append(presents, imageIndex)
             /\ UNCHANGED <<chain, inFlight, surfaceValid, extent, queue>>
    <2>1. presents' \in Seq(Images)
      BY <1>3, AppendProperties DEF DisplayTypeOK
    <2>2. DisplayTypeOK'
      BY <1>1, <1>2, <1>3, <2>1 DEF DisplayTypeOK
    <2> QED
      BY <1>1, <1>3, <2>2, FencesUnchanged DEF SwapchainIsWhole, AtPlace, FencesAreWhole
  <1>4. CASE RecreateSwapchain
    BY <1>1, <1>2, <1>4, RecreateKeeps DEF SwapchainIsWhole, DisplayTypeOK
  <1> QED
    BY <1>3, <1>4 DEF Present

LEMMA GpuExecutesKeeps ==
  ASSUME DisplayInv, GpuExecutes
  PROVE  DisplayInv'
  <1> USE DEF DisplayInv
  <1> DEFINE f == Head(queue).slot
  <1>1. UNCHANGED <<stage, window, chain, images, surfaceValid, extent, slot, fbSize, phase, imageIndex, front,
                    presents, shape, failures>>
    BY DEF GpuExecutes, device, frame
  <1>2. /\ queue # <<>> /\ queue' = Tail(queue)
        /\ inFlight' = [s \in Slots |-> IF s = f THEN "signaled" ELSE inFlight[s]]
    BY DEF GpuExecutes
  <1>3. queue \in Seq(Submission) /\ Len(queue) \in Nat \ {0} /\ f = queue[1].slot
    BY <1>2, EmptySeq, LenProperties, HeadTailProperties DEF DisplayTypeOK
  <1>4. /\ queue' \in Seq(Submission) /\ Len(queue') = Len(queue) - 1
        /\ \A i \in 1..Len(queue') : queue'[i] = queue[i + 1]
    BY <1>2, <1>3, HeadTailProperties
  <1>5. OneFramePerSlot'
    BY <1>3, <1>4 DEF Fences, OneFramePerSlot
  <1>6. \A s \in Slots : InQueue(s)' <=> InQueue(s) /\ s # f
    <2> SUFFICES ASSUME NEW s \in Slots PROVE InQueue(s)' <=> InQueue(s) /\ s # f
      OBVIOUS
    <2>1. ASSUME InQueue(s)' PROVE InQueue(s) /\ s # f
      <3>1. PICK i \in 1..Len(queue') : queue'[i].slot = s
        BY <2>1 DEF InQueue
      <3>2. i + 1 \in 1..Len(queue) /\ i + 1 # 1 /\ queue[i + 1].slot = s
        BY <1>3, <1>4, <3>1
      <3>3. s # f
        BY <1>3, <3>2 DEF Fences, OneFramePerSlot
      <3> QED
        BY <3>2, <3>3 DEF InQueue
    <2>2. ASSUME InQueue(s), s # f PROVE InQueue(s)'
      <3>1. PICK i \in 1..Len(queue) : queue[i].slot = s
        BY <2>2 DEF InQueue
      <3>2. i - 1 \in 1..Len(queue') /\ queue'[i - 1].slot = s
        BY <1>3, <1>4, <2>2, <3>1
      <3> QED
        BY <3>2 DEF InQueue
    <2> QED
      BY <2>1, <2>2
  <1>7. (NoFenceIsStuck /\ QueueHoldsFence)'
    BY <1>2, <1>6 DEF Fences, NoFenceIsStuck, QueueHoldsFence
  <1>8. DisplayTypeOK'
    BY <1>1, <1>2, <1>4 DEF DisplayTypeOK
  <1>9. (SwapchainIsWhole /\ FencesAreWhole /\ AtPlace)'
    <2>1. \A s \in Slots : inFlight'[s] = "none" <=> inFlight[s] = "none"
      <3>1. f \in Slots => inFlight[f] = "unsignaled"
        BY <1>3 DEF Fences, QueueHoldsFence, InQueue
      <3> QED
        BY <1>2, <3>1
    <2>2. slot \in Slots
      BY DEF DisplayTypeOK
    <2> QED
      BY <1>1, <1>2, <2>1, <2>2 DEF SwapchainIsWhole, FencesAreWhole, AtPlace
  <1> QED
    BY <1>5, <1>7, <1>8, <1>9 DEF Fences

LEMMA ShowKeeps ==
  ASSUME DisplayInv, Show
  PROVE  DisplayInv'
  <1> USE DEF DisplayInv
  <1>1. UNCHANGED <<stage, window, chain, inFlight, surfaceValid, extent, slot, fbSize, phase, imageIndex,
                    front, queue, shape, failures>>
    BY DEF Show, device, frame
  <1>2. presents' \in Seq(Images)
    BY HeadTailProperties DEF Show, DisplayTypeOK
  <1>3. images' \in [Images -> {"none", "free", "acquired", "queued", "shown"}]
    BY DEF Show, DisplayTypeOK
  <1>4. DisplayTypeOK'
    BY <1>1, <1>2, <1>3 DEF DisplayTypeOK
  <1> QED
    BY <1>1, <1>4, FencesUnchanged DEF SwapchainIsWhole, AtPlace, FencesAreWhole

LEMMA ResizeWindowKeeps ==
  ASSUME DisplayInv, ResizeWindow
  PROVE  DisplayInv'
  <1> USE DEF DisplayInv
  <1>1. UNCHANGED <<stage, window, chain, images, inFlight, surfaceValid, extent, slot, fbSize, phase,
                    imageIndex, front, queue, presents, failures>>
    BY DEF ResizeWindow, device, objects, frame, gpu
  <1>2. DisplayTypeOK'
    BY <1>1 DEF ResizeWindow, DisplayTypeOK
  <1> QED
    BY <1>1, <1>2, FencesUnchanged DEF SwapchainIsWhole, AtPlace, FencesAreWhole

----------------------------------------------------------------------------
(* The theorems *)

\* Every step keeps the invariant.
LEMMA StepDisplayInv == DisplayInv /\ [DisplayNext]_displayVars => DisplayInv'
  <1> SUFFICES ASSUME DisplayInv, [DisplayNext]_displayVars PROVE DisplayInv'
    OBVIOUS
  <1>1. CASE UNCHANGED displayVars
    BY <1>1, DisplayUnchanged
  <1>2. CASE \E w \in Windows : OnSurfaceAvailable(w)
    BY <1>2, AvailableKeeps
  <1>3. CASE \E f \in Fronts \cup {Clear} : Begin(f)
    BY <1>3, BeginKeeps
  <1>4. CASE Presenter
    BY <1>4, ResizeFrontKeeps, WaitForFenceKeeps, AcquireKeeps, RecordFailsKeeps, SubmitKeeps,
       PresentKeeps DEF Presenter
  <1> QED
    BY <1>1, <1>2, <1>3, <1>4, LostKeeps, AcquireFailsKeeps, GpuExecutesKeeps, ShowKeeps,
       ResizeWindowKeeps DEF DisplayNext

THEOREM DisplayInvariant == DisplaySpec => []DisplayInv
  BY InitDisplayInv, StepDisplayInv, PTL DEF DisplaySpec

\* The types of all variables, whatever the compositor, the GPU and the window do.
THEOREM DisplayTypeCorrect == DisplaySpec => []DisplayTypeOK
  <1>1. DisplayInv => DisplayTypeOK
    BY DEF DisplayInv
  <1> QED
    BY <1>1, DisplayInvariant, PTL

\* A valid surface has a whole swapchain, and a present finds one at each of its steps.
THEOREM SwapchainWhole == DisplaySpec => []SwapchainIsWhole
  <1>1. DisplayInv => SwapchainIsWhole
    BY DEF DisplayInv
  <1> QED
    BY <1>1, DisplayInvariant, PTL

\* vkWaitForFences never waits for a fence that no submission will signal.
THEOREM FencesAreSignaled == DisplaySpec => []NoFenceIsStuck
  <1>1. DisplayInv => NoFenceIsStuck
    BY DEF DisplayInv, Fences
  <1> QED
    BY <1>1, DisplayInvariant, PTL

\* No slot has two submissions with the GPU.
THEOREM OnePerSlot == DisplaySpec => []OneFramePerSlot
  <1>1. DisplayInv => OneFramePerSlot
    BY DEF DisplayInv, Fences
  <1> QED
    BY <1>1, DisplayInvariant, PTL

\* What the surface and the frame do at a step is what graphics_backend.h promises, or nothing it
\* speaks of.
LEMMA StepKeepsPromise == DisplayInv /\ DisplayInv' /\ [DisplayNext]_displayVars => [Promise!Next]_(Promise!vars)
  <1> SUFFICES ASSUME DisplayInv, DisplayInv', [DisplayNext]_displayVars PROVE [Promise!Next]_(Promise!vars)
    OBVIOUS
  <1> DEFINE att == IF surfaceValid THEN window ELSE NoWindow
  <1> DEFINE bsy == phase # "idle"
  <1>0. /\ DisplayTypeOK /\ DisplayTypeOK' /\ SwapchainIsWhole /\ SwapchainIsWhole'
    BY DEF DisplayInv
  <1>1. ASSUME att' = att, bsy' = bsy PROVE [Promise!Next]_(Promise!vars)
    BY <1>1 DEF Promise!vars
  <1>2. CASE UNCHANGED displayVars
    <2>1. att' = att /\ bsy' = bsy
      BY <1>2 DEF displayVars, device, objects, frame
    <2> QED
      BY <1>1, <2>1
  <1>3. ASSUME NEW w \in Windows, OnSurfaceAvailable(w) PROVE [Promise!Next]_(Promise!vars)
    <2>1. ~bsy /\ ~bsy'
      BY <1>3 DEF OnSurfaceAvailable, frame
    <2>2. att' \in {w, NoWindow} \/ att' = att
      <3>1. CASE stage = "none" /\ UNCHANGED <<device, objects, extent, fbSize, gpu>>
        BY <3>1 DEF device, objects
      <3>2. CASE stage = "device" /\ window = w /\ CreateAgain
        BY <3>2 DEF CreateAgain
      <3>3. CASE Rebuild(w)
        BY <3>3 DEF Rebuild, Destroyed
      <3> QED
        BY <1>3, <3>1, <3>2, <3>3 DEF OnSurfaceAvailable
    <2>3. CASE att' \in {w, NoWindow}
      <3>1. Promise!Available(w)
        BY <2>1, <2>3 DEF Promise!Available
      <3> QED
        BY <3>1 DEF Promise!Next
    <2> QED
      BY <1>1, <2>1, <2>2, <2>3
  <1>4. CASE OnSurfaceLost
    <2>1. ~bsy /\ ~bsy' /\ att' = NoWindow
      BY <1>4 DEF OnSurfaceLost, Destroyed, frame
    <2> QED
      BY <2>1 DEF Promise!Lost, Promise!Next
  <1>5. ASSUME NEW f \in Fronts \cup {Clear}, Begin(f) PROVE [Promise!Next]_(Promise!vars)
    <2>1. ~bsy /\ bsy' /\ att # NoWindow /\ att' = att
      BY <1>0, <1>5, Sentinels DEF Begin, SwapchainIsWhole, device, objects
    <2> QED
      BY <2>1 DEF Promise!Begin, Promise!Next
  <1>6. CASE Presenter \/ AcquireFails
    <2>1. bsy
      BY <1>6 DEF Presenter, AcquireFails, ResizeFront, WaitForFence, Acquire, RecordFails, Submit,
         Present
    <2>2. window' = window
      BY <1>6 DEF Presenter, AcquireFails, ResizeFront, WaitForFence, Acquire, RecordFails, Submit,
         Present, device
    <2>3. surfaceValid /\ (bsy' => surfaceValid')
      BY <1>0, <2>1 DEF SwapchainIsWhole
    <2>4. att' \in {att, NoWindow} /\ (bsy' => att' = att)
      BY <2>2, <2>3
    <2>5. CASE bsy'
      BY <1>1, <2>1, <2>4, <2>5
    <2>6. CASE ~bsy'
      BY <2>1, <2>4, <2>6 DEF Promise!End, Promise!Next
    <2> QED
      BY <2>5, <2>6
  <1>7. CASE GpuExecutes \/ Show \/ ResizeWindow
    <2>1. att' = att /\ bsy' = bsy
      BY <1>7 DEF GpuExecutes, Show, ResizeWindow, device, objects, frame
    <2> QED
      BY <1>1, <2>1
  <1> QED
    BY <1>2, <1>3, <1>4, <1>5, <1>6, <1>7 DEF DisplayNext

\* The safety of SurfaceBackend: the backend presents to the window it was last given, and its
\* surface never changes under a present.  That every present ends stays with the run.
THEOREM KeepsPromise == DisplaySpec => Promise!Init /\ [][Promise!Next]_(Promise!vars)
  <1>1. DisplayInit => Promise!Init
    BY DEF DisplayInit, Promise!Init
  <1> QED
    BY <1>1, DisplayInvariant, StepKeepsPromise, PTL DEF DisplaySpec

=============================================================================
