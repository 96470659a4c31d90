---------------------------- MODULE Virtq_proofs ----------------------------
(***************************************************************************)
(* Facts about the indices of a virtqueue, for every index width and every *)
(* queue size.                                                             *)
(***************************************************************************)
EXTENDS Virtq, SequenceTheorems, TLAPS

(* The remainder is the r of any way to write x as q * Q + r with r < Q. *)
LEMMA ModUnique ==
  ASSUME NEW Q \in Nat \ {0}, NEW q \in Int, NEW r \in 0 .. Q - 1
  PROVE  (Q * q + r) % Q = r
<1> DEFINE x == Q * q + r
           d == q - (x \div Q)
<1>1. x \in Int /\ x % Q \in 0 .. Q - 1 /\ x = (Q * (x \div Q)) + (x % Q)
  OBVIOUS
<1>2. d \in Int /\ Q * d = (x % Q) - r
  BY <1>1
<1>3. d = 0
  <2>1. CASE d >= 1
    <3>1. Q * d >= Q  BY <2>1, <1>2
    <3> QED  BY <3>1, <1>1, <1>2
  <2>2. CASE d <= -1
    <3>1. Q * d <= -Q  BY <2>2, <1>2
    <3> QED  BY <3>1, <1>1, <1>2
  <2> QED  BY <2>1, <2>2, <1>2
<1> QED  BY <1>1, <1>2, <1>3

(* Two numbers less than Q apart that share a remainder are equal. *)
LEMMA ModInjective ==
  ASSUME NEW Q \in Nat \ {0}, NEW u \in Int, NEW v \in Int,
         u <= v, v - u < Q, u % Q = v % Q
  PROVE  u = v
<1> DEFINE d == (v \div Q) - (u \div Q)
<1>1. /\ u = (Q * (u \div Q)) + (u % Q)
      /\ v = (Q * (v \div Q)) + (v % Q)
  OBVIOUS
<1>2. d \in Int /\ v - u = Q * d
  BY <1>1
<1>3. d < 1
  <2>1. ASSUME d >= 1 PROVE FALSE
    <3>1. Q * d >= Q  BY <2>1, <1>2
    <3> QED  BY <3>1, <1>2
  <2> QED  BY <2>1, <1>2
<1>4. d > -1
  <2>1. ASSUME d <= -1 PROVE FALSE
    <3>1. Q * d <= -Q  BY <2>1, <1>2
    <3> QED  BY <3>1, <1>2
  <2> QED  BY <2>1, <1>2
<1> QED  BY <1>2, <1>3, <1>4

(* A uint16_t increment either adds one or wraps to zero. *)
LEMMA IncLinear ==
  ASSUME NEW i \in Indices
  PROVE  Inc(i) = IF i + 1 = IDX THEN 0 ELSE i + 1
<1>1. CASE i + 1 = IDX
  <2>1. (IDX * 1 + 0) % IDX = 0  BY ModUnique, IdxAssumption
  <2> QED  BY <1>1, <2>1, IdxAssumption DEF Inc
<1>2. CASE i + 1 # IDX
  <2>1. (IDX * 0 + (i + 1)) % IDX = i + 1
    BY <1>2, ModUnique, IdxAssumption DEF Indices
  <2> QED  BY <1>2, <2>1, IdxAssumption DEF Inc, Indices
<1> QED  BY <1>1, <1>2

(* The distance of two indices is their difference, plus one turn if negative. *)
LEMMA DistLinear ==
  ASSUME NEW a \in Indices, NEW b \in Indices
  PROVE  Dist(a, b) = IF b >= a THEN b - a ELSE b - a + IDX
<1>1. CASE b >= a
  <2>1. (IDX * 0 + (b - a)) % IDX = b - a
    BY <1>1, ModUnique, IdxAssumption DEF Indices
  <2> QED  BY <1>1, <2>1, IdxAssumption DEF Dist, Indices
<1>2. CASE ~ (b >= a)
  <2>1. (IDX * (-1) + (b - a + IDX)) % IDX = b - a + IDX
    BY <1>2, ModUnique, IdxAssumption DEF Indices
  <2>2. IDX * (-1) + (b - a + IDX) = b - a
    BY IdxAssumption DEF Indices
  <2> QED  BY <1>2, <2>1, <2>2, IdxAssumption DEF Dist, Indices
<1> QED  BY <1>1, <1>2

(* Only equal indices are at distance 0. *)
LEMMA DistPositive ==
  ASSUME NEW a \in Indices, NEW b \in Indices
  PROVE  /\ Dist(a, b) \in 0 .. IDX - 1
         /\ Inc(a) \in Indices
         /\ Dist(a, b) = 0 <=> a = b
BY DistLinear, IncLinear, IdxAssumption DEF Indices

(* Nothing lies between an index and itself. *)
LEMMA WindowEmpty ==
  ASSUME NEW a \in Indices
  PROVE  Dist(a, a) = 0 /\ Window(a, a) = {}
<1>1. Dist(a, a) = 0  BY DistLinear, IdxAssumption DEF Indices
<1>2. \A i \in Indices : ~ (Dist(a, i) < 0)
  BY DistPositive, IdxAssumption
<1> QED  BY <1>1, <1>2 DEF Window

(* The writer's increment adds its old index to the window. *)
LEMMA WindowPush ==
  ASSUME NEW a \in Indices, NEW b \in Indices, Dist(a, b) < IDX - 1
  PROVE  /\ Dist(a, Inc(b)) = Dist(a, b) + 1
         /\ Window(a, Inc(b)) = Window(a, b) \cup {b}
         /\ b \notin Window(a, b)
<1>1. Inc(b) \in Indices  BY DistPositive
<1>2. Dist(a, Inc(b)) = Dist(a, b) + 1
  BY <1>1, DistLinear, IncLinear, IdxAssumption DEF Indices
<1>3. ASSUME NEW i \in Indices
      PROVE  Dist(a, i) < Dist(a, b) + 1 <=> (Dist(a, i) < Dist(a, b) \/ i = b)
  <2>1. Dist(a, i) \in Int /\ Dist(a, b) \in Int  BY DistPositive
  <2>2. Dist(a, i) = IF i >= a THEN i - a ELSE i - a + IDX
    BY DistLinear
  <2>3. Dist(a, b) = IF b >= a THEN b - a ELSE b - a + IDX
    BY DistLinear
  <2>4. Dist(a, i) = Dist(a, b) => i = b
    BY <2>2, <2>3, IdxAssumption DEF Indices
  <2> QED  BY <2>1, <2>4
<1>4. ~ (Dist(a, b) < Dist(a, b))  BY DistPositive DEF Indices
<1> QED  BY <1>2, <1>3, <1>4 DEF Window

(* The reader's increment removes its old index from the window. *)
LEMMA WindowPop ==
  ASSUME NEW a \in Indices, NEW b \in Indices, a # b
  PROVE  /\ Dist(Inc(a), b) = Dist(a, b) - 1
         /\ Window(Inc(a), b) = Window(a, b) \ {a}
         /\ a \in Window(a, b)
<1>1. Inc(a) \in Indices  BY DistPositive
<1>2. Dist(Inc(a), b) = Dist(a, b) - 1
  BY <1>1, DistLinear, IncLinear, IdxAssumption DEF Indices
<1>3. Dist(a, a) = 0 /\ Dist(a, b) > 0
  BY DistLinear, IdxAssumption DEF Indices
<1>4. \A i \in Indices : i # a => Dist(Inc(a), i) = Dist(a, i) - 1
  BY <1>1, DistLinear, IncLinear, IdxAssumption DEF Indices
<1>5. Dist(Inc(a), a) = IDX - 1
  BY <1>1, DistLinear, IncLinear, IdxAssumption DEF Indices
<1>6. \A i \in Indices : Dist(a, i) \in Int
  BY DistPositive
<1>7. Dist(a, b) < IDX
  BY DistPositive, IdxAssumption
<1>8. \A i \in Indices : Dist(Inc(a), i) < Dist(Inc(a), b) <=> Dist(a, i) < Dist(a, b) /\ i # a
  BY <1>2, <1>4, <1>5, <1>6, <1>7, IdxAssumption
<1>9. a \in Window(a, b)  BY <1>3 DEF Window
<1>10. Window(Inc(a), b) = Window(a, b) \ {a}
  BY <1>8, Zenon DEF Window
<1> QED  BY <1>2, <1>9, <1>10

(* No two indices of a window that is no longer than the ring share a slot: *)
(* an entry is never overwritten before its reader has passed it.           *)
LEMMA SlotInjective ==
  ASSUME NEW qsz \in Nat \ {0}, IDX % qsz = 0,
         NEW a \in Indices, NEW b \in Indices, Dist(a, b) <= qsz,
         NEW i \in Window(a, b), NEW j \in Window(a, b),
         Slot(i, qsz) = Slot(j, qsz)
  PROVE  i = j
<1> DEFINE m == IDX \div qsz
           off(k) == a + Dist(a, k)
<1>1. m \in Int /\ IDX = qsz * m
  <2>1. IDX = (qsz * (IDX \div qsz)) + (IDX % qsz)  BY IdxAssumption
  <2> QED  BY <2>1, IdxAssumption
<1>2. i \in Indices /\ j \in Indices /\ Dist(a, i) < qsz /\ Dist(a, j) < qsz
  <2>1. i \in Indices /\ j \in Indices /\ Dist(a, i) < Dist(a, b) /\ Dist(a, j) < Dist(a, b)
    BY DEF Window
  <2> QED  BY <2>1, DistPositive, IdxAssumption
<1>3. ASSUME NEW k \in Indices
      PROVE  off(k) \in Int /\ (off(k) = k \/ off(k) = k + IDX)
  BY DistLinear, IdxAssumption DEF Indices
<1>4. ASSUME NEW k \in Indices
      PROVE  off(k) % qsz = k % qsz
  <2> DEFINE q == k \div qsz
             r == k % qsz
  <2>1. q \in Int /\ r \in 0 .. qsz - 1 /\ k = (qsz * q) + r
    BY DEF Indices
  <2>2. CASE off(k) = k  BY <2>2
  <2>3. CASE off(k) = k + IDX
    <3>1. k + IDX = (qsz * (q + m)) + r
      <4> HIDE DEF q, r, m
      <4>1. qsz * (q + m) = (qsz * q) + (qsz * m)  BY <2>1, <1>1
      <4> QED  BY <4>1, <2>1, <1>1
    <3>2. q + m \in Int  BY <2>1, <1>1
    <3>3. ((qsz * (q + m)) + r) % qsz = r  BY <2>1, <3>2, ModUnique
    <3> QED  BY <2>3, <3>1, <3>3
  <2> QED  BY <2>2, <2>3, <1>3
<1>5. off(i) % qsz = off(j) % qsz  BY <1>2, <1>4 DEF Slot
<1>6. Dist(a, i) \in Int /\ Dist(a, j) \in Int /\ Dist(a, i) >= 0 /\ Dist(a, j) >= 0
  BY <1>2, DistPositive
<1>7. a \in Int  BY DEF Indices
<1>8. off(i) = off(j)
  <2>1. CASE off(i) <= off(j)
    <3>1. off(j) - off(i) < qsz  BY <1>2, <1>6, <1>7
    <3> HIDE DEF off
    <3> QED  BY <2>1, <3>1, <1>2, <1>3, <1>5, ModInjective
  <2>2. CASE off(j) <= off(i)
    <3>1. off(i) - off(j) < qsz  BY <1>2, <1>6, <1>7
    <3> HIDE DEF off
    <3> QED  BY <2>2, <3>1, <1>2, <1>3, <1>5, ModInjective
  <2> QED  BY <2>1, <2>2, <1>6, <1>7
<1>9. Dist(a, i) = Dist(a, j)  BY <1>8, <1>6, <1>7
<1> QED  BY <1>9, <1>2, DistLinear, IdxAssumption DEF Indices

-----------------------------------------------------------------------------
(* What a ring holds between two indices, step by step                     *)

(* A ring with no index between reader and writer holds nothing.           *)
LEMMA EntriesEmpty ==
  ASSUME NEW ring, NEW qsz, NEW a \in Indices
  PROVE  Entries(ring, a, a, qsz) = {} /\ NoRepeat(ring, a, a, qsz)
BY WindowEmpty DEF Entries, NoRepeat

(* A slot of the ring is one of its entries.                                *)
LEMMA SlotInRing ==
  ASSUME NEW qsz \in Nat \ {0}, NEW i \in Indices
  PROVE  Slot(i, qsz) \in 0 .. qsz - 1
BY DEF Slot, Indices

(* While a ring is not full, the slot behind its window is none of its own. *)
LEMMA WindowSlots ==
  ASSUME NEW qsz \in Nat \ {0}, IDX % qsz = 0,
         NEW a \in Indices, NEW b \in Indices,
         Dist(a, b) < qsz, Dist(a, b) < IDX - 1,
         NEW i \in Window(a, b)
  PROVE  Slot(i, qsz) # Slot(b, qsz) /\ Slot(i, qsz) \in 0 .. qsz - 1
<1>1. /\ Dist(a, Inc(b)) = Dist(a, b) + 1
      /\ Window(a, Inc(b)) = Window(a, b) \cup {b}
      /\ b \notin Window(a, b)
  BY WindowPush
<1>2. Dist(a, Inc(b)) <= qsz /\ Inc(b) \in Indices
  <2>1. Dist(a, b) \in 0 .. IDX - 1 /\ Inc(b) \in Indices  BY DistPositive
  <2>2. Dist(a, b) \in Int  BY <2>1, IdxAssumption
  <2> QED  BY <1>1, <2>1, <2>2
<1>3. i # b /\ i \in Indices  BY <1>1 DEF Window
<1>4. Slot(i, qsz) # Slot(b, qsz)
  BY <1>1, <1>2, <1>3, SlotInjective
<1>5. Slot(i, qsz) \in 0 .. qsz - 1
  BY <1>3, SlotInRing
<1> QED  BY <1>4, <1>5

(* Writing the entry at the writer's index leaves those before it alone.   *)
LEMMA EntriesWrite ==
  ASSUME NEW qsz \in Nat \ {0}, IDX % qsz = 0, NEW S, NEW e \in S,
         NEW ring \in [0 .. qsz - 1 -> S],
         NEW a \in Indices, NEW b \in Indices,
         Dist(a, b) < qsz, Dist(a, b) < IDX - 1
  PROVE  LET r2 == [ring EXCEPT ![Slot(b, qsz)] = e] IN
         /\ r2[Slot(b, qsz)] = e
         /\ Entries(r2, a, b, qsz) = Entries(ring, a, b, qsz)
         /\ NoRepeat(ring, a, b, qsz) => NoRepeat(r2, a, b, qsz)
<1> DEFINE r2 == [ring EXCEPT ![Slot(b, qsz)] = e]
<1>1. ASSUME NEW i \in Window(a, b)
      PROVE  r2[Slot(i, qsz)] = ring[Slot(i, qsz)]
  BY WindowSlots
<1>2. r2[Slot(b, qsz)] = e
  BY SlotInRing
<1>3. Entries(r2, a, b, qsz) = Entries(ring, a, b, qsz)
  BY <1>1 DEF Entries
<1>4. NoRepeat(ring, a, b, qsz) => NoRepeat(r2, a, b, qsz)
  BY <1>1 DEF NoRepeat
<1> QED  BY <1>2, <1>3, <1>4

(* Moving the writer's index publishes the entry at its old place.         *)
LEMMA EntriesPush ==
  ASSUME NEW qsz \in Nat \ {0}, NEW ring,
         NEW a \in Indices, NEW b \in Indices, Dist(a, b) < IDX - 1
  PROVE  LET e == ring[Slot(b, qsz)] IN
         /\ Entries(ring, a, Inc(b), qsz) = Entries(ring, a, b, qsz) \cup {e}
         /\ NoRepeat(ring, a, b, qsz) /\ e \notin Entries(ring, a, b, qsz)
              => NoRepeat(ring, a, Inc(b), qsz)
<1>1. Window(a, Inc(b)) = Window(a, b) \cup {b}
  BY WindowPush
<1> QED  BY <1>1 DEF Entries, NoRepeat

(* Moving the reader's index takes the entry at its old place out.         *)
LEMMA EntriesPop ==
  ASSUME NEW qsz \in Nat \ {0}, NEW ring,
         NEW a \in Indices, NEW b \in Indices, a # b,
         NoRepeat(ring, a, b, qsz)
  PROVE  LET e == ring[Slot(a, qsz)] IN
         /\ e \in Entries(ring, a, b, qsz)
         /\ Entries(ring, Inc(a), b, qsz) = Entries(ring, a, b, qsz) \ {e}
         /\ NoRepeat(ring, Inc(a), b, qsz)
<1>1. Window(Inc(a), b) = Window(a, b) \ {a} /\ a \in Window(a, b)
  BY WindowPop
<1> QED  BY <1>1 DEF Entries, NoRepeat

-----------------------------------------------------------------------------
(* Walking along a ring: several increments at once                        *)

(* n increments after b, as long as the writer is not a turn ahead of a.    *)
LEMMA WalkFrom ==
  ASSUME NEW a \in Indices, NEW b \in Indices, NEW n \in Nat, Dist(a, b) + n < IDX
  PROVE  /\ (b + n) % IDX \in Indices
         /\ Dist(a, (b + n) % IDX) = Dist(a, b) + n
<1>1. n < IDX
  BY DistPositive, IdxAssumption
<1>2. CASE b + n < IDX
  <2>1. (IDX * 0 + (b + n)) % IDX = b + n
    BY <1>2, ModUnique, IdxAssumption DEF Indices
  <2>2. (b + n) % IDX = b + n
    BY <2>1, IdxAssumption DEF Indices
  <2> QED  BY <1>2, <2>2, DistLinear, IdxAssumption DEF Indices
<1>3. CASE b + n >= IDX
  <2>1. (IDX * 1 + (b + n - IDX)) % IDX = b + n - IDX
    BY <1>1, <1>3, ModUnique, IdxAssumption DEF Indices
  <2>2. (b + n) % IDX = b + n - IDX
    BY <2>1, IdxAssumption DEF Indices
  <2> QED  BY SMTT(60), <1>1, <1>3, <2>2, DistLinear, IdxAssumption DEF Indices
<1> QED  BY <1>2, <1>3, IdxAssumption DEF Indices

(* One more increment, whatever came before.                                *)
LEMMA IncOfSum ==
  ASSUME NEW b \in Indices, NEW n \in Nat, n < IDX
  PROVE  Inc((b + n) % IDX) = (b + (n + 1)) % IDX
<1> DEFINE m == (b + n) % IDX
<1>1. CASE b + n < IDX
  <2>1. (IDX * 0 + (b + n)) % IDX = b + n
    BY <1>1, ModUnique, IdxAssumption DEF Indices
  <2>2. m = b + n
    BY <2>1, IdxAssumption DEF Indices
  <2> QED  BY <2>2, IdxAssumption DEF Indices, Inc
<1>2. CASE b + n >= IDX
  <2>1. (IDX * 1 + (b + n - IDX)) % IDX = b + n - IDX
    BY <1>2, ModUnique, IdxAssumption DEF Indices
  <2>2. m = b + n - IDX /\ m \in Indices
    BY <1>2, <2>1, IdxAssumption DEF Indices
  <2>3. Inc(m) = IF m + 1 = IDX THEN 0 ELSE m + 1
    BY <2>2, IncLinear
  <2>4. CASE m + 1 = IDX
    <3>1. (IDX * 2 + 0) % IDX = 0  BY ModUnique, IdxAssumption
    <3> QED  BY <2>2, <2>3, <2>4, <3>1, IdxAssumption DEF Indices
  <2>5. CASE m + 1 # IDX
    <3>1. (IDX * 1 + (m + 1)) % IDX = m + 1
      BY <2>2, <2>5, ModUnique, IdxAssumption DEF Indices
    <3> QED  BY <2>2, <2>3, <2>5, <3>1, IdxAssumption DEF Indices
  <2> QED  BY <2>4, <2>5
<1> QED  BY <1>1, <1>2, IdxAssumption DEF Indices

(* No increment: an index is its own remainder.                             *)
LEMMA ModOfIndex ==
  ASSUME NEW b \in Indices
  PROVE  (b + 0) % IDX = b /\ b % IDX = b
<1>1. (IDX * 0 + b) % IDX = b
  BY ModUnique, IdxAssumption DEF Indices
<1> QED  BY <1>1, IdxAssumption DEF Indices

(* The k-th index of a window: they are all there, the writer's is the next *)
(* one, and the reader's increment shifts them by one.                      *)
LEMMA WindowWalk ==
  ASSUME NEW a \in Indices, NEW b \in Indices
  PROVE  /\ \A k \in 1 .. Dist(a, b) : (a + k - 1) % IDX \in Window(a, b)
         /\ (a + (Dist(a, b) + 1) - 1) % IDX = b
         /\ \A k \in 1 .. Dist(a, b) : (Inc(a) + k - 1) % IDX = (a + (k + 1) - 1) % IDX
<1> DEFINE d == Dist(a, b)
<1>1. d \in 0 .. IDX - 1 /\ d \in Nat /\ Dist(a, a) = 0
  BY DistPositive, IdxAssumption
<1>2. ASSUME NEW k \in 1 .. d
      PROVE  (a + k - 1) % IDX \in Window(a, b)
  <2>1. k - 1 \in Nat /\ Dist(a, a) + (k - 1) < IDX  BY <1>1, IdxAssumption
  <2> HIDE DEF d
  <2>2. /\ (a + (k - 1)) % IDX \in Indices
        /\ Dist(a, (a + (k - 1)) % IDX) = Dist(a, a) + (k - 1)
    BY <2>1, WalkFrom
  <2>3. a + (k - 1) = a + k - 1  BY <1>1 DEF Indices
  <2>4. Dist(a, a) + (k - 1) < d  BY <1>1
  <2> QED  BY <2>2, <2>3, <2>4 DEF Window, d
<1>3. (a + (d + 1) - 1) % IDX = b
  <2>1. CASE b >= a
    <3>1. d = b - a  BY <2>1, DistLinear
    <3>2. a + (d + 1) - 1 = b  BY <3>1 DEF Indices
    <3> QED  BY <3>2, ModOfIndex
  <2>2. CASE b < a
    <3>1. d = b - a + IDX  BY <2>2, DistLinear DEF Indices
    <3>2. a + (d + 1) - 1 = (IDX * 1) + b  BY <3>1, IdxAssumption DEF Indices
    <3>3. ((IDX * 1) + b) % IDX = b  BY ModUnique, IdxAssumption DEF Indices
    <3> QED  BY <3>2, <3>3
  <2> QED  BY <2>1, <2>2 DEF Indices
<1>4. ASSUME NEW k \in 1 .. d
      PROVE  (Inc(a) + k - 1) % IDX = (a + (k + 1) - 1) % IDX
  <2>1. k \in Nat /\ k >= 1 /\ k < IDX  BY <1>1, IdxAssumption
  <2>2. CASE a + 1 = IDX
    <3>1. Inc(a) = 0  BY <2>2, IncLinear
    <3>2. Inc(a) + k - 1 = k - 1 /\ a + (k + 1) - 1 = (IDX * 1) + (k - 1)
      BY <2>1, <2>2, <3>1, IdxAssumption DEF Indices
    <3>3. ((IDX * 1) + (k - 1)) % IDX = k - 1  BY <2>1, ModUnique, IdxAssumption
    <3>4. (k - 1) % IDX = k - 1
      <4>1. k - 1 \in Indices  BY <2>1, IdxAssumption DEF Indices
      <4> QED  BY <4>1, ModOfIndex
    <3> QED  BY <3>2, <3>3, <3>4
  <2>3. CASE a + 1 # IDX
    <3>1. Inc(a) = a + 1  BY <2>3, IncLinear
    <3>2. Inc(a) + k - 1 = a + (k + 1) - 1  BY <2>1, <3>1 DEF Indices
    <3> QED  BY <3>2
  <2> QED  BY <2>2, <2>3
<1> QED  BY <1>2, <1>3, <1>4

(* Every index of a window is met on the way.                               *)
LEMMA WindowIsWalk ==
  ASSUME NEW a \in Indices, NEW b \in Indices, NEW i \in Window(a, b)
  PROVE  \E k \in 1 .. Dist(a, b) : i = (a + k - 1) % IDX
<1> DEFINE d == Dist(a, i)
<1>1. i \in Indices /\ d < Dist(a, b)
  BY DEF Window
<1>2. d \in 0 .. IDX - 1 /\ Dist(a, b) \in 0 .. IDX - 1
  BY <1>1, DistPositive
<1>3. (a + (d + 1) - 1) % IDX = i
  BY <1>1, WindowWalk
<1>4. d + 1 \in 1 .. Dist(a, b)
  <2> HIDE DEF d
  <2> QED  BY <1>1, <1>2, IdxAssumption
<1> HIDE DEF d
<1> QED  BY <1>3, <1>4

-----------------------------------------------------------------------------
(* A window as a sequence, for the queues the rings implement              *)

(* A function on 1 .. n is a sequence of length n.                          *)
LEMMA WindowSeq ==
  ASSUME NEW S, NEW n \in Nat, NEW s \in [1 .. n -> S]
  PROVE  s \in Seq(S) /\ Len(s) = n
BY SeqDef, LenProperties

(* The reader's step takes the head off.                                    *)
LEMMA WindowTail ==
  ASSUME NEW S, NEW n \in Nat, n > 0, NEW s \in [1 .. n -> S],
         NEW t \in [1 .. n - 1 -> S],
         \A k \in 1 .. n - 1 : t[k] = s[k + 1]
  PROVE  s # << >> /\ Head(s) = s[1] /\ t = Tail(s)
<1>1. s \in Seq(S) /\ Len(s) = n /\ t \in Seq(S) /\ Len(t) = n - 1
  BY WindowSeq
<1>2. s # << >>
  BY <1>1, EmptySeq
<1>3. /\ Head(s) = s[1] /\ Tail(s) \in Seq(S) /\ Len(Tail(s)) = n - 1
      /\ \A k \in 1 .. n - 1 : Tail(s)[k] = s[k + 1]
  BY <1>1, <1>2, HeadTailProperties
<1>4. t = Tail(s)
  BY <1>1, <1>3, SeqEqual
<1> QED  BY <1>2, <1>3, <1>4

(* The writer's step appends the new entry.                                 *)
LEMMA WindowAppend ==
  ASSUME NEW S, NEW n \in Nat, NEW s \in [1 .. n -> S],
         NEW t \in [1 .. n + 1 -> S],
         \A k \in 1 .. n : t[k] = s[k]
  PROVE  t = Append(s, t[n + 1])
<1>1. s \in Seq(S) /\ Len(s) = n /\ t \in Seq(S) /\ Len(t) = n + 1 /\ t[n + 1] \in S
  BY WindowSeq
<1>2. /\ Append(s, t[n + 1]) \in Seq(S) /\ Len(Append(s, t[n + 1])) = n + 1
      /\ \A k \in 1 .. n : Append(s, t[n + 1])[k] = s[k]
      /\ Append(s, t[n + 1])[n + 1] = t[n + 1]
  BY <1>1, AppendProperties
<1>3. \A k \in 1 .. n + 1 : k \in 1 .. n \/ k = n + 1
  OBVIOUS
<1> QED  BY <1>1, <1>2, <1>3, SeqEqual
=============================================================================
