---------------------------- MODULE Uart_proofs ----------------------------
(***************************************************************************)
(* The serial port's driver is correct for any number of clients, every    *)
(* size of ring and FIFO: UartInductive is an inductive invariant, and the *)
(* ring implements the stream of ByteStream.                               *)
(***************************************************************************)
EXTENDS Uart, FiniteSetTheorems, SequenceTheorems, TLAPS

LEMMA UartSizes ==
  /\ BUF_SIZE \in Nat /\ BUF_SIZE >= 2 /\ FIFO_SIZE \in Nat /\ FIFO_SIZE >= 1
  /\ Slots = 0 .. BUF_SIZE - 1 /\ NoByte \in Bytes
  /\ Reader \in Clients /\ IsFiniteSet(Clients) /\ Cardinality(Clients) \in Nat
<1>1. NoByte \in Bytes  BY UartAssumption DEF NoByte
<1>2. Cardinality(Clients) \in Nat  BY UartAssumption, FS_CardinalityType
<1> QED  BY <1>1, <1>2, UartAssumption DEF Slots

(* A position that has passed the end of the ring once is counted from its *)
(* beginning.                                                              *)
Wrap(x) == IF x < BUF_SIZE THEN x ELSE x - BUF_SIZE

LEMMA Wrapped ==
  ASSUME NEW x \in 0 .. 2 * BUF_SIZE - 1
  PROVE  x % BUF_SIZE = Wrap(x) /\ Wrap(x) \in Slots
<1> DEFINE q == x \div BUF_SIZE
           r == x % BUF_SIZE
<1>1. q \in Int /\ r \in 0 .. BUF_SIZE - 1 /\ x = (BUF_SIZE * q) + r
  BY UartSizes
<1>2. CASE q >= 2
  <2>1. BUF_SIZE * q >= BUF_SIZE * 2  BY <1>1, <1>2, UartSizes
  <2> QED  BY <1>1, <2>1, UartSizes
<1>3. CASE q <= -1
  <2>1. BUF_SIZE * q <= BUF_SIZE * (-1)  BY <1>1, <1>3, UartSizes
  <2> QED  BY <1>1, <2>1, UartSizes
<1>4. CASE q = 0  BY <1>1, <1>4, UartSizes DEF Wrap
<1>5. CASE q = 1  BY <1>1, <1>5, UartSizes DEF Wrap
<1> QED  BY <1>1, <1>2, <1>3, <1>4, <1>5

Rings == [rp : Slots, wp : Slots, data : [Slots -> Bytes]]

(* How many bytes a ring holds, without the remainder; the slot of the     *)
(* k-th one; and the bytes.                                                *)
Held(r) == IF r.wp >= r.rp THEN r.wp - r.rp ELSE r.wp - r.rp + BUF_SIZE
At(r, k) == Wrap(r.rp + k - 1)
ContentsOf(r) == [k \in 1 .. Held(r) |-> r.data[At(r, k)]]

LEMMA HeldLinear ==
  ASSUME NEW r \in Rings
  PROVE  /\ Held(r) \in 0 .. BUF_SIZE - 1
         /\ (r.wp - r.rp + BUF_SIZE) % BUF_SIZE = Held(r)
         /\ \A k \in 1 .. Held(r) : At(r, k) \in Slots /\ (r.rp + k - 1) % BUF_SIZE = At(r, k)
<1>1. r.rp \in 0 .. BUF_SIZE - 1 /\ r.wp \in 0 .. BUF_SIZE - 1
  BY UartSizes DEF Rings
<1>2. r.wp - r.rp + BUF_SIZE \in 0 .. 2 * BUF_SIZE - 1
  BY <1>1, UartSizes
<1>3. Held(r) \in 0 .. BUF_SIZE - 1  BY <1>1, UartSizes DEF Held
<1>4. (r.wp - r.rp + BUF_SIZE) % BUF_SIZE = Held(r)
  <2>1. (r.wp - r.rp + BUF_SIZE) % BUF_SIZE = Wrap(r.wp - r.rp + BUF_SIZE)
    BY <1>2, Wrapped
  <2>2. Wrap(r.wp - r.rp + BUF_SIZE) = Held(r)  BY <1>1, UartSizes DEF Wrap, Held
  <2> QED  BY <2>1, <2>2
<1>5. ASSUME NEW k \in 1 .. Held(r)
      PROVE  At(r, k) \in Slots /\ (r.rp + k - 1) % BUF_SIZE = At(r, k)
  <2>1. r.rp + k - 1 \in 0 .. 2 * BUF_SIZE - 1  BY <1>1, <1>3, UartSizes
  <2> QED  BY <2>1, Wrapped DEF At
<1> QED  BY <1>3, <1>4, <1>5

LEMMA HeldContents ==
  ASSUME NEW r \in Rings
  PROVE  ContentsOf(r) \in Seq(Bytes) /\ Len(ContentsOf(r)) = Held(r)
<1>1. Held(r) \in 0 .. BUF_SIZE - 1 /\ r.data \in [Slots -> Bytes]
  BY HeldLinear, UartSizes DEF Rings
<1>2. \A k \in 1 .. Held(r) : r.data[At(r, k)] \in Bytes  BY <1>1, HeldLinear
<1> QED  BY <1>1, <1>2 DEF ContentsOf

LEMMA RingNow ==
  ASSUME ring \in Rings
  PROVE  Length = Held(ring) /\ Contents = ContentsOf(ring)
<1>1. Length = Held(ring)  BY HeldLinear DEF Length
<1>2. \A k \in 1 .. Length : (ring.rp + k - 1) % BUF_SIZE = At(ring, k)
  BY <1>1, HeldLinear
<1> QED  BY <1>1, <1>2 DEF Contents, ContentsOf

LEMMA RingThen ==
  ASSUME ring' \in Rings
  PROVE  Length' = Held(ring') /\ Contents' = ContentsOf(ring')
<1>1. Length' = Held(ring')  BY HeldLinear DEF Length
<1>2. \A k \in 1 .. Length' : (ring'.rp + k - 1) % BUF_SIZE = At(ring', k)
  BY <1>1, HeldLinear
<1> QED  BY <1>1, <1>2 DEF Contents, ContentsOf

(* Moving rp by n takes n bytes off the front.                             *)
LEMMA Advanced ==
  ASSUME NEW r \in Rings, NEW n \in 0 .. Held(r), NEW s,
         s = [r EXCEPT !.rp = Wrap(r.rp + n)]
  PROVE  /\ s \in Rings /\ Held(s) = Held(r) - n
         /\ ContentsOf(s) = SubSeq(ContentsOf(r), n + 1, Held(r))
<1>1. r.rp \in 0 .. BUF_SIZE - 1 /\ r.wp \in 0 .. BUF_SIZE - 1 /\ r.data \in [Slots -> Bytes]
      /\ Held(r) \in 0 .. BUF_SIZE - 1
  BY HeldLinear, UartSizes DEF Rings
<1>2. r.rp + n \in 0 .. 2 * BUF_SIZE - 1  BY <1>1, UartSizes
<1>3. Wrap(r.rp + n) \in Slots  BY <1>2, Wrapped
<1>4. s \in Rings  BY <1>3 DEF Rings
<1>5. s.rp = Wrap(r.rp + n) /\ s.wp = r.wp /\ s.data = r.data  BY DEF Rings
<1>a. PICK size \in Nat, rp \in Nat, wp \in Nat, held \in Nat, m \in Nat :
        size = BUF_SIZE /\ rp = r.rp /\ wp = r.wp /\ held = Held(r) /\ m = n
  BY <1>1, UartSizes
<1>b. rp < size /\ wp < size /\ m <= held  BY <1>1, <1>a
<1>c. held = IF wp >= rp THEN wp - rp ELSE wp - rp + size  BY <1>a DEF Held
<1>d. PICK next \in Nat : next = IF rp + m < size THEN rp + m ELSE rp + m - size
  <2>1. (IF rp + m < size THEN rp + m ELSE rp + m - size) \in Nat  OBVIOUS
  <2> QED  BY <2>1
<1>e. s.rp = next  BY <1>5, <1>a, <1>d DEF Wrap
<1>6. Held(s) = Held(r) - n
  <2>1. held - m = IF wp >= next THEN wp - next ELSE wp - next + size
    BY <1>b, <1>c, <1>d
  <2>2. Held(s) = IF wp >= next THEN wp - next ELSE wp - next + size
    BY <1>5, <1>a, <1>e DEF Held
  <2> QED  BY <2>1, <2>2, <1>a
<1>7. ASSUME NEW k \in 1 .. Held(s)  PROVE  At(s, k) = At(r, n + k)
  <2>1. PICK i \in Nat : i = k /\ i >= 1 /\ i <= held - m
    <3>1. k \in 1 .. held - m  BY <1>6, <1>a
    <3> QED  BY <3>1
  <2>2. (IF next + i - 1 < size THEN next + i - 1 ELSE next + i - 1 - size)
        = (IF rp + (m + i) - 1 < size THEN rp + (m + i) - 1 ELSE rp + (m + i) - 1 - size)
    BY <1>b, <1>c, <1>d, <2>1
  <2>3. At(s, k) = IF next + i - 1 < size THEN next + i - 1 ELSE next + i - 1 - size
    BY <1>a, <1>e, <2>1 DEF At, Wrap
  <2>4. At(r, n + k) = IF rp + (m + i) - 1 < size THEN rp + (m + i) - 1
                       ELSE rp + (m + i) - 1 - size
    BY <1>a, <2>1 DEF At, Wrap
  <2> QED  BY <2>2, <2>3, <2>4
<1>8. ContentsOf(s) = [k \in 1 .. Held(r) - n |-> ContentsOf(r)[n + k]]
  <2>1. \A k \in 1 .. Held(r) - n : n + k \in 1 .. Held(r)  BY <1>1
  <2>2. \A k \in 1 .. Held(r) - n : r.data[At(s, k)] = ContentsOf(r)[n + k]
    BY <1>6, <1>7, <2>1 DEF ContentsOf
  <2> QED  BY <1>5, <1>6, <2>2 DEF ContentsOf
<1>9. SubSeq(ContentsOf(r), n + 1, Held(r)) = [k \in 1 .. Held(r) - n |-> ContentsOf(r)[n + k]]
  <2> DEFINE rest == SubSeq(ContentsOf(r), n + 1, Held(r))
  <2>1. ContentsOf(r) \in Seq(Bytes) /\ Len(ContentsOf(r)) = Held(r)  BY HeldContents
  <2>2. n + 1 \in Int /\ Held(r) \in Int /\ \A i \in n + 1 .. Held(r) : ContentsOf(r)[i] \in Bytes
    BY <1>1, <2>1, ElementOfSeq
  <2>3. /\ rest \in Seq(Bytes)
        /\ Len(rest) = IF n + 1 <= Held(r) THEN Held(r) - (n + 1) + 1 ELSE 0
        /\ \A i \in 1 .. Held(r) - (n + 1) + 1 : rest[i] = ContentsOf(r)[(n + 1) + i - 1]
    BY <2>2, SubSeqProperties
  <2> HIDE DEF rest
  <2>4. Len(rest) = Held(r) - n  BY <1>1, <2>3
  <2>5. \A i \in 1 .. Held(r) - n : rest[i] = ContentsOf(r)[n + i]
    <3>1. \A i \in 1 .. Held(r) - n : i \in 1 .. Held(r) - (n + 1) + 1 /\ (n + 1) + i - 1 = n + i
      BY <1>1
    <3> QED  BY <2>3, <3>1
  <2>6. rest = [k \in 1 .. Len(rest) |-> rest[k]]  BY <2>3
  <2> QED  BY <2>4, <2>5, <2>6 DEF rest
<1> QED  BY <1>4, <1>6, <1>8, <1>9

(* What Pl011Read copies in two halves is the front of the ring, and the   *)
(* index it writes is behind that.                                         *)
LEMMA ReadTakes ==
  ASSUME ring \in Rings, reader.rp = ring.rp, reader.wp \in Slots,
         reader.size \in 1 .. BUF_SIZE, ReadCount <= Held(ring)
  PROVE  /\ ReadCount \in 0 .. Held(ring) /\ NextRp = Wrap(ring.rp + ReadCount)
         /\ [k \in 1 .. ReadCount |->
               IF k <= UpperHalf THEN ring.data[reader.rp + k - 1]
               ELSE ring.data[k - UpperHalf - 1]] = SubSeq(ContentsOf(ring), 1, ReadCount)
<1>1. ring.rp \in 0 .. BUF_SIZE - 1 /\ Held(ring) \in 0 .. BUF_SIZE - 1
      /\ reader.wp \in 0 .. BUF_SIZE - 1
  BY HeldLinear, UartSizes DEF Rings
<1>2. ReadCount \in 0 .. Held(ring)
  BY SMTT(60), <1>1, UartSizes DEF ReadCount, Least
<1>3. UpperHalf = IF ReadCount < BUF_SIZE - ring.rp THEN ReadCount ELSE BUF_SIZE - ring.rp
  BY DEF UpperHalf, Least
<1>4. NextRp = Wrap(ring.rp + ReadCount)
  BY <1>1, <1>2, <1>3, UartSizes DEF NextRp, LowerHalf, Wrap
<1>5. ASSUME NEW k \in 1 .. ReadCount
      PROVE  ContentsOf(ring)[k] = IF k <= UpperHalf THEN ring.data[reader.rp + k - 1]
                                   ELSE ring.data[k - UpperHalf - 1]
  <2>1. k \in 1 .. Held(ring)  BY <1>1, <1>2
  <2>2. ContentsOf(ring)[k] = ring.data[At(ring, k)]  BY <2>1 DEF ContentsOf
  <2>3. At(ring, k) = IF k <= UpperHalf THEN ring.rp + k - 1 ELSE k - UpperHalf - 1
    BY SMTT(60), <1>1, <1>2, <1>3, <2>1, UartSizes DEF At, Wrap
  <2> QED  BY <2>2, <2>3
<1>6. SubSeq(ContentsOf(ring), 1, ReadCount) = [k \in 1 .. ReadCount |-> ContentsOf(ring)[k]]
  BY <1>1, <1>2, HeldContents
<1> QED  BY <1>2, <1>4, <1>5, <1>6

(* A ring to which bytes of buf were added, the upper ones behind wp and   *)
(* the lower ones at the beginning of the array.                           *)
Added(r, buf, wp, upper, lower) ==
  [rp |-> r.rp,
   wp |-> IF wp + upper >= BUF_SIZE THEN lower ELSE wp + upper,
   data |-> [i \in Slots |-> IF i >= wp /\ i < wp + upper THEN buf[i - wp + 1]
                            ELSE IF i < lower THEN buf[upper + i + 1]
                            ELSE r.data[i]]]

LEMMA AppendedRing ==
  ASSUME NEW r \in Rings, NEW buf \in Seq(Bytes), NEW n \in Nat, NEW s
  PROVE  /\ n <= Len(buf) /\ n + Held(r) < BUF_SIZE
         /\ s = LET upper == Least(n, BUF_SIZE - r.wp)
                IN  Added(r, buf, r.wp, upper, n - upper)
         => /\ s \in Rings /\ Held(s) = Held(r) + n
            /\ ContentsOf(s) = ContentsOf(r) \o SubSeq(buf, 1, n)
<1>a. SUFFICES
        ASSUME n <= Len(buf), n + Held(r) < BUF_SIZE,
               s = Added(r, buf, r.wp, Least(n, BUF_SIZE - r.wp), n - Least(n, BUF_SIZE - r.wp))
        PROVE  /\ s \in Rings /\ Held(s) = Held(r) + n
               /\ ContentsOf(s) = ContentsOf(r) \o SubSeq(buf, 1, n)
  OBVIOUS
<1>b. PICK size \in Nat, length \in Nat, rp \in Nat, wp \in Nat, held \in Nat :
        size = BUF_SIZE /\ length = Len(buf) /\ rp = r.rp /\ wp = r.wp /\ held = Held(r)
  <2>1. BUF_SIZE \in Nat /\ Len(buf) \in Nat /\ r.rp \in Nat /\ r.wp \in Nat /\ Held(r) \in Nat
    BY HeldLinear, UartSizes DEF Rings
  <2> QED  BY <2>1
<1>c. wp < size  BY <1>b, UartSizes DEF Rings
<1>d. PICK upper \in Nat, lower \in Nat :
        /\ upper + lower = n /\ upper = IF n < size - wp THEN n ELSE size - wp
        /\ upper = Least(n, size - wp) /\ lower = n - upper
  <2> DEFINE u == IF n < size - wp THEN n ELSE size - wp
  <2>1. u = Least(n, size - wp)  BY DEF Least
  <2>2. u \in Nat /\ n - u \in Nat /\ u + (n - u) = n  BY <1>c
  <2> HIDE DEF u
  <2>3. u = IF n < size - wp THEN n ELSE size - wp  BY DEF u
  <2> QED  BY <2>1, <2>2, <2>3
<1>0. /\ size = BUF_SIZE /\ length = Len(buf) /\ rp = r.rp /\ wp = r.wp /\ held = Held(r)
      /\ n <= length /\ n + held < size
      /\ upper + lower = n /\ upper = IF n < size - wp THEN n ELSE size - wp
      /\ s = Added(r, buf, wp, upper, lower)
  BY <1>a, <1>b, <1>d
<1>ring. /\ r.data \in [Slots -> Bytes] /\ Slots = 0 .. size - 1
         /\ rp \in Slots /\ wp \in Slots
  BY <1>0, UartSizes DEF Rings
<1>1. rp < size /\ wp < size /\ n <= length /\ n + held < size
  BY SMTT(60), <1>0, <1>ring
<1>half. upper + lower = n /\ upper = IF n < size - wp THEN n ELSE size - wp
  BY <1>0
<1>2. /\ s.rp = rp
      /\ s.wp = IF wp + upper >= size THEN lower ELSE wp + upper
      /\ s.data = [i \in Slots |-> IF i >= wp /\ i < wp + upper THEN buf[i - wp + 1]
                                   ELSE IF i < lower THEN buf[upper + i + 1]
                                   ELSE r.data[i]]
      /\ s = [rp |-> s.rp, wp |-> s.wp, data |-> s.data]
  BY <1>0 DEF Added
<1> DEFINE next == IF wp + upper >= size THEN lower ELSE wp + upper
           Place(k) == Wrap(rp + k - 1)
<1>place. ASSUME NEW k \in Nat
          PROVE  Place(k) = IF rp + k - 1 < size THEN rp + k - 1 ELSE rp + k - 1 - size
  <2>1. size = BUF_SIZE  BY <1>0
  <2> QED  BY <2>1 DEF Wrap
<1>held. held = IF wp >= rp THEN wp - rp ELSE wp - rp + size  BY <1>0 DEF Held
<1> HIDE DEF Place
<1>3. /\ next \in 0 .. size - 1
      /\ held + n = IF next >= rp THEN next - rp ELSE next - rp + size
  BY <1>1, <1>half, <1>held
<1> HIDE DEF next
<1>old. ASSUME NEW k \in 1 .. held
        PROVE  Place(k) \in 0 .. size - 1 /\ ~ (Place(k) >= wp /\ Place(k) < wp + upper)
               /\ ~ (Place(k) < lower)
  <2>1. PICK i \in Int : i = IF rp + k - 1 < size THEN rp + k - 1 ELSE rp + k - 1 - size
    <3>1. (IF rp + k - 1 < size THEN rp + k - 1 ELSE rp + k - 1 - size) \in Int  OBVIOUS
    <3> QED  BY <3>1
  <2>2. i \in 0 .. size - 1 /\ ~ (i >= wp /\ i < wp + upper) /\ ~ (i < lower)
    BY <1>1, <1>half, <1>held, <2>1
  <2>3. k \in Nat  OBVIOUS
  <2> QED  BY <1>place, <2>1, <2>2, <2>3
<1>new. ASSUME NEW k \in 1 .. n
        PROVE  /\ Place(held + k) \in 0 .. size - 1
               /\ k <= upper => /\ Place(held + k) >= wp /\ Place(held + k) < wp + upper
                                /\ Place(held + k) - wp + 1 = k
               /\ k > upper => /\ ~ (Place(held + k) >= wp) /\ Place(held + k) < lower
                               /\ upper + Place(held + k) + 1 = k
  <2>1. PICK i \in Int : i = IF rp + (held + k) - 1 < size THEN rp + (held + k) - 1
                            ELSE rp + (held + k) - 1 - size
    <3>1. (IF rp + (held + k) - 1 < size THEN rp + (held + k) - 1
           ELSE rp + (held + k) - 1 - size) \in Int
      OBVIOUS
    <3> QED  BY <3>1
  <2>2. /\ i \in 0 .. size - 1
        /\ k <= upper => i >= wp /\ i < wp + upper /\ i - wp + 1 = k
        /\ k > upper => ~ (i >= wp) /\ i < lower /\ upper + i + 1 = k
    BY <1>1, <1>half, <1>held, <2>1
  <2>3. held + k \in Nat  OBVIOUS
  <2>4. Place(held + k) = i  BY <1>place, <2>1, <2>3
  <2> QED  BY <2>2, <2>4
<1>4. s.data \in [Slots -> Bytes]
  <2>1. ASSUME NEW i \in Slots
        PROVE  (IF i >= wp /\ i < wp + upper THEN buf[i - wp + 1]
                ELSE IF i < lower THEN buf[upper + i + 1] ELSE r.data[i]) \in Bytes
    <3>1. i \in Nat  BY <1>ring
    <3>2. i >= wp /\ i < wp + upper => i - wp + 1 \in 1 .. length
      BY <1>1, <1>half, <3>1
    <3>3. i < lower => upper + i + 1 \in 1 .. length  BY <1>1, <1>half, <3>1
    <3>4. length = Len(buf)  BY <1>0
    <3> QED  BY <1>ring, <3>2, <3>3, <3>4, ElementOfSeq
  <2> QED  BY <1>2, <2>1
<1>5. s \in Rings
  <2>1. s.rp \in Slots /\ s.wp \in Slots  BY <1>2, <1>3, <1>ring DEF next
  <2> QED  BY <1>2, <1>4, <2>1 DEF Rings
<1>6. Held(s) = held + n  BY <1>0, <1>2, <1>3 DEF Held, next
<1>7. ASSUME NEW k \in 1 .. held  PROVE  ContentsOf(s)[k] = ContentsOf(r)[k]
  <2>1. k \in 1 .. Held(s) /\ k \in 1 .. Held(r)  BY <1>0, <1>6
  <2>2. At(s, k) = Place(k) /\ At(r, k) = Place(k)  BY <1>0, <1>2 DEF At, Place
  <2>3. s.data[Place(k)] = r.data[Place(k)]  BY <1>2, <1>old, <1>ring
  <2> QED  BY <2>1, <2>2, <2>3 DEF ContentsOf
<1>8. ASSUME NEW k \in 1 .. n  PROVE  ContentsOf(s)[held + k] = buf[k]
  <2>1. held + k \in 1 .. Held(s)  BY <1>6
  <2>2. ContentsOf(s)[held + k] = s.data[Place(held + k)]
    BY <1>2, <2>1 DEF ContentsOf, At, Place
  <2>3. CASE k <= upper  BY <1>2, <1>new, <1>ring, <2>2, <2>3
  <2>4. CASE k > upper  BY <1>2, <1>new, <1>ring, <2>2, <2>4
  <2> QED  BY <2>3, <2>4
<1>9. ContentsOf(s) = ContentsOf(r) \o SubSeq(buf, 1, n)
  <2> DEFINE front == SubSeq(buf, 1, n)
             both == ContentsOf(r) \o front
  <2>1. front \in Seq(Bytes) /\ Len(front) = n /\ \A k \in 1 .. n : front[k] = buf[k]
    <3>1. \A k \in 1 .. n : k \in 1 .. Len(buf) /\ buf[k] \in Bytes
      BY <1>0, <1>1, ElementOfSeq
    <3> QED  BY <3>1, SubSeqProperties
  <2>2. ContentsOf(r) \in Seq(Bytes) /\ Len(ContentsOf(r)) = held
        /\ ContentsOf(s) \in Seq(Bytes) /\ Len(ContentsOf(s)) = held + n
    BY <1>0, <1>5, <1>6, HeldContents
  <2> HIDE DEF front
  <2>3. /\ both \in Seq(Bytes) /\ Len(both) = held + n
        /\ \A k \in 1 .. held + n :
             both[k] = IF k <= held THEN ContentsOf(r)[k] ELSE front[k - held]
    BY <2>1, <2>2, ConcatProperties
  <2> HIDE DEF both
  <2>4. ASSUME NEW k \in 1 .. held + n  PROVE  ContentsOf(s)[k] = both[k]
    <3>1. CASE k <= held  BY <1>7, <2>3, <3>1
    <3>2. CASE k > held
      <4>1. k - held \in 1 .. n /\ held + (k - held) = k  BY <3>2
      <4>2. ContentsOf(s)[k] = buf[k - held]  BY <1>8, <4>1
      <4>3. both[k] = front[k - held]  BY <2>3, <3>2
      <4> QED  BY <2>1, <4>1, <4>2, <4>3
    <3> QED  BY <3>1, <3>2
  <2>5. ContentsOf(s) = both  BY <2>2, <2>3, <2>4, SeqEqual
  <2> QED  BY <2>5 DEF both, front
<1> QED  BY <1>0, <1>5, <1>6, <1>9

(* PL011UartRecvNotify adds what fits behind what there is.                *)
LEMMA StoreAppends ==
  ASSUME ring \in Rings, NEW buf \in Seq(Bytes)
  PROVE  LET n == Least(Len(buf), Room) IN
         /\ n \in 0 .. Len(buf) /\ Held(ring) + n <= BUF_SIZE - 1
         /\ Stored(buf) \in Rings /\ Stored(buf).rp = ring.rp
         /\ Held(Stored(buf)) = Held(ring) + n
         /\ ContentsOf(Stored(buf)) = ContentsOf(ring) \o SubSeq(buf, 1, n)
<1> DEFINE n == Least(Len(buf), Room)
<1>1. /\ ring.rp \in Nat /\ ring.wp \in Nat /\ Held(ring) \in Nat
      /\ ring.rp < BUF_SIZE /\ ring.wp < BUF_SIZE /\ Held(ring) < BUF_SIZE
      /\ BUF_SIZE \in Nat /\ BUF_SIZE >= 2 /\ Len(buf) \in Nat
  BY HeldLinear, UartSizes DEF Rings
<1>2. Room = BUF_SIZE - 1 - Held(ring)
  <2>1. PICK rp \in Nat, wp \in Nat, size \in Nat :
          rp = ring.rp /\ wp = ring.wp /\ size = BUF_SIZE
    BY <1>1
  <2>2. Room = (IF wp < rp THEN rp - wp - 1 ELSE size - wp + rp - 1)  BY <2>1 DEF Room
  <2>3. Held(ring) = (IF wp >= rp THEN wp - rp ELSE wp - rp + size)  BY <2>1 DEF Held
  <2>4. (IF wp < rp THEN rp - wp - 1 ELSE size - wp + rp - 1)
        = size - 1 - (IF wp >= rp THEN wp - rp ELSE wp - rp + size)
    OBVIOUS
  <2> QED  BY <2>1, <2>2, <2>3, <2>4
<1>3. n \in Nat /\ n <= Len(buf) /\ n + Held(ring) < BUF_SIZE
  <2>1. PICK length \in Nat, size \in Nat, held \in Nat :
          length = Len(buf) /\ size = BUF_SIZE /\ held = Held(ring)
    BY <1>1
  <2>2. held < size  BY <1>1, <2>1
  <2>3. n = IF length < size - 1 - held THEN length ELSE size - 1 - held
    BY <1>2, <2>1 DEF Least
  <2> HIDE DEF n
  <2>4. n \in Nat /\ n <= length /\ n + held < size  BY <2>2, <2>3
  <2> QED  BY <2>1, <2>4
<1>4. Stored(buf) = LET upper == Least(n, BUF_SIZE - ring.wp)
                    IN  Added(ring, buf, ring.wp, upper, n - upper)
  BY DEF Stored, Added
<1>5. Stored(buf).rp = ring.rp  BY DEF Stored
<1> HIDE DEF n
<1>6. /\ Stored(buf) \in Rings /\ Held(Stored(buf)) = Held(ring) + n
      /\ ContentsOf(Stored(buf)) = ContentsOf(ring) \o SubSeq(buf, 1, n)
  BY <1>3, <1>4, AppendedRing
<1>7. n \in 0 .. Len(buf) /\ Held(ring) + n <= BUF_SIZE - 1  BY <1>1, <1>3
<1> QED  BY <1>5, <1>6, <1>7 DEF n

-----------------------------------------------------------------------------
(* Steps that leave the read and the ring alone.                           *)
LEMMA ReadingKept ==
  ASSUME UartReading, UNCHANGED <<ring, reader, transfer>>,
         Reader \in opened /\ reader.pc # "idle" => Reader \in opened'
  PROVE  UartReading'
BY DEF UartReading, ReadCount, Contents, Length

(* A client more, a client less.                                           *)
LEMMA ClientsCounted ==
  ASSUME UartTypeOK, UartOpenedByCount, NEW c \in Clients
  PROVE  /\ c \notin opened => /\ opened \cup {c} \subseteq Clients
                               /\ Cardinality(opened \cup {c}) = ucount + 1
                               /\ ucount + 1 \in 0 .. Cardinality(Clients)
         /\ c \in opened => /\ opened \ {c} \subseteq Clients
                            /\ Cardinality(opened \ {c}) = ucount - 1
                            /\ ucount - 1 \in 0 .. Cardinality(Clients)
                            /\ ucount = 1 <=> opened \ {c} = {}
<1>1. IsFiniteSet(opened) /\ opened \subseteq Clients /\ ucount = Cardinality(opened)
  BY UartSizes, FS_Subset DEF UartTypeOK, UartOpenedByCount
<1>2. Cardinality(Clients) \in Nat /\ ucount \in Nat
  BY <1>1, UartSizes, FS_CardinalityType
<1>3. CASE c \notin opened
  <2>1. IsFiniteSet(opened \cup {c}) /\ Cardinality(opened \cup {c}) = ucount + 1
    BY <1>1, <1>3, FS_AddElement
  <2>2. opened \cup {c} \subseteq Clients  BY <1>1
  <2>3. ucount + 1 <= Cardinality(Clients)  BY <2>1, <2>2, UartSizes, FS_Subset
  <2> QED  BY <1>2, <1>3, <2>1, <2>2, <2>3
<1>4. CASE c \in opened
  <2>1. IsFiniteSet(opened \ {c}) /\ Cardinality(opened \ {c}) = ucount - 1
    BY <1>1, <1>4, FS_RemoveElement
  <2>2. opened \ {c} \subseteq Clients  BY <1>1
  <2>3. ucount - 1 <= Cardinality(Clients)  BY <2>1, <2>2, UartSizes, FS_Subset
  <2>4. ucount - 1 \in Nat  BY <2>1, FS_CardinalityType
  <2>5. ucount - 1 = 0 <=> opened \ {c} = {}  BY <2>1, FS_EmptySet
  <2> QED  BY <1>2, <1>4, <2>1, <2>2, <2>3, <2>4, <2>5
<1> QED  BY <1>3, <1>4

LEMMA OpenStep ==
  ASSUME UartInductive, NEW c \in Clients, Open(c)
  PROVE  UartInductive'
<1> USE DEF UartInductive, UartInvariant
<1>1. /\ uirq.pc = "idle" /\ reader.pc # "fault" /\ c \notin opened /\ ~ closing
      /\ ucount' = ucount + 1 /\ opened' = opened \cup {c}
      /\ UNCHANGED <<closing, blocking, reader, taken, uirq>>
  BY DEF Open, Opening, ClientStep
<1>2. opened' \subseteq Clients /\ ucount' = Cardinality(opened') /\ ucount' \in 0 .. Cardinality(Clients)
  BY <1>1, ClientsCounted
<1>3. CASE FirstOpen
  <2>1. opened = {}  BY <1>3 DEF FirstOpen, UartOpenedByCount
  <2>2. reader.pc = "idle"  BY <2>1 DEF UartReading
  <2>3. ring' \in Rings /\ port' \in [fifo : Seq(Bytes), mis : BOOLEAN] /\ Len(port'.fifo) <= FIFO_SIZE
    BY <1>3, UartSizes DEF FirstOpen, EmptyRing, Rings
  <2>4. UartTypeOK'
    BY <1>1, <1>2, <1>3, <2>3 DEF UartTypeOK, FirstOpen, Rings
  <2>5. UartOpenedByCount'
    BY <1>1, <1>2, <1>3 DEF UartOpenedByCount, FirstOpen
  <2> QED
    BY <1>1, <2>2, <2>4, <2>5 DEF UartNoLostWakeup, UartFaults, UartReading
<1>4. CASE OpenAgain
  <2>1. UartTypeOK'  BY <1>1, <1>2, <1>4 DEF UartTypeOK, OpenAgain
  <2>2. UartOpenedByCount'  BY <1>1, <1>2, <1>4 DEF UartOpenedByCount, OpenAgain
  <2>3. UartReading'  BY <1>1, <1>4, ReadingKept DEF OpenAgain
  <2> QED
    BY <1>1, <1>4, <2>1, <2>2, <2>3 DEF OpenAgain, UartNoLostWakeup, RxBufEmpty, UartFaults
<1> QED  BY <1>3, <1>4 DEF Open

LEMMA OpenFailsStep ==
  ASSUME UartInductive, NEW c \in Clients, OpenFails(c)
  PROVE  UartInductive'
<1> USE DEF UartInductive, UartInvariant
<1>1. opened = {}  BY DEF OpenFails, UartOpenedByCount
<1>2. reader.pc = "idle" /\ uirq.pc = "idle"
  BY <1>1 DEF OpenFails, Opening, ClientStep, UartReading
<1>3. UartTypeOK'  BY DEF OpenFails, UartTypeOK
<1>4. UartOpenedByCount'  BY <1>1 DEF OpenFails, UartOpenedByCount
<1>5. UartReading'  BY ReadingKept DEF OpenFails
<1> QED  BY <1>2, <1>3, <1>4, <1>5 DEF OpenFails, UartNoLostWakeup, UartFaults

LEMMA CloseStep ==
  ASSUME UartInductive, NEW c \in Clients, Close(c)
  PROVE  UartInductive'
<1> USE DEF UartInductive, UartInvariant
<1>1. /\ uirq.pc = "idle" /\ reader.pc # "fault" /\ c \in opened
      /\ c = Reader => reader.pc = "idle"
      /\ ucount' = ucount - 1 /\ opened' = opened \ {c} /\ closing' = (ucount = 1)
      /\ UNCHANGED <<ustate, transfer, irqOn, blocking, ring, uevent, reader, taken, uirq, port>>
  BY DEF Close, Opened, ClientStep, LastClose
<1>2. /\ opened' \subseteq Clients /\ ucount' = Cardinality(opened')
      /\ ucount' \in 0 .. Cardinality(Clients) /\ (ucount = 1 <=> opened' = {})
  <2>1. /\ opened \ {c} \subseteq Clients /\ Cardinality(opened \ {c}) = ucount - 1
        /\ ucount - 1 \in 0 .. Cardinality(Clients) /\ (ucount = 1 <=> opened \ {c} = {})
    <3>1. UartTypeOK /\ UartOpenedByCount /\ c \in opened  BY <1>1
    <3> QED  BY <3>1, ClientsCounted, Zenon
  <2> QED  BY <1>1, <2>1
<1>3. UartTypeOK'  BY <1>1, <1>2 DEF UartTypeOK
<1>4. UartOpenedByCount'  BY <1>1, <1>2 DEF UartOpenedByCount
<1>5. UartReading'  BY <1>1, ReadingKept
<1> QED  BY <1>1, <1>3, <1>4, <1>5 DEF UartNoLostWakeup, RxBufEmpty, UartFaults

LEMMA ShutDownStep ==
  ASSUME UartInductive, ShutDown
  PROVE  UartInductive'
<1> USE DEF UartInductive, UartInvariant
<1>1. opened = {} /\ uirq.pc = "idle" /\ reader.pc = "idle"
  BY DEF ShutDown, ClientStep, UartOpenedByCount, UartReading
<1>2. port' \in [fifo : Seq(Bytes), mis : BOOLEAN] /\ Len(port'.fifo) <= FIFO_SIZE
  BY UartSizes DEF ShutDown
<1>3. UartTypeOK'  BY <1>2 DEF ShutDown, UartTypeOK
<1>4. UartOpenedByCount'  BY <1>1 DEF ShutDown, UartOpenedByCount
<1> QED  BY <1>1, <1>3, <1>4 DEF ShutDown, UartNoLostWakeup, UartFaults, UartReading

LEMMA SetTransModeStep ==
  ASSUME UartInductive, NEW c \in Clients, NEW block \in BOOLEAN, SetTransMode(c, block)
  PROVE  UartInductive'
<1> USE DEF UartInductive, UartInvariant
<1>1. UartTypeOK'  BY DEF SetTransMode, Releases, UartTypeOK
<1>2. UartOpenedByCount'  BY DEF SetTransMode, UartOpenedByCount
<1>3. UartReading'  BY ReadingKept DEF SetTransMode
<1>4. UartNoLostWakeup'
  BY DEF SetTransMode, Releases, UartNoLostWakeup, RxBufEmpty
<1> QED  BY <1>1, <1>2, <1>3, <1>4 DEF SetTransMode, UartFaults

LEMMA ConfigStep ==
  ASSUME UartInductive, NEW c \in Clients, Config(c)
  PROVE  UartInductive'
<1> USE DEF UartInductive, UartInvariant
<1>1. port' \in [fifo : Seq(Bytes), mis : BOOLEAN] /\ Len(port'.fifo) <= FIFO_SIZE
  <2>1. port' = [fifo |-> <<>>, mis |-> port.mis] /\ port.mis \in BOOLEAN
    BY DEF Config, UartTypeOK
  <2>2. Len(<<>>) <= FIFO_SIZE /\ <<>> \in Seq(Bytes)  BY UartSizes, EmptySeq
  <2>3. port'.fifo = <<>>  BY <2>1
  <2> QED  BY <2>1, <2>2, <2>3
<1>2. UNCHANGED <<clientVars, ring, uevent, reader, taken, uirq>>  BY DEF Config
<1>3. UartTypeOK'  BY <1>1, <1>2 DEF UartTypeOK, clientVars
<1>4. UartReading'  BY <1>2, ReadingKept DEF clientVars
<1> QED
  BY <1>2, <1>3, <1>4 DEF clientVars, UartOpenedByCount, UartNoLostWakeup, RxBufEmpty, UartFaults

-----------------------------------------------------------------------------
(* Hi35xxRead and Pl011Read.                                               *)
LEMMA NewRead ==
  ASSUME NEW p, NEW n \in 1 .. BUF_SIZE
  PROVE  /\ [NoRead EXCEPT !.size = n, !.pc = p]
              \in [pc : {p}, size : 1 .. BUF_SIZE, rp : Slots, wp : Slots, buf : Seq(Bytes)]
         /\ [NoRead EXCEPT !.pc = p]
              \in [pc : {p}, size : 1 .. BUF_SIZE, rp : Slots, wp : Slots, buf : Seq(Bytes)]
<1>1. 0 \in Slots /\ 1 \in 1 .. BUF_SIZE /\ <<>> \in Seq(Bytes)  BY UartSizes, EmptySeq
<1>2. [NoRead EXCEPT !.size = n, !.pc = p] = [pc |-> p, size |-> n, rp |-> 0, wp |-> 0, buf |-> <<>>]
  <2> DEFINE sized == [NoRead EXCEPT !.size = n]
  <2>1. sized = [pc |-> "idle", size |-> n, rp |-> 0, wp |-> 0, buf |-> <<>>]  BY DEF NoRead
  <2>2. [NoRead EXCEPT !.size = n, !.pc = p] = [sized EXCEPT !.pc = p]  OBVIOUS
  <2> HIDE DEF sized
  <2> QED  BY <2>1, <2>2
<1>3. [NoRead EXCEPT !.pc = p] = [pc |-> p, size |-> 1, rp |-> 0, wp |-> 0, buf |-> <<>>]
  BY DEF NoRead
<1> QED  BY <1>1, <1>2, <1>3

LEMMA ReadStartStep ==
  ASSUME UartInductive, NEW n \in 1 .. BUF_SIZE, ReadStart(n)
  PROVE  UartInductive'
<1> USE DEF UartInductive, UartInvariant
<1>1. /\ Reader \in opened
      /\ UNCHANGED <<ustate, ucount, opened, transfer, closing, blocking, irqOn>>
      /\ UNCHANGED <<ring, uevent, uirq, port>> /\ taken' = <<>>
  BY DEF ReadStart, Opened, clientVars
<1>2. /\ reader'.pc = IF blocking /\ ~ transfer THEN "fault"
                     ELSE IF MustWait THEN "wait" ELSE "fetch"
      /\ reader' \in [pc : {"fault", "wait", "fetch"}, size : 1 .. BUF_SIZE,
                      rp : Slots, wp : Slots, buf : Seq(Bytes)]
  <2> DEFINE p == IF blocking /\ ~ transfer THEN "fault"
                  ELSE IF MustWait THEN "wait" ELSE "fetch"
  <2>1. reader' = [NoRead EXCEPT !.size = n, !.pc = p]  BY DEF ReadStart
  <2>2. p \in {"fault", "wait", "fetch"}  OBVIOUS
  <2> HIDE DEF p
  <2>3. reader' \in [pc : {p}, size : 1 .. BUF_SIZE, rp : Slots, wp : Slots, buf : Seq(Bytes)]
    BY <2>1, NewRead
  <2>4. reader'.pc = p  BY <2>3
  <2> QED  BY <2>2, <2>3, <2>4 DEF p
<1>3. UartTypeOK'  BY <1>1, <1>2 DEF UartTypeOK
<1>4. UartReading'  BY <1>1, <1>2 DEF UartReading
<1>5. UartNoLostWakeup'
  BY <1>1, <1>2 DEF UartNoLostWakeup, RxBufEmpty, MustWait
<1>6. UartOpenedByCount' /\ UartFaults'
  BY <1>1, <1>2 DEF UartFaults, UartOpenedByCount
<1> QED  BY <1>1, <1>3, <1>4, <1>5, <1>6

(* What the steps of a read that has begun leave as it is.                 *)
ReadFrame ==
  /\ UNCHANGED <<ustate, ucount, opened, transfer, closing, blocking, irqOn>>
  /\ UNCHANGED <<uirq, port>>

LEMMA ReadStepInductive ==
  ASSUME UartInductive, ReadFrame, reader.pc # "idle",
         ring' \in Rings, uevent' \in BOOLEAN, taken' \in Seq(Bytes),
         reader' \in [pc : {"idle", "wait", "fetch", "copy", "advance", "check", "clear", "fault"},
                     size : 1 .. BUF_SIZE, rp : Slots, wp : Slots, buf : Seq(Bytes)],
         reader'.pc # "wait",
         reader'.pc = "fault" => ~ transfer,
         reader'.pc \in {"copy", "advance"} =>
           transfer /\ reader'.rp = ring'.rp /\ ReadCount' <= Length',
         reader'.pc = "advance" => reader'.buf = SubSeq(Contents', 1, ReadCount')
  PROVE  UartInductive'
<1> USE DEF UartInductive, UartInvariant, ReadFrame
<1>1. UartTypeOK'  BY DEF UartTypeOK, Rings
<1>2. UartReading'  BY DEF UartReading
<1>3. UartOpenedByCount' /\ UartFaults'  BY DEF UartFaults, UartOpenedByCount
<1> QED  BY <1>1, <1>2, <1>3 DEF UartNoLostWakeup

LEMMA ReadSteps ==
  ASSUME UartInductive, Read
  PROVE  UartInductive'
<1> USE DEF UartInductive, UartInvariant
<1> DEFINE Shape == [pc : {"idle", "wait", "fetch", "copy", "advance", "check", "clear", "fault"},
                     size : 1 .. BUF_SIZE, rp : Slots, wp : Slots, buf : Seq(Bytes)]
<1>1. /\ ring \in Rings /\ uevent \in BOOLEAN /\ taken \in Seq(Bytes) /\ reader \in Shape
  BY DEF UartTypeOK, Rings
<1>2. CASE ReadWait
  <2>1. ReadFrame /\ UNCHANGED <<ring, uevent, taken>> /\ reader.pc = "wait"
    BY <1>2 DEF ReadWait, Reads, ReadFrame, clientVars
  <2>2. reader'.pc = "fetch" /\ reader' \in Shape  BY <1>1, <1>2 DEF ReadWait, Reads
  <2> QED  BY <1>1, <2>1, <2>2, ReadStepInductive
<1>3. CASE ReadFetch
  <2>1. ReadFrame /\ UNCHANGED <<ring, uevent, taken>> /\ reader.pc = "fetch"
    BY <1>3 DEF ReadFetch, ReadFrame, clientVars
  <2>2. CASE transfer
    <3>1. /\ reader'.pc = "copy" /\ reader'.rp = ring.rp /\ reader'.wp = ring.wp
          /\ reader'.size = reader.size /\ reader' \in Shape
      BY <1>1, <1>3, <2>2 DEF ReadFetch, Rings
    <3>2. ReadCount' <= Held(ring)
      <4>1. /\ ring.rp \in 0 .. BUF_SIZE - 1 /\ ring.wp \in 0 .. BUF_SIZE - 1
            /\ reader.size \in 1 .. BUF_SIZE
        BY <1>1, UartSizes DEF Rings
      <4>2. ReadCount' = IF ring.rp <= ring.wp THEN Least(reader.size, ring.wp - ring.rp)
                         ELSE Least(reader.size, BUF_SIZE - ring.rp + ring.wp)
        BY <3>1 DEF ReadCount
      <4> QED  BY <4>1, <4>2, UartSizes DEF Least, Held
    <3>3. ReadCount' <= Length'  BY <1>1, <2>1, <3>2, RingThen
    <3> QED  BY <1>1, <2>1, <2>2, <3>1, <3>3, ReadStepInductive
  <2>3. CASE ~ transfer
    <3>1. reader' = [NoRead EXCEPT !.pc = "check"] /\ 1 \in 1 .. BUF_SIZE
      BY <1>3, <2>3, UartSizes DEF ReadFetch
    <3>2. reader'.pc = "check" /\ reader' \in Shape  BY <3>1, NewRead
    <3> QED  BY <1>1, <2>1, <3>2, ReadStepInductive
  <2> QED  BY <2>2, <2>3
<1>4. CASE ReadCopy
  <2>1. ReadFrame /\ UNCHANGED <<ring, uevent, taken>> /\ reader.pc = "copy"
    BY <1>4 DEF ReadCopy, ReadFrame, clientVars
  <2> DEFINE copied == [k \in 1 .. ReadCount |->
                          IF k <= UpperHalf THEN ring.data[reader.rp + k - 1]
                          ELSE ring.data[k - UpperHalf - 1]]
  <2>2. transfer /\ reader.rp = ring.rp /\ ReadCount <= Held(ring)
    BY <1>1, <2>1, RingNow DEF UartReading
  <2>3. ReadCount \in 0 .. Held(ring) /\ copied = SubSeq(ContentsOf(ring), 1, ReadCount)
    BY <1>1, <2>2, ReadTakes
  <2>4. copied \in Seq(Bytes)
    <3>1. Held(ring) \in Nat  BY <1>1, HeldLinear
    <3>2. \A k \in 1 .. ReadCount : ContentsOf(ring)[k] \in Bytes
      BY <1>1, <2>3, <3>1, HeldContents, ElementOfSeq
    <3> QED  BY <2>3, <3>1, <3>2, SubSeqProperties
  <2>5. reader' = [reader EXCEPT !.pc = "advance", !.buf = copied]
    BY <1>4 DEF ReadCopy
  <2> HIDE DEF copied
  <2>6. /\ reader'.pc = "advance" /\ reader'.buf = copied /\ reader'.rp = reader.rp
        /\ reader'.wp = reader.wp /\ reader'.size = reader.size /\ reader' \in Shape
    BY <1>1, <2>4, <2>5
  <2>7. ReadCount' = ReadCount  BY <2>6 DEF ReadCount
  <2>8. Length' = Held(ring) /\ Contents' = ContentsOf(ring)  BY <1>1, <2>1, RingThen
  <2> QED  BY <1>1, <2>1, <2>2, <2>3, <2>6, <2>7, <2>8, ReadStepInductive
<1>5. CASE ReadAdvance
  <2>1. ReadFrame /\ UNCHANGED uevent /\ reader.pc = "advance" /\ taken' = reader.buf
        /\ ring' = [ring EXCEPT !.rp = NextRp]
    BY <1>5 DEF ReadAdvance, ReadFrame, clientVars
  <2>2. reader.rp = ring.rp /\ ReadCount <= Held(ring)
    BY <1>1, <2>1, RingNow DEF UartReading
  <2>3. ReadCount \in 0 .. Held(ring) /\ NextRp = Wrap(ring.rp + ReadCount)
    BY <1>1, <2>2, ReadTakes
  <2>4. ring' \in Rings  BY <1>1, <2>1, <2>3, Advanced
  <2>5. reader'.pc = "check" /\ reader' \in Shape
    <3>1. reader' = [NoRead EXCEPT !.pc = "check"] /\ 1 \in 1 .. BUF_SIZE
      BY <1>5, UartSizes DEF ReadAdvance
    <3> QED  BY <3>1, NewRead
  <2>6. taken' \in Seq(Bytes)  BY <1>1, <2>1
  <2> QED  BY <1>1, <2>1, <2>4, <2>5, <2>6, ReadStepInductive
<1>6. CASE ReadCheck
  <2>1. ReadFrame /\ UNCHANGED <<ring, uevent, taken>> /\ reader.pc = "check"
    BY <1>6 DEF ReadCheck, ReadFrame, clientVars
  <2>2. /\ reader'.pc \in {"fault", "clear", "idle"} /\ reader' \in Shape
        /\ reader'.pc = "fault" => ~ transfer
    BY <1>1, <1>6 DEF ReadCheck
  <2> QED  BY <1>1, <2>1, <2>2, ReadStepInductive
<1>7. CASE ReadClear
  <2>1. ReadFrame /\ UNCHANGED <<ring, taken>> /\ reader.pc = "clear" /\ uevent' = FALSE
    BY <1>7 DEF ReadClear, Reads, ReadFrame, clientVars
  <2>2. reader'.pc = "idle" /\ reader' \in Shape  BY <1>1, <1>7 DEF ReadClear, Reads
  <2> QED  BY <1>1, <2>1, <2>2, ReadStepInductive
<1> QED  BY <1>2, <1>3, <1>4, <1>5, <1>6, <1>7 DEF Read

-----------------------------------------------------------------------------
(* Pl011Irq and the port.                                                  *)
LEMMA IrqStepInductive ==
  ASSUME UartInductive, UNCHANGED <<clientVars, reader, taken>>,
         ring' \in Rings, uevent' \in BOOLEAN, port' \in [fifo : Seq(Bytes), mis : BOOLEAN],
         uirq' \in [pc : {"idle", "loop", "recv", "clear", "fault"}, buf : Seq(Bytes)],
         Len(uirq'.buf) <= FIFO_SIZE, Len(port'.fifo) <= FIFO_SIZE,
         uirq'.pc = "loop" => Len(uirq'.buf) < FIFO_SIZE,
         uirq'.pc = "fault" => closing,
         UNCHANGED <<ring, uevent>> \/ (uevent' = TRUE /\ UartReading')
  PROVE  UartInductive'
<1> USE DEF UartInductive, UartInvariant, clientVars
<1>1. UartTypeOK'  BY DEF UartTypeOK, Rings
<1>2. UartReading'  BY ReadingKept
<1>3. UartNoLostWakeup'  BY DEF UartNoLostWakeup, RxBufEmpty
<1>4. UartOpenedByCount' /\ UartFaults'  BY DEF UartFaults, UartOpenedByCount
<1> QED  BY <1>1, <1>2, <1>3, <1>4

(* What is added behind leaves the front of the ring alone.                *)
LEMMA FrontStays ==
  ASSUME NEW s \in Seq(Bytes), NEW t \in Seq(Bytes), NEW n \in 0 .. Len(s)
  PROVE  SubSeq(s \o t, 1, n) = SubSeq(s, 1, n)
<1>1. s \o t \in Seq(Bytes) /\ Len(s \o t) = Len(s) + Len(t)
      /\ \A i \in 1 .. n : (s \o t)[i] = s[i]
  BY ConcatProperties
<1>2. \A i \in 1 .. n : s[i] \in Bytes /\ (s \o t)[i] \in Bytes  BY <1>1, ElementOfSeq
<1>3. /\ SubSeq(s, 1, n) \in Seq(Bytes) /\ Len(SubSeq(s, 1, n)) = n
      /\ \A i \in 1 .. n : SubSeq(s, 1, n)[i] = s[i]
  BY <1>2, SubSeqProperties
<1>4. /\ SubSeq(s \o t, 1, n) \in Seq(Bytes) /\ Len(SubSeq(s \o t, 1, n)) = n
      /\ \A i \in 1 .. n : SubSeq(s \o t, 1, n)[i] = (s \o t)[i]
  BY <1>2, SubSeqProperties
<1> QED  BY <1>1, <1>3, <1>4, SeqEqual

LEMMA StoreKeepsReading ==
  ASSUME ring \in Rings, UartReading, NEW buf \in Seq(Bytes), ring' = Stored(buf),
         reader.size \in 1 .. BUF_SIZE, reader.wp \in Slots,
         UNCHANGED <<clientVars, reader>>
  PROVE  UartReading'
<1> DEFINE n == Least(Len(buf), Room)
           more == SubSeq(buf, 1, n)
<1>1. /\ n \in 0 .. Len(buf) /\ ring' \in Rings /\ ring'.rp = ring.rp
      /\ Held(ring') = Held(ring) + n /\ ContentsOf(ring') = ContentsOf(ring) \o more
  BY StoreAppends
<1> HIDE DEF n
<1>2. more \in Seq(Bytes)
  <2>1. \A i \in 1 .. n : buf[i] \in Bytes  BY <1>1, ElementOfSeq
  <2> QED  BY <1>1, <2>1, SubSeqProperties
<1> HIDE DEF more
<1>3. Length = Held(ring) /\ Contents = ContentsOf(ring) /\ Length' = Held(ring')
      /\ Contents' = ContentsOf(ring') /\ Held(ring) \in Nat
      /\ Contents \in Seq(Bytes) /\ Len(Contents) = Held(ring)
  BY <1>1, RingNow, RingThen, HeldLinear, HeldContents
<1>4. UNCHANGED <<opened, transfer, reader>> /\ ReadCount' = ReadCount
  BY DEF clientVars, ReadCount
<1>5. CASE reader.pc \in {"copy", "advance"}
  <2>1. transfer /\ reader.rp = ring.rp /\ ReadCount <= Held(ring)
    BY <1>3, <1>5 DEF UartReading
  <2>2. ReadCount \in 0 .. Held(ring)  BY <2>1, ReadTakes
  <2>3. SubSeq(Contents', 1, ReadCount) = SubSeq(Contents, 1, ReadCount)
    BY <1>1, <1>2, <1>3, <2>2, FrontStays
  <2>4. ReadCount <= Held(ring')  BY <1>1, <1>3, <2>2
  <2> QED  BY <1>1, <1>3, <1>4, <2>1, <2>3, <2>4 DEF UartReading
<1>6. CASE reader.pc \notin {"copy", "advance"}  BY <1>4, <1>6 DEF UartReading
<1> QED  BY <1>5, <1>6

LEMMA IrqSteps ==
  ASSUME UartInductive, UartIrq
  PROVE  UartInductive'
<1> USE DEF UartInductive, UartInvariant
<1>1. /\ ring \in Rings /\ uevent \in BOOLEAN /\ port \in [fifo : Seq(Bytes), mis : BOOLEAN]
      /\ uirq \in [pc : {"idle", "loop", "recv", "clear", "fault"}, buf : Seq(Bytes)]
      /\ Len(uirq.buf) <= FIFO_SIZE /\ Len(port.fifo) <= FIFO_SIZE
      /\ FIFO_SIZE \in Nat /\ FIFO_SIZE >= 1 /\ <<>> \in Seq(Bytes) /\ Len(<<>>) = 0
  BY UartSizes, EmptySeq DEF UartTypeOK, Rings
<1>2. CASE UartIrqEnter
  <2>1. UNCHANGED <<clientVars, reader, taken, ring, uevent, port>>
        /\ uirq' = [pc |-> "loop", buf |-> <<>>]
    BY <1>2 DEF UartIrqEnter, irqOthers
  <2> QED  BY <1>1, <2>1, IrqStepInductive
<1>3. CASE IrqByte
  <2>1. /\ uirq.pc = "loop" /\ port.fifo # <<>> /\ port' = [port EXCEPT !.fifo = Tail(port.fifo)]
        /\ UNCHANGED <<clientVars, reader, taken, ring, uevent>>
    BY <1>3 DEF IrqByte, irqOthers
  <2>2. /\ Head(port.fifo) \in Bytes /\ Tail(port.fifo) \in Seq(Bytes)
        /\ Len(Tail(port.fifo)) = Len(port.fifo) - 1 /\ Len(port.fifo) \in Nat
    BY <1>1, <2>1, HeadTailProperties, LenProperties
  <2>3. port' \in [fifo : Seq(Bytes), mis : BOOLEAN] /\ Len(port'.fifo) <= FIFO_SIZE
    <3>1. port'.fifo = Tail(port.fifo) /\ port' \in [fifo : Seq(Bytes), mis : BOOLEAN]
      BY <1>1, <2>1, <2>2
    <3> QED  BY <1>1, <2>2, <3>1
  <2> DEFINE buf == Append(uirq.buf, Head(port.fifo))
  <2>4. buf \in Seq(Bytes) /\ Len(buf) = Len(uirq.buf) + 1 /\ Len(uirq.buf) \in Nat
    BY <1>1, <2>2, AppendProperties, LenProperties
  <2>5. Len(uirq.buf) < FIFO_SIZE  BY <2>1
  <2>6. \/ uirq' = [pc |-> IF Len(buf) < FIFO_SIZE THEN "loop" ELSE "recv", buf |-> buf]
        \/ uirq' = [pc |-> "clear", buf |-> <<>>]
    BY <1>3 DEF IrqByte
  <2> HIDE DEF buf
  <2>7. /\ uirq' \in [pc : {"idle", "loop", "recv", "clear", "fault"}, buf : Seq(Bytes)]
        /\ Len(uirq'.buf) <= FIFO_SIZE /\ uirq'.pc # "fault"
        /\ uirq'.pc = "loop" => Len(uirq'.buf) < FIFO_SIZE
    <3>1. CASE uirq' = [pc |-> IF Len(buf) < FIFO_SIZE THEN "loop" ELSE "recv", buf |-> buf]
      <4>1. Len(buf) <= FIFO_SIZE  BY <1>1, <2>4, <2>5
      <4>2. uirq'.buf = buf /\ uirq'.pc = IF Len(buf) < FIFO_SIZE THEN "loop" ELSE "recv"
        BY <3>1
      <4> QED  BY <2>4, <3>1, <4>1, <4>2
    <3>2. CASE uirq' = [pc |-> "clear", buf |-> <<>>]  BY <1>1, <3>2
    <3> QED  BY <2>6, <3>1, <3>2
  <2> QED  BY <1>1, <2>1, <2>3, <2>7, IrqStepInductive
<1>4. CASE IrqEmpty
  <2>1. UNCHANGED <<clientVars, reader, taken, ring, uevent, port>>
        /\ uirq' = [uirq EXCEPT !.pc = "recv"]
    BY <1>4 DEF IrqEmpty, irqOthers
  <2> QED  BY <1>1, <2>1, IrqStepInductive
<1>5. CASE IrqRecv
  <2> DEFINE stored == uirq.buf # <<>> /\ transfer
  <2>1. UNCHANGED <<clientVars, reader, taken, port>>
        /\ uirq' = [pc |-> IF stored /\ closing THEN "fault" ELSE "clear", buf |-> <<>>]
    BY <1>5 DEF IrqRecv, irqOthers
  <2>2. /\ uirq' \in [pc : {"idle", "loop", "recv", "clear", "fault"}, buf : Seq(Bytes)]
        /\ Len(uirq'.buf) <= FIFO_SIZE /\ uirq'.pc # "loop"
        /\ uirq'.pc = "fault" => closing
    BY <1>1, <2>1
  <2>3. CASE stored /\ ~ closing
    <3>1. ring' = Stored(uirq.buf) /\ uevent' = TRUE  BY <1>5, <2>3 DEF IrqRecv
    <3>2. ring' \in Rings  BY <1>1, <3>1, StoreAppends
    <3>3. reader.size \in 1 .. BUF_SIZE /\ reader.wp \in Slots /\ uirq.buf \in Seq(Bytes)
      BY DEF UartTypeOK
    <3>4. UartReading'  BY <1>1, <2>1, <3>1, <3>3, StoreKeepsReading
    <3> QED  BY <1>1, <2>1, <2>2, <3>1, <3>2, <3>4, IrqStepInductive
  <2>4. CASE ~ (stored /\ ~ closing)
    <3>1. UNCHANGED <<ring, uevent>>  BY <1>5, <2>4 DEF IrqRecv
    <3> QED  BY <1>1, <2>1, <2>2, <3>1, IrqStepInductive
  <2> QED  BY <2>3, <2>4
<1>6. CASE IrqClear
  <2>1. UNCHANGED <<clientVars, reader, taken, ring, uevent>>
        /\ uirq' = [uirq EXCEPT !.pc = "idle"] /\ port' = [port EXCEPT !.mis = FALSE]
    BY <1>6 DEF IrqClear, irqOthers
  <2> QED  BY <1>1, <2>1, IrqStepInductive
<1> QED  BY <1>2, <1>3, <1>4, <1>5, <1>6 DEF UartIrq

LEMMA PortSteps ==
  ASSUME UartInductive, (\E b \in Bytes : PortByte(b)) \/ PortRaise
  PROVE  UartInductive'
<1> USE DEF UartInductive, UartInvariant
<1>1. /\ port \in [fifo : Seq(Bytes), mis : BOOLEAN] /\ Len(port.fifo) <= FIFO_SIZE
      /\ FIFO_SIZE \in Nat
  BY UartSizes DEF UartTypeOK
<1>2. UNCHANGED <<clientVars, ring, uevent, reader, taken, uirq>>
  BY DEF PortByte, PortRaise, portOthers
<1>3. port' \in [fifo : Seq(Bytes), mis : BOOLEAN] /\ Len(port'.fifo) <= FIFO_SIZE
  <2>1. ASSUME NEW b \in Bytes, PortByte(b)  PROVE  port' \in [fifo : Seq(Bytes), mis : BOOLEAN] /\ Len(port'.fifo) <= FIFO_SIZE
    <3>1. Append(port.fifo, b) \in Seq(Bytes) /\ Len(Append(port.fifo, b)) = Len(port.fifo) + 1
          /\ Len(port.fifo) \in Nat /\ Len(port.fifo) < FIFO_SIZE
      BY <1>1, <2>1, AppendProperties, LenProperties DEF PortByte
    <3>2. port' = [port EXCEPT !.fifo = Append(port.fifo, b)]  BY <2>1 DEF PortByte
    <3>3. port'.fifo = Append(port.fifo, b) /\ port' \in [fifo : Seq(Bytes), mis : BOOLEAN]
      BY <1>1, <3>1, <3>2
    <3> QED  BY <1>1, <3>1, <3>3
  <2>2. ASSUME PortRaise  PROVE  port' \in [fifo : Seq(Bytes), mis : BOOLEAN] /\ Len(port'.fifo) <= FIFO_SIZE  BY <1>1, <2>2 DEF PortRaise
  <2> QED  BY <2>1, <2>2
<1>4. UartTypeOK'  BY <1>2, <1>3 DEF UartTypeOK, clientVars
<1>5. UartReading'  BY <1>2, ReadingKept DEF clientVars
<1> QED
  BY <1>2, <1>4, <1>5 DEF clientVars, UartOpenedByCount, UartNoLostWakeup, RxBufEmpty, UartFaults

-----------------------------------------------------------------------------
LEMMA UartInitInductive == UartInit => UartInductive
<1> SUFFICES ASSUME UartInit  PROVE UartInductive  OBVIOUS
<1> USE DEF UartInit
<1>1. EmptyRing \in Rings /\ <<>> \in Seq(Bytes) /\ Len(<<>>) = 0
  BY UartSizes, EmptySeq DEF EmptyRing, Rings
<1>2. reader \in [pc : {"idle"}, size : 1 .. BUF_SIZE, rp : Slots, wp : Slots, buf : Seq(Bytes)]
  <2>1. 1 \in 1 .. BUF_SIZE /\ 0 \in Slots /\ <<>> \in Seq(Bytes)  BY <1>1, UartSizes
  <2> QED  BY <2>1 DEF NoRead
<1>3. Cardinality({}) = 0  BY FS_EmptySet
<1>4. UartTypeOK
  <2>1. /\ ustate \in {"NOT_OPENED", "OPENING", "USEABLE"} /\ ucount \in 0 .. Cardinality(Clients)
        /\ opened \subseteq Clients /\ taken \in Seq(Bytes)
    BY <1>1, UartSizes
  <2>2. {transfer, closing, blocking, uevent, irqOn} \subseteq BOOLEAN  OBVIOUS
  <2>3. /\ uirq \in [pc : {"idle", "loop", "recv", "clear", "fault"}, buf : Seq(Bytes)]
        /\ port \in [fifo : Seq(Bytes), mis : BOOLEAN]
    BY <1>1
  <2>4. Len(uirq.buf) <= FIFO_SIZE /\ Len(port.fifo) <= FIFO_SIZE  BY <1>1, UartSizes
  <2> QED  BY <1>1, <1>2, <2>1, <2>2, <2>3, <2>4 DEF UartTypeOK, Rings
<1>5. UartOpenedByCount  BY <1>3 DEF UartOpenedByCount
<1>6. UartNoLostWakeup /\ UartFaults /\ UartReading
  BY <1>2 DEF UartNoLostWakeup, UartFaults, UartReading
<1> QED  BY <1>4, <1>5, <1>6 DEF UartInductive, UartInvariant

LEMMA UartNextInductive == UartInductive /\ [UartNext]_uartVars => UartInductive'
<1> SUFFICES ASSUME UartInductive, [UartNext]_uartVars  PROVE UartInductive'  OBVIOUS
<1>1. ASSUME NEW c \in Clients, Open(c) \/ OpenFails(c) \/ Close(c) \/ Config(c)
      PROVE  UartInductive'
  BY <1>1, OpenStep, OpenFailsStep, CloseStep, ConfigStep
<1>2. CASE ShutDown  BY <1>2, ShutDownStep
<1>3. ASSUME NEW c \in Clients, NEW block \in BOOLEAN, SetTransMode(c, block)
      PROVE  UartInductive'
  BY <1>3, SetTransModeStep
<1>4. ASSUME NEW n \in 1 .. BUF_SIZE, ReadStart(n)  PROVE UartInductive'
  BY <1>4, ReadStartStep
<1>5. CASE Read  BY <1>5, ReadSteps
<1>6. CASE UartIrq  BY <1>6, IrqSteps
<1>7. CASE (\E b \in Bytes : PortByte(b)) \/ PortRaise  BY <1>7, PortSteps
<1>8. CASE UNCHANGED uartVars
  <2> USE <1>8 DEF uartVars, clientVars
  <2>1. UartReading'  BY ReadingKept DEF UartInductive
  <2> QED
    BY <2>1 DEF UartInductive, UartInvariant, UartTypeOK, UartOpenedByCount, UartNoLostWakeup,
                RxBufEmpty, UartFaults
<1> QED  BY <1>1, <1>2, <1>3, <1>4, <1>5, <1>6, <1>7, <1>8 DEF UartNext

(* UartInductive is an inductive invariant of the driver.                  *)
THEOREM UartAlwaysInductive == UartSpec => []UartInductive
BY UartInitInductive, UartNextInductive, PTL DEF UartSpec

(* The port is counted open as often as it is, no reader sleeps on bytes   *)
(* that have come, and the two faults are the only ones: Hi35xxInit,       *)
(* Hi35xxDeinit and Hi35xxRead against Pl011Irq, for any number of clients *)
(* and every size.                                                         *)
THEOREM PortIsSafe == UartSpec => []UartInvariant
<1>1. UartInductive => UartInvariant  BY DEF UartInductive
<1> QED  BY <1>1, UartAlwaysInductive, PTL

-----------------------------------------------------------------------------
(* Each step of the driver is a step of ByteStream.                        *)
LEMMA QuietStep ==
  ASSUME UNCHANGED <<ring, transfer, taken>>
  PROVE  UNCHANGED Stream!streamVars
BY DEF Stream!streamVars, Contents, Length

LEMMA FirstOpenIsQuiet ==
  ASSUME UartInductive, NEW c \in Clients, Open(c), FirstOpen
  PROVE  UNCHANGED Stream!streamVars
<1>1. opened = {} /\ ~ closing /\ ~ transfer
  BY DEF UartInductive, UartInvariant, UartOpenedByCount, Open, Opening, FirstOpen
<1>2. transfer' = TRUE /\ ring' = EmptyRing /\ taken' = taken  BY DEF Open, FirstOpen
<1>3. EmptyRing \in Rings /\ Held(EmptyRing) = 0
  BY UartSizes DEF EmptyRing, Rings, Held
<1>4. Contents' = ContentsOf(EmptyRing)  BY <1>2, <1>3, RingThen
<1>5. ContentsOf(EmptyRing) = <<>>
  BY <1>3, HeldContents, EmptySeq
<1> QED  BY <1>1, <1>2, <1>4, <1>5 DEF Stream!streamVars

LEMMA AdvanceIsTake ==
  ASSUME UartInductive, ReadAdvance
  PROVE  Stream!Next
<1>1. /\ ring \in Rings /\ reader.pc = "advance" /\ transfer /\ reader.rp = ring.rp
      /\ reader.wp \in Slots /\ reader.size \in 1 .. BUF_SIZE
      /\ ReadCount <= Length /\ reader.buf = SubSeq(Contents, 1, ReadCount)
      /\ ring' = [ring EXCEPT !.rp = NextRp] /\ taken' = reader.buf /\ transfer' = transfer
  BY DEF UartInductive, UartInvariant, UartTypeOK, UartReading, ReadAdvance, clientVars, Rings
<1>2. Length = Held(ring) /\ Contents = ContentsOf(ring) /\ Len(Contents) = Held(ring)
  BY <1>1, RingNow, HeldContents
<1>3. ReadCount \in 0 .. Held(ring) /\ NextRp = Wrap(ring.rp + ReadCount)
  BY <1>1, <1>2, ReadTakes
<1>4. ring' \in Rings /\ ContentsOf(ring') = SubSeq(ContentsOf(ring), ReadCount + 1, Held(ring))
  BY <1>1, <1>3, Advanced
<1>5. Contents' = SubSeq(Contents, ReadCount + 1, Len(Contents))
  BY <1>2, <1>4, RingThen
<1>6. Stream!Take(ReadCount)  BY <1>1, <1>5 DEF Stream!Take
<1> QED  BY <1>1, <1>2, <1>3, <1>6 DEF Stream!Next

LEMMA RecvIsArrive ==
  ASSUME UartInductive, IrqRecv
  PROVE  Stream!Next \/ UNCHANGED Stream!streamVars
<1>1. /\ ring \in Rings /\ uirq.buf \in Seq(Bytes) /\ UNCHANGED <<transfer, taken>>
  BY DEF UartInductive, UartInvariant, UartTypeOK, IrqRecv, irqOthers, clientVars, Rings
<1>2. CASE transfer /\ ring' = Stored(uirq.buf)
  <2> DEFINE n == Least(Len(uirq.buf), Room)
             more == SubSeq(uirq.buf, 1, n)
  <2>1. /\ n \in 0 .. Len(uirq.buf) /\ Held(ring) + n <= BUF_SIZE - 1 /\ ring' \in Rings
        /\ ContentsOf(ring') = ContentsOf(ring) \o more
    BY <1>1, <1>2, StoreAppends
  <2> HIDE DEF n
  <2>2. more \in Seq(Bytes) /\ Len(more) = n
    <3>1. \A i \in 1 .. n : uirq.buf[i] \in Bytes  BY <1>1, <2>1, ElementOfSeq
    <3> QED  BY <2>1, <3>1, SubSeqProperties
  <2> HIDE DEF more
  <2>3. /\ Contents = ContentsOf(ring) /\ Len(Contents) = Held(ring) /\ Held(ring) \in Nat
        /\ Contents' = Contents \o more
    BY <1>1, <2>1, RingNow, RingThen, HeldContents, HeldLinear
  <2>4. Stream!Arrive(more)
    BY <1>1, <1>2, <2>1, <2>2, <2>3 DEF Stream!Arrive
  <2>5. more \in Stream!BoundedSeq(Bytes, BUF_SIZE - 1)
    <3>1. n \in 0 .. BUF_SIZE - 1  BY <2>1, <2>3, UartSizes
    <3>2. more \in [1 .. n -> Bytes]  BY <2>2
    <3> QED  BY <3>1, <3>2 DEF Stream!BoundedSeq, Stream!SeqOf
  <2> QED  BY <2>4, <2>5 DEF Stream!Next
<1>3. CASE UNCHANGED ring  BY <1>1, <1>3, QuietStep
<1> QED  BY <1>2, <1>3 DEF IrqRecv

LEMMA UartStepIsStreamStep ==
  ASSUME UartInductive, [UartNext]_uartVars
  PROVE  Stream!Next \/ UNCHANGED Stream!streamVars
<1>1. ASSUME NEW c \in Clients, Open(c)  PROVE UNCHANGED Stream!streamVars
  <2>1. CASE FirstOpen  BY <1>1, <2>1, FirstOpenIsQuiet
  <2>2. CASE OpenAgain  BY <1>1, <2>2, QuietStep DEF Open, OpenAgain
  <2> QED  BY <1>1, <2>1, <2>2 DEF Open
<1>2. ASSUME NEW c \in Clients, OpenFails(c) \/ Close(c) \/ Config(c)
      PROVE  UNCHANGED Stream!streamVars
  BY <1>2, QuietStep DEF OpenFails, Close, Config, clientVars
<1>3. CASE ShutDown
  <2>1. Stream!Close  BY <1>3 DEF ShutDown, Stream!Close
  <2> QED  BY <2>1 DEF Stream!Next
<1>4. ASSUME NEW c \in Clients, NEW block \in BOOLEAN, SetTransMode(c, block)
      PROVE  UNCHANGED Stream!streamVars
  BY <1>4, QuietStep DEF SetTransMode
<1>5. ASSUME NEW k \in 1 .. BUF_SIZE, ReadStart(k)  PROVE Stream!Next
  <2>1. taken' = <<>> /\ UNCHANGED <<ring, transfer>>  BY <1>5 DEF ReadStart, clientVars
  <2>2. Stream!Call  BY <2>1 DEF Stream!Call, Contents, Length
  <2> QED  BY <2>2 DEF Stream!Next
<1>6. CASE Read
  <2>1. CASE ReadAdvance  BY <2>1, AdvanceIsTake
  <2>2. CASE ReadWait \/ ReadFetch \/ ReadCopy \/ ReadCheck \/ ReadClear
    BY <2>2, QuietStep DEF ReadWait, ReadFetch, ReadCopy, ReadCheck, ReadClear, clientVars
  <2> QED  BY <1>6, <2>1, <2>2 DEF Read
<1>7. CASE UartIrq
  <2>1. CASE IrqRecv  BY <2>1, RecvIsArrive
  <2>2. CASE UartIrqEnter \/ IrqByte \/ IrqEmpty \/ IrqClear
    BY <2>2, QuietStep DEF UartIrqEnter, IrqByte, IrqEmpty, IrqClear, irqOthers, clientVars
  <2> QED  BY <1>7, <2>1, <2>2 DEF UartIrq
<1>8. CASE (\E b \in Bytes : PortByte(b)) \/ PortRaise
  BY <1>8, QuietStep DEF PortByte, PortRaise, portOthers, clientVars
<1>9. CASE UNCHANGED uartVars  BY <1>9, QuietStep DEF uartVars, clientVars
<1> QED  BY <1>1, <1>2, <1>3, <1>4, <1>5, <1>6, <1>7, <1>8, <1>9 DEF UartNext

(* The driver implements ByteStream: whatever the interrupt adds while a   *)
(* read is under way, around the end of the ring too, no byte that was     *)
(* accepted is lost, repeated or out of order.                             *)
THEOREM BytesAreTheStream == UartSpec => ImplementsByteStream
<1>1. UartInit => Stream!Init  BY DEF UartInit, Stream!Init
<1>2. UartInductive /\ [UartNext]_uartVars => [Stream!Next]_(Stream!streamVars)
  BY UartStepIsStreamStep
<1> QED  BY <1>1, <1>2, UartAlwaysInductive, PTL DEF UartSpec, ImplementsByteStream, Stream!Spec
=============================================================================
