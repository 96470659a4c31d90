--------------------------- MODULE VirtNet_proofs ---------------------------
(***************************************************************************)
(* The virtio-net driver is correct for every queue size, every width of   *)
(* the indices and every set of NetBufs.  First transmission: TxInductive  *)
(* is an inductive invariant of TxSpec, which implements the queue of      *)
(* NetBufQueue.  Then reception: RxInductive, and the queue of FrameFifo.  *)
(* Last the driver as a whole: the composition implements each half.       *)
(***************************************************************************)
EXTENDS VirtNet, Virtq_proofs, FiniteSetTheorems

-----------------------------------------------------------------------------
(* Transmission: LowLevelOutput, VirtnetTxHandle.                          *)

(* The sizes: a queue holds a chain, and the index is at least as wide.    *)
LEMMA TxSizes ==
  /\ TXQ \in Nat \ {0} /\ TXQ >= 2 /\ TXQ % 2 = 0
  /\ IDX \in Nat \ {0} /\ IDX % TXQ = 0 /\ IDX >= TXQ
  /\ Descs = 0 .. TXQ - 1
<1>1. TXQ \in Nat \ {0} /\ IDX \in Nat \ {0} /\ IDX % TXQ = 0 /\ TXQ % 2 = 0
  BY TxAssumption, IdxAssumption DEF PER_TX_ENTRIES
<1>2. TXQ # 1
  <2>1. 1 % 2 = 1  OBVIOUS
  <2> QED  BY <1>1, <2>1
<1>3. ASSUME IDX < TXQ PROVE FALSE
  <2>1. ((TXQ * 0) + IDX) % TXQ = IDX
    BY <1>1, <1>3, ModUnique
  <2>2. (TXQ * 0) + IDX = IDX  BY <1>1
  <2> QED  BY <1>1, <2>1, <2>2
<1> QED  BY <1>1, <1>2, <1>3 DEF Descs

(* A chain is an even descriptor and its successor, and no two overlap.    *)
LEMMA HeadFacts ==
  /\ \A h \in Heads : /\ h \in Descs /\ h + 1 \in Descs
                      /\ h \in Int /\ h + 1 \notin Heads
  /\ \A g, h \in Heads : g + 1 = h + 1 => g = h
  /\ 0 \in Heads
BY TxSizes DEF Heads, PER_TX_ENTRIES

(* The counts are natural numbers.                                         *)
LEMMA CountTypes ==
  ASSUME TxTypeOK
  PROVE  /\ Dist(tDev.last, tAvail.index) \in Nat
         /\ Dist(tLast, tUsed.index) \in Nat
         /\ Cardinality(tDev.own) \in Nat /\ IsFiniteSet(tDev.own)
<1>1. tDev.own \in SUBSET (0 .. TXQ - 1)
  BY TxSizes DEF TxTypeOK
<1>2. IsFiniteSet(0 .. TXQ - 1)
  BY FS_Interval, TxSizes
<1>3. IsFiniteSet(tDev.own)
  BY <1>1, <1>2, FS_Subset
<1>4. Cardinality(tDev.own) \in Nat
  BY <1>3, FS_CardinalityType
<1>5. /\ tDev.last \in Indices /\ tAvail.index \in Indices
      /\ tLast \in Indices /\ tUsed.index \in Indices
  BY DEF TxTypeOK
<1>6. /\ Dist(tDev.last, tAvail.index) \in 0 .. IDX - 1
      /\ Dist(tLast, tUsed.index) \in 0 .. IDX - 1
  BY <1>5, DistPositive
<1> QED  BY <1>3, <1>4, <1>6, TxSizes

(* A chain that is not yet published leaves room for it in the avail ring. *)
LEMMA AvailHasRoom ==
  ASSUME TxTypeOK, TxCounted, Filling # {}
  PROVE  /\ Dist(tDev.last, tAvail.index) < TXQ
         /\ Dist(tDev.last, tAvail.index) < IDX - 1
<1> DEFINE da == Dist(tDev.last, tAvail.index)
           du == Dist(tLast, tUsed.index)
           no == Cardinality(tDev.own)
<1>1. tFreeNum \in Nat  BY TxSizes DEF TxTypeOK
<1>2. da \in Nat /\ du \in Nat /\ no \in Nat  BY CountTypes
<1>3. TXQ = tFreeNum + 2 * (1 + (da + du) + no)
  BY DEF TxCounted, PER_TX_ENTRIES
<1> HIDE DEF da, du, no
<1>4. da < TXQ /\ da < IDX - 1  BY <1>1, <1>2, <1>3, TxSizes
<1> QED  BY <1>4 DEF da

(* A chain the device has not yet used leaves room for it in the used ring. *)
LEMMA UsedHasRoom ==
  ASSUME TxTypeOK, TxCounted, tDev.own # {}
  PROVE  /\ Dist(tLast, tUsed.index) < TXQ
         /\ Dist(tLast, tUsed.index) < IDX - 1
<1> DEFINE da == Dist(tDev.last, tAvail.index)
           du == Dist(tLast, tUsed.index)
           no == Cardinality(tDev.own)
           nf == IF Filling = {} THEN 0 ELSE 1
<1>1. tFreeNum \in Nat /\ nf \in Nat  BY TxSizes DEF TxTypeOK
<1>2. da \in Nat /\ du \in Nat /\ no \in Nat  BY CountTypes
<1>3. no # 0  BY CountTypes, FS_EmptySet
<1>4. TXQ = tFreeNum + 2 * (nf + (da + du) + no)
  BY DEF TxCounted, PER_TX_ENTRIES
<1> HIDE DEF da, du, no, nf
<1>5. du < TXQ /\ du < IDX - 1  BY <1>1, <1>2, <1>3, <1>4, TxSizes
<1> QED  BY <1>5 DEF du

(* A step that moves no chain and no NetBuf preserves the invariant.       *)
LEMMA NothingMoves ==
  ASSUME TxInductive, TxTypeOK', IrqTypeOK',
         UNCHANGED <<desc, tFreeHdr, tFreeNum, tbufRec, tLast, held, send>>,
         tAvail'.ring = tAvail.ring, tAvail'.index = tAvail.index,
         tUsed'.ring = tUsed.ring, tUsed'.index = tUsed.index,
         tDev'.last = tDev.last, tDev'.own = tDev.own
  PROVE  TxInductive'
<1>1. Posted' = Posted /\ Done' = Done /\ InFlight' = InFlight /\ Filling' = Filling
  BY DEF Posted, Done, InFlight, Filling
<1>2. TxChainsPartitioned'
  BY <1>1 DEF TxInductive, TxChainsPartitioned, IsFreeList, Partition
<1>3. TxInFlightOnce'
  BY <1>1 DEF TxInductive, TxInFlightOnce
<1>4. TxNetBufsAccounted'
  BY <1>1 DEF TxInductive, TxNetBufsAccounted
<1>5. TxPairsIntact'
  BY DEF TxInductive, TxPairsIntact
<1>6. TxSendProgress'
  BY DEF TxInductive, TxSendProgress
<1>7. TxInFlightRecorded'
  BY <1>1 DEF TxInductive, TxInFlightRecorded
<1>8. TxCounted'
  BY <1>1 DEF TxInductive, TxCounted
<1> QED  BY <1>2, <1>3, <1>4, <1>5, <1>6, <1>7, <1>8 DEF TxInductive

-----------------------------------------------------------------------------
(* One lemma per step that moves a chain or a NetBuf                       *)

(* xmit takes over a NetBuf the driver did not have.                        *)
LEMMA XmitStep ==
  ASSUME TxInductive, NEW p \in NetBufs, Xmit(p)
  PROVE  TxInductive'
<1>1. TxTypeOK' /\ IrqTypeOK'
  BY DEF TxInductive, TxTypeOK, IrqTypeOK, Xmit, SendPcs, irqVars
<1>2. Filling = {} /\ Filling' = {}
  BY DEF Xmit, Filling, TxInductive, TxTypeOK
<1>3. Posted' = Posted /\ Done' = Done /\ InFlight' = InFlight
  BY DEF Posted, Done, InFlight, Xmit
<1>4. TxChainsPartitioned'
  BY <1>2, <1>3 DEF TxInductive, TxChainsPartitioned, IsFreeList, Partition, Xmit
<1>5. TxInFlightOnce'
  BY <1>3 DEF TxInductive, TxInFlightOnce, Xmit
<1>6. TxNetBufsAccounted'
  <2>1. send.pc = "idle" /\ send'.pc = "get" /\ send'.buf = p
    BY DEF Xmit, TxInductive, TxTypeOK
  <2> QED  BY <1>3, <2>1 DEF TxInductive, TxNetBufsAccounted, Xmit
<1>7. TxPairsIntact'
  BY DEF TxInductive, TxPairsIntact, Xmit
<1>8. TxSendProgress'
  BY TxAssumption DEF TxInductive, TxTypeOK, TxSendProgress, Xmit
<1>9. TxInFlightRecorded'
  BY <1>3 DEF TxInductive, TxInFlightRecorded, Xmit
<1>10. TxCounted'
  BY <1>2 DEF TxInductive, TxCounted, Xmit
<1> QED  BY <1>1, <1>4, <1>5, <1>6, <1>7, <1>8, <1>9, <1>10 DEF TxInductive

(* The first chain of the free list becomes the one being filled; the rest  *)
(* of the list is the free list.                                            *)
LEMMA GetTxFreeEntryStep ==
  ASSUME TxInductive, GetTxFreeEntry
  PROVE  TxInductive'
<1>1. PICK n \in 0 .. TXQ : \E s \in [1 .. n -> Heads] : IsFreeList(s, n) /\ Partition(s, n)
  BY DEF TxInductive, TxChainsPartitioned
<1>2. PICK s \in [1 .. n -> Heads] : IsFreeList(s, n) /\ Partition(s, n)
  BY <1>1
<1>3. n >= 1 /\ n \in Nat /\ tFreeNum = 2 * n /\ tFreeNum >= 2
  BY <1>2, TxSizes DEF GetTxFreeEntry, HasRoom, IsFreeList, PER_TX_ENTRIES
<1>4. tFreeHdr = s[1] /\ tFreeHdr \in Heads
  BY <1>2, <1>3 DEF IsFreeList
<1>5. NextFree = desc[tFreeHdr + 1].next
  BY <1>4 DEF NextFree, TxInductive, TxPairsIntact
<1>6. NextFree \in Descs
  BY <1>4, <1>5, HeadFacts DEF TxInductive, TxTypeOK
<1>7. /\ send.pc = "get" /\ send'.pc = "clear" /\ send'.head = tFreeHdr
      /\ send'.buf = send.buf
      /\ tFreeHdr' = NextFree /\ tFreeNum' = tFreeNum - 2
      /\ UNCHANGED <<desc, tbufRec, tAvail, tUsed, tLast, held, tDev, isr, irqPc>>
  BY DEF GetTxFreeEntry, TxInductive, TxTypeOK, PER_TX_ENTRIES, irqVars
<1>8. TxTypeOK' /\ IrqTypeOK'
  <2>1. send' \in [pc : SendPcs, buf : NetBufs \cup {NoBuf}, head : Descs]
    BY <1>4, HeadFacts DEF GetTxFreeEntry, TxInductive, TxTypeOK, SendPcs
  <2>2. tFreeNum' \in 0 .. TXQ
    BY <1>3, <1>7, TxSizes DEF TxInductive, TxTypeOK
  <2> QED  BY <1>6, <1>7, <2>1, <2>2 DEF TxInductive, TxTypeOK, IrqTypeOK
<1>9. Filling = {} /\ Filling' = {s[1]}
  BY <1>4, <1>7 DEF Filling
<1>10. Posted' = Posted /\ Done' = Done /\ InFlight' = InFlight
  BY <1>7 DEF Posted, Done, InFlight
<1>11. TxChainsPartitioned'
  <2> DEFINE t == [i \in 1 .. n - 1 |-> s[i + 1]]
  <2>1. n - 1 \in 0 .. TXQ /\ t \in [1 .. n - 1 -> Heads]
    BY <1>3, TxSizes
  <2>2. IsFreeList(t, n - 1)'
    <3>1. tFreeNum' = PER_TX_ENTRIES * (n - 1)
      BY <1>3, <1>7 DEF PER_TX_ENTRIES
    <3>2. n - 1 > 0 => t[1] = tFreeHdr'
      BY <1>2, <1>3, <1>4, <1>5, <1>7 DEF IsFreeList
    <3>3. \A i \in 1 .. (n - 1) - 1 : desc'[t[i] + 1].next = t[i + 1]
      BY <1>2, <1>3, <1>7 DEF IsFreeList
    <3>4. \A i, j \in 1 .. n - 1 : i # j => t[i] # t[j]
      BY <1>2, <1>3 DEF IsFreeList
    <3> QED  BY <3>1, <3>2, <3>3, <3>4 DEF IsFreeList
  <2>3. {t[i] : i \in 1 .. n - 1} = {s[i] : i \in 1 .. n} \ {s[1]}
    <3>1. \A i \in 1 .. n : i = 1 \/ (i - 1 \in 1 .. n - 1 /\ t[i - 1] = s[i])
      BY <1>3
    <3>2. \A i \in 1 .. n - 1 : i + 1 \in 1 .. n /\ t[i] = s[i + 1] /\ i + 1 # 1
      BY <1>3
    <3>3. \A i, j \in 1 .. n : i # j => s[i] # s[j]
      BY <1>2 DEF IsFreeList
    <3>4. 1 \in 1 .. n  BY <1>3
    <3> HIDE DEF t
    <3>5. \A i \in 1 .. n - 1 : t[i] \in {s[j] : j \in 1 .. n} \ {s[1]}
      BY <3>2, <3>3, <3>4
    <3>6. \A i \in 1 .. n : s[i] # s[1] => s[i] \in {t[j] : j \in 1 .. n - 1}
      BY <3>1
    <3> QED  BY <3>5, <3>6
  <2>4. s[1] \in {s[i] : i \in 1 .. n}  BY <1>3
  <2>5. Partition(t, n - 1)'
    <3> HIDE DEF t
    <3> QED  BY ZenonT(60), <1>2, <1>9, <1>10, <2>3, <2>4 DEF Partition, Heads
  <2> HIDE DEF t
  <2> QED  BY <2>1, <2>2, <2>5 DEF TxChainsPartitioned, Heads
<1>12. TxInFlightOnce'
  BY <1>7, <1>10 DEF TxInductive, TxInFlightOnce
<1>13. TxNetBufsAccounted'
  BY <1>7, <1>10 DEF TxInductive, TxNetBufsAccounted
<1>14. TxPairsIntact'
  BY <1>7 DEF TxInductive, TxPairsIntact
<1>15. TxSendProgress'
  BY <1>7 DEF TxInductive, TxSendProgress
<1>16. TxInFlightRecorded'
  BY <1>7, <1>10 DEF TxInductive, TxInFlightRecorded
<1>17. TxCounted'
  <2> DEFINE rings == Dist(tDev.last, tAvail.index) + Dist(tLast, tUsed.index)
             no == Cardinality(tDev.own)
  <2>1. rings \in Int /\ no \in Int  BY CountTypes DEF TxInductive
  <2>2. TXQ = tFreeNum + 2 * (0 + rings + no)
    BY <1>9 DEF TxInductive, TxCounted, PER_TX_ENTRIES
  <2>3. rings' = rings /\ no' = no  BY <1>7
  <2>4. TXQ = tFreeNum' + 2 * (1 + rings + no)
    <3> HIDE DEF rings, no
    <3> QED  BY <1>3, <1>7, <2>1, <2>2
  <2> QED  BY <1>9, <2>3, <2>4 DEF TxCounted, PER_TX_ENTRIES
<1> QED
  BY <1>8, <1>11, <1>12, <1>13, <1>14, <1>15, <1>16, <1>17 DEF TxInductive

(* The chain being filled is out of reach of the device and the free list.  *)
LEMMA FillingFacts ==
  ASSUME TxInductive, send.pc \in {"clear", "fill", "ring", "index"}
  PROVE  /\ Filling = {send.head}
         /\ send.head \in Heads /\ send.head \notin InFlight
         /\ desc[send.head].next = send.head + 1
         /\ \A h \in InFlight : h \in Heads /\ h + 1 # send.head + 1
<1>1. Filling = {send.head}
  BY DEF Filling
<1>2. Heads = Heads \cup Filling \cup InFlight /\ Filling \cap InFlight = {}
  BY DEF TxInductive, TxChainsPartitioned, Partition
<1>3. send.head \in Heads
  BY <1>1, <1>2
<1>4. desc[send.head].next = send.head + 1
  BY <1>3 DEF TxInductive, TxPairsIntact
<1> QED  BY <1>1, <1>2, <1>3, <1>4, HeadFacts

(* A descriptor: its next index, VIRTQ_DESC_F_NEXT and the NetBuf.          *)
Desc == [next : Descs, more : BOOLEAN, buf : NetBufs \cup {NoBuf}]

(* Changing one field of one descriptor leaves descriptors.                 *)
LEMMA DescUpdate ==
  ASSUME NEW d \in [Descs -> Desc], NEW i \in Descs, NEW b \in BOOLEAN,
         NEW n \in Descs, NEW p \in NetBufs \cup {NoBuf}
  PROVE  /\ [d EXCEPT ![i].more = b] \in [Descs -> Desc]
         /\ [d EXCEPT ![i].buf = p] \in [Descs -> Desc]
         /\ [d EXCEPT ![i].next = n] \in [Descs -> Desc]
<1>1. d[i] \in Desc  OBVIOUS
<1>2. /\ [d[i] EXCEPT !.more = b] \in Desc
      /\ [d[i] EXCEPT !.buf = p] \in Desc
      /\ [d[i] EXCEPT !.next = n] \in Desc
  BY <1>1 DEF Desc
<1> HIDE DEF Desc
<1> QED  BY <1>2

(* Clearing the flag of the payload descriptor touches no link.             *)
LEMMA ClearNextStep ==
  ASSUME TxInductive, ClearNext
  PROVE  TxInductive'
<1> DEFINE idx == send.head + 1
<1>1. /\ send.pc = "clear" /\ send'.pc = "fill"
      /\ send'.head = send.head /\ send'.buf = send.buf
      /\ UNCHANGED <<tFreeHdr, tFreeNum, tbufRec, tAvail, tUsed, tLast, held, tDev, isr, irqPc>>
  BY DEF ClearNext, SendStep, TxInductive, TxTypeOK, irqVars
<1>2. /\ Filling = {send.head} /\ send.head \in Heads /\ send.head \notin InFlight
      /\ \A h \in InFlight : h \in Heads /\ h + 1 # send.head + 1
      /\ desc[send.head].next = send.head + 1
  BY <1>1, FillingFacts
<1>3. idx \in Descs  BY <1>2, HeadFacts
<1>4. desc' = [desc EXCEPT ![idx].more = FALSE]
  BY <1>2 DEF ClearNext
<1>5. /\ \A d \in Descs : d # idx => desc'[d] = desc[d]
      /\ desc'[idx].next = desc[idx].next /\ desc'[idx].buf = desc[idx].buf
      /\ desc'[idx].more = FALSE
  BY <1>3, <1>4 DEF TxInductive, TxTypeOK
<1>6. TxTypeOK' /\ IrqTypeOK'
  <2>1. desc \in [Descs -> Desc]  BY DEF TxInductive, TxTypeOK, Desc
  <2>2. desc' \in [Descs -> Desc]
    BY <1>3, <1>4, <2>1, DescUpdate
  <2>3. send' \in [pc : SendPcs, buf : NetBufs \cup {NoBuf}, head : Descs]
    BY DEF TxInductive, TxTypeOK, ClearNext, SendStep, SendPcs
  <2> QED  BY <1>1, <2>2, <2>3 DEF TxInductive, TxTypeOK, IrqTypeOK, Desc
<1>7. Posted' = Posted /\ Done' = Done /\ InFlight' = InFlight /\ Filling' = Filling
  BY <1>1 DEF Posted, Done, InFlight, Filling
<1>8. \A h \in Heads : /\ desc'[h] = desc[h]
                       /\ desc'[h + 1].next = desc[h + 1].next
                       /\ desc'[h + 1].buf = desc[h + 1].buf
  BY <1>2, <1>5, HeadFacts
<1>9. TxChainsPartitioned'
  BY <1>1, <1>7, <1>8 DEF TxInductive, TxChainsPartitioned, IsFreeList, Partition
<1>10. TxInFlightOnce'
  BY <1>1, <1>7 DEF TxInductive, TxInFlightOnce
<1>11. TxNetBufsAccounted'
  BY <1>1, <1>7 DEF TxInductive, TxNetBufsAccounted
<1>12. TxPairsIntact'
  BY <1>8 DEF TxInductive, TxPairsIntact
<1>13. TxSendProgress'
  BY <1>1, <1>5 DEF TxInductive, TxSendProgress
<1>14. TxInFlightRecorded'
  BY <1>1, <1>2, <1>5, <1>7, HeadFacts DEF TxInductive, TxInFlightRecorded
<1>15. TxCounted'
  BY <1>1, <1>7 DEF TxInductive, TxCounted
<1> QED
  BY <1>6, <1>9, <1>10, <1>11, <1>12, <1>13, <1>14, <1>15 DEF TxInductive

(* The NetBuf is recorded on a chain nobody else has.                       *)
LEMMA FillDescStep ==
  ASSUME TxInductive, FillDesc
  PROVE  TxInductive'
<1> DEFINE idx == send.head + 1
<1>1. /\ send.pc = "fill" /\ send'.pc = "ring"
      /\ send'.head = send.head /\ send'.buf = send.buf
      /\ UNCHANGED <<tFreeHdr, tFreeNum, tAvail, tUsed, tLast, held, tDev, isr, irqPc>>
  BY DEF FillDesc, SendStep, TxInductive, TxTypeOK, irqVars
<1>2. /\ Filling = {send.head} /\ send.head \in Heads /\ send.head \notin InFlight
      /\ \A h \in InFlight : h \in Heads /\ h + 1 # send.head + 1
      /\ desc[send.head].next = send.head + 1
  BY <1>1, FillingFacts
<1>3. idx \in Descs  BY <1>2, HeadFacts
<1>4. /\ desc' = [desc EXCEPT ![idx].buf = send.buf]
      /\ tbufRec' = [tbufRec EXCEPT ![idx] = send.buf]
  BY <1>2 DEF FillDesc, Record
<1>5. /\ \A d \in Descs : d # idx => desc'[d] = desc[d] /\ tbufRec'[d] = tbufRec[d]
      /\ desc'[idx].next = desc[idx].next /\ desc'[idx].more = desc[idx].more
      /\ desc'[idx].buf = send.buf /\ tbufRec'[idx] = send.buf
  BY <1>3, <1>4 DEF TxInductive, TxTypeOK
<1>6. TxTypeOK' /\ IrqTypeOK'
  <2>1. send.buf \in NetBufs \cup {NoBuf}
    BY DEF TxInductive, TxTypeOK
  <2>2. desc' \in [Descs -> Desc]
    <3>1. desc \in [Descs -> Desc]  BY DEF TxInductive, TxTypeOK, Desc
    <3> QED  BY <1>3, <1>4, <2>1, <3>1, DescUpdate
  <2>4. tbufRec' \in [Descs -> NetBufs \cup {NoBuf}]
    BY <1>4, <2>1 DEF TxInductive, TxTypeOK
  <2>3. send' \in [pc : SendPcs, buf : NetBufs \cup {NoBuf}, head : Descs]
    BY DEF TxInductive, TxTypeOK, FillDesc, SendStep, SendPcs
  <2> QED  BY <1>1, <2>2, <2>3, <2>4 DEF TxInductive, TxTypeOK, IrqTypeOK, Desc
<1>7. Posted' = Posted /\ Done' = Done /\ InFlight' = InFlight /\ Filling' = Filling
  BY <1>1 DEF Posted, Done, InFlight, Filling
<1>8. \A h \in Heads : /\ desc'[h] = desc[h]
                       /\ desc'[h + 1].next = desc[h + 1].next
                       /\ desc'[h + 1].more = desc[h + 1].more
  BY <1>2, <1>5, HeadFacts
<1>9. \A h \in InFlight : /\ desc'[h + 1] = desc[h + 1]
                          /\ tbufRec'[h + 1] = tbufRec[h + 1]
  BY <1>2, <1>5, HeadFacts
<1>10. TxChainsPartitioned'
  BY <1>1, <1>7, <1>8 DEF TxInductive, TxChainsPartitioned, IsFreeList, Partition
<1>11. TxInFlightOnce'
  BY <1>1, <1>7 DEF TxInductive, TxInFlightOnce
<1>12. TxNetBufsAccounted'
  BY <1>1, <1>7, <1>9 DEF TxInductive, TxNetBufsAccounted
<1>13. TxPairsIntact'
  BY <1>8 DEF TxInductive, TxPairsIntact
<1>14. TxSendProgress'
  BY <1>1, <1>5 DEF TxInductive, TxSendProgress
<1>15. TxInFlightRecorded'
  BY <1>7, <1>9 DEF TxInductive, TxInFlightRecorded
<1>16. TxCounted'
  BY <1>1, <1>7 DEF TxInductive, TxCounted
<1> QED
  BY <1>6, <1>10, <1>11, <1>12, <1>13, <1>14, <1>15, <1>16 DEF TxInductive

(* The avail ring has room: no published entry is overwritten.              *)
LEMMA PutAvailStep ==
  ASSUME TxInductive, PutAvail
  PROVE  TxInductive'
<1> DEFINE slot == Slot(tAvail.index, TXQ)
           r2 == [tAvail.ring EXCEPT ![slot] = send.head]
<1>1. /\ send.pc = "ring" /\ send'.pc = "index"
      /\ send'.head = send.head /\ send'.buf = send.buf
      /\ UNCHANGED <<desc, tFreeHdr, tFreeNum, tbufRec, tUsed, tLast, held, tDev, isr, irqPc>>
      /\ tAvail' = [tAvail EXCEPT !.ring[slot] = send.head]
  BY DEF PutAvail, SendStep, TxInductive, TxTypeOK, irqVars, txDrvVars
<1>2. tAvail'.ring = r2 /\ tAvail'.index = tAvail.index /\ tAvail'.flag = tAvail.flag
  BY <1>1 DEF TxInductive, TxTypeOK
<1>3. Filling = {send.head} /\ send.head \in Heads
  BY <1>1, FillingFacts
<1>4. /\ tAvail.ring \in [0 .. TXQ - 1 -> Descs] /\ send.head \in Descs
      /\ tDev.last \in Indices /\ tAvail.index \in Indices
  BY TxSizes DEF TxInductive, TxTypeOK
<1>5. /\ Dist(tDev.last, tAvail.index) < TXQ
      /\ Dist(tDev.last, tAvail.index) < IDX - 1
  BY <1>3, AvailHasRoom DEF TxInductive
<1>6. /\ r2[slot] = send.head
      /\ Entries(r2, tDev.last, tAvail.index, TXQ) = Posted
      /\ NoRepeat(tAvail.ring, tDev.last, tAvail.index, TXQ)
           => NoRepeat(r2, tDev.last, tAvail.index, TXQ)
  BY <1>4, <1>5, TxSizes, EntriesWrite DEF Posted
<1> HIDE DEF r2
<1>7. Posted' = Posted /\ Done' = Done /\ InFlight' = InFlight /\ Filling' = Filling
  BY <1>1, <1>2, <1>6 DEF Posted, Done, InFlight, Filling
<1>8. TxTypeOK' /\ IrqTypeOK'
  <2>1. tAvail' \in [ring : [Descs -> Descs], index : Indices, flag : BOOLEAN]
    BY <1>1, <1>4 DEF TxInductive, TxTypeOK
  <2> QED  BY <1>1, <2>1 DEF TxInductive, TxTypeOK, IrqTypeOK, PutAvail, SendStep, SendPcs
<1>9. TxChainsPartitioned'
  BY <1>1, <1>7 DEF TxInductive, TxChainsPartitioned, IsFreeList, Partition
<1>10. TxInFlightOnce'
  BY <1>1, <1>2, <1>6, <1>7 DEF TxInductive, TxInFlightOnce
<1>11. TxNetBufsAccounted'
  BY <1>1, <1>7 DEF TxInductive, TxNetBufsAccounted
<1>12. TxPairsIntact'
  BY <1>1 DEF TxInductive, TxPairsIntact
<1>13. TxSendProgress'
  BY <1>1, <1>2, <1>6 DEF TxInductive, TxSendProgress
<1>14. TxInFlightRecorded'
  BY <1>1, <1>7 DEF TxInductive, TxInFlightRecorded
<1>15. TxCounted'
  BY <1>1, <1>2, <1>7 DEF TxInductive, TxCounted
<1> QED
  BY <1>8, <1>9, <1>10, <1>11, <1>12, <1>13, <1>14, <1>15 DEF TxInductive

(* Publishing moves the chain from the sending task into the avail ring.    *)
LEMMA BumpAvailStep ==
  ASSUME TxInductive, BumpAvail
  PROVE  TxInductive'
<1>1. /\ send.pc = "index" /\ send'.pc = "notify"
      /\ send'.head = send.head /\ send'.buf = send.buf
      /\ UNCHANGED <<desc, tFreeHdr, tFreeNum, tbufRec, tUsed, tLast, held, tDev, isr, irqPc>>
      /\ tAvail' = [tAvail EXCEPT !.index = Inc(tAvail.index)]
  BY DEF BumpAvail, SendStep, TxInductive, TxTypeOK, irqVars, txDrvVars
<1>2. tAvail'.ring = tAvail.ring /\ tAvail'.index = Inc(tAvail.index)
  BY <1>1 DEF TxInductive, TxTypeOK
<1>3. /\ Filling = {send.head} /\ send.head \in Heads /\ send.head \notin InFlight
      /\ \A h \in InFlight : h \in Heads /\ h + 1 # send.head + 1
  BY <1>1, FillingFacts
<1>4. Filling' = {}  BY <1>1 DEF Filling
<1>5. tDev.last \in Indices /\ tAvail.index \in Indices
  BY DEF TxInductive, TxTypeOK
<1>6. /\ Dist(tDev.last, tAvail.index) < TXQ
      /\ Dist(tDev.last, tAvail.index) < IDX - 1
  BY <1>3, AvailHasRoom DEF TxInductive
<1>7. tAvail.ring[Slot(tAvail.index, TXQ)] = send.head
  BY <1>1 DEF TxInductive, TxSendProgress
<1>8. /\ Posted' = Posted \cup {send.head}
      /\ send.head \notin Posted
      /\ NoRepeat(tAvail.ring, tDev.last, tAvail.index, TXQ)
           => NoRepeat(tAvail.ring, tDev.last, Inc(tAvail.index), TXQ)
  <2>1. send.head \notin Posted  BY <1>3 DEF InFlight
  <2> QED  BY <1>1, <1>2, <1>5, <1>6, <1>7, <2>1, TxSizes, EntriesPush DEF Posted
<1>9. Done' = Done /\ InFlight' = InFlight \cup {send.head}
  BY <1>1, <1>8 DEF Done, InFlight
<1>10. TxTypeOK' /\ IrqTypeOK'
  <2>1. tAvail' \in [ring : [Descs -> Descs], index : Indices, flag : BOOLEAN]
    BY <1>1, <1>5, DistPositive DEF TxInductive, TxTypeOK
  <2> QED  BY <1>1, <2>1 DEF TxInductive, TxTypeOK, IrqTypeOK, BumpAvail, SendStep, SendPcs
<1>11. TxChainsPartitioned'
  BY <1>1, <1>3, <1>4, <1>9 DEF TxInductive, TxChainsPartitioned, IsFreeList, Partition
<1>12. TxInFlightOnce'
  BY <1>1, <1>2, <1>3, <1>8, <1>9 DEF TxInductive, TxInFlightOnce, InFlight
<1>13. TxNetBufsAccounted'
  <2> DEFINE rec == {tbufRec[h + 1] : h \in InFlight}
  <2>1. /\ held = rec \cup {send.buf} /\ send.buf \notin rec
        /\ \A g, h \in InFlight : tbufRec[g + 1] = tbufRec[h + 1] => g = h
    BY <1>1 DEF TxInductive, TxNetBufsAccounted
  <2>2. tbufRec[send.head + 1] = send.buf
    BY <1>1 DEF TxInductive, TxSendProgress
  <2>3. \A g, h \in InFlight \cup {send.head} : tbufRec[g + 1] = tbufRec[h + 1] => g = h
    BY <2>1, <2>2
  <2>4. {tbufRec[h + 1] : h \in InFlight \cup {send.head}} = rec \cup {send.buf}
    BY <2>2
  <2> QED  BY <1>1, <1>9, <2>1, <2>3, <2>4 DEF TxNetBufsAccounted
<1>14. TxPairsIntact'
  BY <1>1 DEF TxInductive, TxPairsIntact
<1>15. TxSendProgress'
  BY <1>1 DEF TxInductive, TxSendProgress
<1>16. TxInFlightRecorded'
  BY <1>1, <1>9 DEF TxInductive, TxInFlightRecorded, TxSendProgress
<1>17. TxCounted'
  <2> DEFINE da == Dist(tDev.last, tAvail.index)
             du == Dist(tLast, tUsed.index)
             no == Cardinality(tDev.own)
  <2>1. da \in Int /\ du \in Int /\ no \in Int  BY CountTypes DEF TxInductive
  <2>2. TXQ = tFreeNum + 2 * (1 + (da + du) + no)
    BY <1>3 DEF TxInductive, TxCounted, PER_TX_ENTRIES
  <2>3. da' = da + 1 /\ du' = du /\ no' = no
    BY <1>1, <1>2, <1>5, <1>6, WindowPush
  <2>4. TXQ = tFreeNum + 2 * (0 + ((da + 1) + du) + no)
    <3> HIDE DEF da, du, no
    <3> QED  BY <2>1, <2>2
  <2> QED  BY <1>1, <1>4, <2>3, <2>4 DEF TxCounted, PER_TX_ENTRIES
<1> QED
  BY <1>10, <1>11, <1>12, <1>13, <1>14, <1>15, <1>16, <1>17 DEF TxInductive

(* The task forgets its NetBuf, which is on a chain in flight by now.       *)
LEMMA NotifyTxStep ==
  ASSUME TxInductive, NotifyTx
  PROVE  TxInductive'
<1>1. /\ send.pc = "notify" /\ send'.pc = "idle"
      /\ UNCHANGED <<desc, tFreeHdr, tFreeNum, tbufRec, tAvail, tUsed, tLast, held, isr, irqPc>>
      /\ tDev'.last = tDev.last /\ tDev'.own = tDev.own
  BY DEF NotifyTx, TxInductive, TxTypeOK, irqVars, txDrvVars
<1>2. Posted' = Posted /\ Done' = Done /\ InFlight' = InFlight
      /\ Filling = {} /\ Filling' = {}
  BY <1>1 DEF Posted, Done, InFlight, Filling
<1>3. TxTypeOK' /\ IrqTypeOK'
  BY <1>1 DEF NotifyTx, MustNotify, TxInductive, TxTypeOK, IrqTypeOK, SendPcs
<1>4. TxChainsPartitioned'
  BY <1>1, <1>2 DEF TxInductive, TxChainsPartitioned, IsFreeList, Partition
<1>5. TxInFlightOnce'
  BY <1>1, <1>2 DEF TxInductive, TxInFlightOnce
<1>6. TxNetBufsAccounted'
  BY <1>1, <1>2 DEF TxInductive, TxNetBufsAccounted
<1>7. TxPairsIntact' /\ TxSendProgress' /\ TxInFlightRecorded'
  BY <1>1, <1>2 DEF TxInductive, TxPairsIntact, TxSendProgress, TxInFlightRecorded
<1>8. TxCounted'
  BY <1>1, <1>2 DEF TxInductive, TxCounted
<1> QED  BY <1>3, <1>4, <1>5, <1>6, <1>7, <1>8 DEF TxInductive

(* A used chain goes back in front of the free list, and the NetBuf that is *)
(* freed is the one recorded on that chain and on no other.                 *)
LEMMA FreeTxEntryStep ==
  ASSUME TxInductive, FreeTxEntry
  PROVE  TxInductive'
<1> DEFINE head == tUsed.ring[Slot(tLast, TXQ)]
           idx == head + 1
           nb == tbufRec[idx]
<1>1. /\ tLast # tUsed.index /\ tLast \in Indices /\ tUsed.index \in Indices
      /\ NoRepeat(tUsed.ring, tLast, tUsed.index, TXQ)
  BY DEF FreeTxEntry, TxInductive, TxTypeOK, TxInFlightOnce
<1>2. /\ head \in Done
      /\ Entries(tUsed.ring, Inc(tLast), tUsed.index, TXQ) = Done \ {head}
      /\ NoRepeat(tUsed.ring, Inc(tLast), tUsed.index, TXQ)
  BY <1>1, TxSizes, EntriesPop DEF Done
<1>3. head \in InFlight /\ head \in Heads
  BY <1>2 DEF InFlight, TxInductive, TxChainsPartitioned, Partition
<1>4. desc[head].next = idx /\ idx \in Descs /\ head \in Descs
  BY <1>3, HeadFacts DEF TxInductive, TxPairsIntact
<1>5. /\ desc' = LinkFreed(idx)
      /\ tFreeNum' = tFreeNum + 2 /\ tFreeHdr' = head
      /\ held' = held \ {nb} /\ tLast' = Inc(tLast)
      /\ UNCHANGED <<tbufRec, tAvail, tUsed, send, tDev, isr, irqPc>>
  BY <1>4 DEF FreeTxEntry, PER_TX_ENTRIES, irqVars
<1>6. /\ Done' = Done \ {head} /\ Posted' = Posted /\ Filling' = Filling
      /\ InFlight' = InFlight \ {head}
  <2>1. head \notin Posted /\ head \notin tDev.own
    BY <1>2 DEF TxInductive, TxInFlightOnce
  <2>2. Done' = Done \ {head} /\ Posted' = Posted /\ Filling' = Filling
    BY <1>2, <1>5 DEF Done, Posted, Filling
  <2> QED  BY <1>5, <2>1, <2>2 DEF InFlight
<1>7. tFreeNum \in Nat /\ tFreeNum + 2 <= TXQ
  <2> DEFINE da == Dist(tDev.last, tAvail.index)
             du == Dist(tLast, tUsed.index)
             no == Cardinality(tDev.own)
             nf == IF Filling = {} THEN 0 ELSE 1
  <2>1. tFreeNum \in Nat /\ nf \in Nat  BY TxSizes DEF TxInductive, TxTypeOK
  <2>2. da \in Nat /\ du \in Nat /\ no \in Nat  BY CountTypes DEF TxInductive
  <2>3. du # 0  BY <1>1, DistPositive
  <2>4. TXQ = tFreeNum + 2 * (nf + (da + du) + no)
    BY DEF TxInductive, TxCounted, PER_TX_ENTRIES
  <2> HIDE DEF da, du, no, nf
  <2> QED  BY <2>1, <2>2, <2>3, <2>4, TxSizes
<1>8. /\ \A d \in Descs : d # idx => desc'[d] = desc[d]
      /\ tFreeNum > 0 => desc'[idx].next = tFreeHdr
      /\ desc' \in [Descs -> Desc]
  <2>1. desc \in [Descs -> Desc] /\ tFreeHdr \in Descs
    BY DEF TxInductive, TxTypeOK, Desc
  <2>2. CASE tFreeNum > 0
    <3>1. desc' = [desc EXCEPT ![idx].next = tFreeHdr, ![idx].more = TRUE]
      BY <1>5, <2>2 DEF LinkFreed
    <3>2. [desc EXCEPT ![idx].next = tFreeHdr] \in [Descs -> Desc]
      BY <1>4, <2>1, DescUpdate
    <3>3. desc' = [[desc EXCEPT ![idx].next = tFreeHdr] EXCEPT ![idx].more = TRUE]
      BY <3>1, <1>4, <2>1
    <3>4. desc' \in [Descs -> Desc]
      BY <1>4, <2>1, <3>2, <3>3, DescUpdate
    <3>5. \A d \in Descs : d # idx => desc'[d] = desc[d]
      BY <3>1, <2>1
    <3>6. desc'[idx].next = tFreeHdr
      BY <3>1, <2>1, <1>4 DEF Desc
    <3> QED  BY <3>4, <3>5, <3>6
  <2>3. CASE ~ (tFreeNum > 0)
    BY <1>5, <2>1, <2>3 DEF LinkFreed
  <2> QED  BY <2>2, <2>3
<1>9. TxTypeOK' /\ IrqTypeOK'
  <2>1. tFreeNum' \in 0 .. TXQ  BY <1>5, <1>7, TxSizes
  <2>2. tLast' \in Indices  BY <1>1, <1>5, DistPositive
  <2>3. held' \subseteq NetBufs  BY <1>5 DEF TxInductive, TxTypeOK
  <2> QED  BY <1>4, <1>5, <1>8, <2>1, <2>2, <2>3 DEF TxInductive, TxTypeOK, IrqTypeOK, Desc
<1>10. TxChainsPartitioned'
  <2>1. PICK n \in 0 .. TXQ : \E s \in [1 .. n -> Heads] : IsFreeList(s, n) /\ Partition(s, n)
    BY DEF TxInductive, TxChainsPartitioned
  <2>2. PICK s \in [1 .. n -> Heads] : IsFreeList(s, n) /\ Partition(s, n)
    BY <2>1
  <2>0. PICK first \in Heads : first = head  BY <1>3
  <2> DEFINE t == [i \in 1 .. n + 1 |-> IF i = 1 THEN first ELSE s[i - 1]]
             free == {s[i] : i \in 1 .. n}
  <2>3. n \in Nat /\ tFreeNum = 2 * n /\ n + 1 \in 0 .. TXQ
    BY <2>2, <1>7, TxSizes DEF IsFreeList, PER_TX_ENTRIES
  <2>4. head \notin free
    BY <2>2, <1>3 DEF Partition
  <2>5. t \in [1 .. n + 1 -> Heads]
    BY <2>2, <2>3
  <2>6. IsFreeList(t, n + 1)'
    <3>1. tFreeNum' = PER_TX_ENTRIES * (n + 1)
      BY <2>3, <1>5 DEF PER_TX_ENTRIES
    <3>2. t[1] = tFreeHdr'
      BY <2>0, <2>3, <1>5
    <3>3. ASSUME NEW i \in 1 .. n
          PROVE  desc'[t[i] + 1].next = t[i + 1]
      <4>1. CASE i = 1
        <5>1. n > 0 /\ tFreeNum > 0  BY <2>3
        <5>2. desc'[idx].next = tFreeHdr  BY <5>1, <1>8
        <5>3. tFreeHdr = s[1]  BY <2>2, <5>1 DEF IsFreeList
        <5>4. t[1] = head /\ t[2] = s[1]  BY <2>0, <2>3, <5>1
        <5> QED  BY <4>1, <5>2, <5>3, <5>4
      <4>2. CASE i # 1
        <5>1. i - 1 \in 1 .. n - 1 /\ t[i] = s[i - 1] /\ t[i + 1] = s[i]
          BY <4>2, <2>3
        <5>2. desc[s[i - 1] + 1].next = s[(i - 1) + 1]
          BY <2>2, <5>1 DEF IsFreeList
        <5>3. s[i - 1] \in free /\ s[i - 1] \in Heads
          BY <2>2, <2>3, <5>1
        <5>4. s[i - 1] + 1 \in Descs /\ s[i - 1] + 1 # idx
          BY <5>3, <2>4, <1>3, HeadFacts
        <5>5. desc'[s[i - 1] + 1] = desc[s[i - 1] + 1]
          BY <5>4, <1>8
        <5> QED  BY <5>1, <5>2, <5>5, <2>3
      <4> QED  BY <4>1, <4>2
    <3>4. \A i, j \in 1 .. n + 1 : i # j => t[i] # t[j]
      <4>1. \A i \in 1 .. n + 1 : i # 1 => i - 1 \in 1 .. n /\ t[i] = s[i - 1]
        BY <2>3
      <4>2. t[1] = head  BY <2>0, <2>3
      <4>3. \A i, j \in 1 .. n : i # j => s[i] # s[j]
        BY <2>2 DEF IsFreeList
      <4>4. \A i \in 1 .. n : s[i] # head  BY <2>4
      <4> HIDE DEF t, head
      <4> QED  BY <4>1, <4>2, <4>3, <4>4, <2>3
    <3>5. (n + 1) - 1 = n  BY <2>3
    <3> HIDE DEF t
    <3> QED  BY <3>1, <3>2, <3>3, <3>4, <3>5 DEF IsFreeList
  <2>7. {t[i] : i \in 1 .. n + 1} = free \cup {head}
    <3>1. \A i \in 1 .. n + 1 : i = 1 \/ (i - 1 \in 1 .. n /\ t[i] = s[i - 1])
      BY <2>3
    <3>2. \A i \in 1 .. n : i + 1 \in 1 .. n + 1 /\ t[i + 1] = s[i]
      BY <2>3
    <3>3. t[1] = head /\ 1 \in 1 .. n + 1  BY <2>0, <2>3
    <3> HIDE DEF t
    <3>4. \A i \in 1 .. n + 1 : t[i] \in free \cup {head}
      BY <3>1, <3>3
    <3>5. \A i \in 1 .. n : s[i] \in {t[j] : j \in 1 .. n + 1}
      BY <3>2
    <3> QED  BY <3>3, <3>4, <3>5
  <2>8. Partition(t, n + 1)'
    <3> HIDE DEF t
    <3>1. /\ Heads = free \cup Filling \cup InFlight
          /\ free \cap (Filling \cup InFlight) = {}
          /\ Filling \cap InFlight = {}
      BY <2>2 DEF Partition
    <3> HIDE DEF free, head
    <3> QED  BY <1>3, <1>6, <2>7, <3>1 DEF Partition, Heads
  <2> HIDE DEF t
  <2> QED  BY <2>3, <2>5, <2>6, <2>8 DEF TxChainsPartitioned, Heads
<1>11. TxInFlightOnce'
  BY <1>2, <1>5, <1>6 DEF TxInductive, TxInFlightOnce
<1>12. TxNetBufsAccounted'
  <2> DEFINE rec == {tbufRec[h + 1] : h \in InFlight}
             cur == IF send.pc \in {"idle", "notify"} THEN {} ELSE {send.buf}
  <2>1. /\ held = rec \cup cur /\ rec \cap cur = {}
        /\ \A g, h \in InFlight : tbufRec[g + 1] = tbufRec[h + 1] => g = h
    BY DEF TxInductive, TxNetBufsAccounted
  <2>2. {tbufRec[h + 1] : h \in InFlight \ {head}} = rec \ {nb}
    BY <1>3, <2>1
  <2>3. nb \in rec  BY <1>3
  <2>4. cur' = cur  BY <1>5
  <2>5. {tbufRec[h + 1] : h \in InFlight}' = {tbufRec[h + 1] : h \in InFlight \ {head}}
    BY <1>5, <1>6
  <2>6. /\ held' = (rec \ {nb}) \cup cur /\ (rec \ {nb}) \cap cur = {}
    <3> HIDE DEF rec, cur, nb
    <3> QED  BY <1>5, <2>1, <2>3
  <2> QED  BY <1>5, <1>6, <2>1, <2>2, <2>4, <2>5, <2>6 DEF TxNetBufsAccounted
<1>13. TxPairsIntact'
  BY <1>3, <1>8, HeadFacts DEF TxInductive, TxPairsIntact
<1>14. TxSendProgress'
  <2>1. ASSUME send.pc \in {"fill", "ring", "index"}
        PROVE  desc'[send.head + 1] = desc[send.head + 1]
    <3>1. send.head \in Heads /\ send.head \notin InFlight
      BY <2>1, FillingFacts
    <3>2. send.head + 1 # idx /\ send.head + 1 \in Descs
      BY <3>1, <1>3, HeadFacts
    <3> QED  BY <3>2, <1>8
  <2> QED  BY <1>5, <2>1 DEF TxInductive, TxSendProgress
<1>15. TxInFlightRecorded'
  <2>1. ASSUME NEW h \in InFlight \ {head}
        PROVE  desc'[h + 1] = desc[h + 1]
    <3>1. h \in Heads  BY DEF TxInductive, TxChainsPartitioned, Partition
    <3>2. h + 1 # idx /\ h + 1 \in Descs  BY <3>1, <1>3, HeadFacts
    <3> QED  BY <3>2, <1>8
  <2> QED  BY <1>5, <1>6, <2>1 DEF TxInductive, TxInFlightRecorded
<1>16. TxCounted'
  <2> DEFINE da == Dist(tDev.last, tAvail.index)
             du == Dist(tLast, tUsed.index)
             no == Cardinality(tDev.own)
             nf == IF Filling = {} THEN 0 ELSE 1
  <2>1. da \in Int /\ du \in Int /\ no \in Int /\ nf \in Int
    BY CountTypes DEF TxInductive
  <2>2. TXQ = tFreeNum + 2 * (nf + (da + du) + no)
    BY DEF TxInductive, TxCounted, PER_TX_ENTRIES
  <2>3. da' = da /\ du' = du - 1 /\ no' = no /\ nf' = nf
    BY <1>1, <1>5, <1>6, WindowPop
  <2>4. TXQ = tFreeNum' + 2 * (nf + (da + (du - 1)) + no)
    <3> HIDE DEF da, du, no, nf
    <3> QED  BY <2>1, <2>2, <1>5, <1>7
  <2> QED  BY <2>3, <2>4 DEF TxCounted, PER_TX_ENTRIES
<1> QED
  BY <1>9, <1>10, <1>11, <1>12, <1>13, <1>14, <1>15, <1>16 DEF TxInductive

(* The device takes the oldest published chain.                             *)
LEMMA DevTxFetchStep ==
  ASSUME TxInductive, DevTxFetch
  PROVE  TxInductive'
<1> DEFINE head == tAvail.ring[Slot(tDev.last, TXQ)]
<1>1. /\ tDev.last # tAvail.index /\ tDev.last \in Indices /\ tAvail.index \in Indices
      /\ NoRepeat(tAvail.ring, tDev.last, tAvail.index, TXQ)
  BY DEF DevTxFetch, TxInductive, TxTypeOK, TxInFlightOnce
<1>2. /\ tDev'.last = Inc(tDev.last) /\ tDev'.own = tDev.own \cup {head}
      /\ UNCHANGED <<desc, tFreeHdr, tFreeNum, tbufRec, tAvail, tUsed, tLast, send, held, isr, irqPc>>
  BY DEF DevTxFetch, TxInductive, TxTypeOK, DevTxVars, txDrvVars
<1>3. /\ head \in Posted
      /\ Entries(tAvail.ring, Inc(tDev.last), tAvail.index, TXQ) = Posted \ {head}
      /\ NoRepeat(tAvail.ring, Inc(tDev.last), tAvail.index, TXQ)
  BY <1>1, TxSizes, EntriesPop DEF Posted
<1>4. Posted' = Posted \ {head} /\ Done' = Done /\ Filling' = Filling
  BY <1>2, <1>3 DEF Posted, Done, Filling
<1>5. head \notin tDev.own /\ head \notin Done
  BY <1>3 DEF TxInductive, TxInFlightOnce
<1>6. InFlight' = InFlight
  BY <1>2, <1>3, <1>4 DEF InFlight
<1>7. head \in Descs
  BY <1>3, HeadFacts DEF InFlight, TxInductive, TxChainsPartitioned, Partition
<1>8. TxTypeOK' /\ IrqTypeOK'
  <2>1. tDev' \in [pc : {"sleep", "run", "recheck"}, kick : BOOLEAN, last : Indices,
                   own : SUBSET Descs, intr : BOOLEAN]
    BY <1>1, <1>7, DistPositive DEF DevTxFetch, TxInductive, TxTypeOK
  <2> QED  BY <1>2, <2>1 DEF TxInductive, TxTypeOK, IrqTypeOK
<1>9. TxChainsPartitioned'
  BY <1>2, <1>4, <1>6 DEF TxInductive, TxChainsPartitioned, IsFreeList, Partition
<1>10. TxInFlightOnce'
  BY <1>2, <1>3, <1>4, <1>5 DEF TxInductive, TxInFlightOnce
<1>11. TxNetBufsAccounted'
  BY <1>2, <1>6 DEF TxInductive, TxNetBufsAccounted
<1>12. TxPairsIntact' /\ TxSendProgress' /\ TxInFlightRecorded'
  BY <1>2, <1>6 DEF TxInductive, TxPairsIntact, TxSendProgress, TxInFlightRecorded
<1>13. TxCounted'
  <2> DEFINE da == Dist(tDev.last, tAvail.index)
             du == Dist(tLast, tUsed.index)
             no == Cardinality(tDev.own)
             nf == IF Filling = {} THEN 0 ELSE 1
  <2>1. da \in Int /\ du \in Int /\ no \in Int /\ nf \in Int
    BY CountTypes DEF TxInductive
  <2>2. tFreeNum \in Int  BY TxSizes DEF TxInductive, TxTypeOK
  <2>3. TXQ = tFreeNum + 2 * (nf + (da + du) + no)
    BY DEF TxInductive, TxCounted, PER_TX_ENTRIES
  <2>4. da' = da - 1 /\ du' = du /\ nf' = nf
    BY <1>1, <1>2, <1>4, WindowPop
  <2>5. no' = no + 1
    <3>1. Cardinality(tDev.own \cup {head}) = Cardinality(tDev.own) + 1
      BY <1>5, CountTypes, FS_AddElement DEF TxInductive
    <3> QED  BY <1>2, <3>1
  <2>6. TXQ = tFreeNum + 2 * (nf + ((da - 1) + du) + (no + 1))
    <3> HIDE DEF da, du, no, nf
    <3> QED  BY <2>1, <2>2, <2>3
  <2> QED  BY <1>2, <2>4, <2>5, <2>6 DEF TxCounted, PER_TX_ENTRIES
<1> QED  BY <1>8, <1>9, <1>10, <1>11, <1>12, <1>13 DEF TxInductive

(* The device hands back any chain it has; the used ring has room for it.   *)
LEMMA DevTxUseStep ==
  ASSUME TxInductive, NEW head \in tDev.own, DevTxUse(head)
  PROVE  TxInductive'
<1> DEFINE r2 == [tUsed.ring EXCEPT ![Slot(tUsed.index, TXQ)] = head]
<1>1. /\ head \in Descs /\ tUsed.ring \in [0 .. TXQ - 1 -> Descs]
      /\ tLast \in Indices /\ tUsed.index \in Indices
  BY TxSizes DEF TxInductive, TxTypeOK
<1>2. /\ tDev'.last = tDev.last /\ tDev'.own = tDev.own \ {head}
      /\ tUsed'.ring = r2 /\ tUsed'.index = Inc(tUsed.index)
      /\ UNCHANGED <<desc, tFreeHdr, tFreeNum, tbufRec, tAvail, tLast, send, held, isr, irqPc>>
  BY DEF DevTxUse, TxInductive, TxTypeOK, DevTxVars, txDrvVars
<1>3. Dist(tLast, tUsed.index) < TXQ /\ Dist(tLast, tUsed.index) < IDX - 1
  BY UsedHasRoom DEF TxInductive
<1>4. /\ r2[Slot(tUsed.index, TXQ)] = head
      /\ Entries(r2, tLast, tUsed.index, TXQ) = Done
      /\ NoRepeat(r2, tLast, tUsed.index, TXQ)
  <2>1. NoRepeat(tUsed.ring, tLast, tUsed.index, TXQ)
    BY DEF TxInductive, TxInFlightOnce
  <2>2. /\ r2[Slot(tUsed.index, TXQ)] = head
        /\ Entries(r2, tLast, tUsed.index, TXQ) = Entries(tUsed.ring, tLast, tUsed.index, TXQ)
        /\ NoRepeat(tUsed.ring, tLast, tUsed.index, TXQ)
             => NoRepeat(r2, tLast, tUsed.index, TXQ)
    <3> DEFINE a == tLast
               b == tUsed.index
    <3>1. a \in Indices /\ b \in Indices /\ Dist(a, b) < TXQ /\ Dist(a, b) < IDX - 1
      BY <1>1, <1>3
    <3> HIDE DEF a, b
    <3>2. LET r == [tUsed.ring EXCEPT ![Slot(b, TXQ)] = head] IN
          /\ r[Slot(b, TXQ)] = head
          /\ Entries(r, a, b, TXQ) = Entries(tUsed.ring, a, b, TXQ)
          /\ NoRepeat(tUsed.ring, a, b, TXQ) => NoRepeat(r, a, b, TXQ)
      BY <1>1, <3>1, TxSizes, EntriesWrite
    <3> QED  BY <3>2 DEF a, b
  <2> QED  BY <2>1, <2>2 DEF Done
<1>5. head \notin Posted /\ head \notin Done
  BY DEF TxInductive, TxInFlightOnce
<1>6. TxTypeOK' /\ IrqTypeOK'
  <2>1. tDev' \in [pc : {"sleep", "run", "recheck"}, kick : BOOLEAN, last : Indices,
                   own : SUBSET Descs, intr : BOOLEAN]
    BY DEF DevTxUse, TxInductive, TxTypeOK
  <2>2. tUsed' \in [ring : [Descs -> Descs], index : Indices, flag : BOOLEAN]
    BY <1>1, DistPositive DEF DevTxUse, TxInductive, TxTypeOK
  <2> QED  BY <1>2, <2>1, <2>2 DEF TxInductive, TxTypeOK, IrqTypeOK
<1> HIDE DEF r2
<1>7. /\ Entries(r2, tLast, Inc(tUsed.index), TXQ) = Done \cup {head}
      /\ NoRepeat(r2, tLast, Inc(tUsed.index), TXQ)
  BY SMTT(60), <1>1, <1>3, <1>4, <1>5, TxSizes, EntriesPush
<1>8. Posted' = Posted /\ Done' = Done \cup {head} /\ Filling' = Filling
  BY <1>2, <1>7 DEF Posted, Done, Filling
<1>9. InFlight' = InFlight
  BY <1>2, <1>8 DEF InFlight
<1>10. TxChainsPartitioned'
  BY <1>2, <1>8, <1>9 DEF TxInductive, TxChainsPartitioned, IsFreeList, Partition
<1>11. TxInFlightOnce'
  BY <1>2, <1>5, <1>7, <1>8 DEF TxInductive, TxInFlightOnce
<1>12. TxNetBufsAccounted'
  BY <1>2, <1>9 DEF TxInductive, TxNetBufsAccounted
<1>13. TxPairsIntact' /\ TxSendProgress' /\ TxInFlightRecorded'
  BY <1>2, <1>9 DEF TxInductive, TxPairsIntact, TxSendProgress, TxInFlightRecorded
<1>14. TxCounted'
  <2> DEFINE da == Dist(tDev.last, tAvail.index)
             du == Dist(tLast, tUsed.index)
             no == Cardinality(tDev.own)
             nf == IF Filling = {} THEN 0 ELSE 1
  <2>1. da \in Int /\ du \in Int /\ no \in Int /\ nf \in Int
    BY CountTypes DEF TxInductive
  <2>2. tFreeNum \in Int  BY TxSizes DEF TxInductive, TxTypeOK
  <2>3. TXQ = tFreeNum + 2 * (nf + (da + du) + no)
    BY DEF TxInductive, TxCounted, PER_TX_ENTRIES
  <2>4. da' = da /\ du' = du + 1 /\ nf' = nf
    BY <1>1, <1>2, <1>3, <1>8, WindowPush
  <2>5. no' = no - 1
    <3>1. Cardinality(tDev.own \ {head}) = Cardinality(tDev.own) - 1
      BY CountTypes, FS_RemoveElement DEF TxInductive
    <3> QED  BY <1>2, <3>1
  <2>6. TXQ = tFreeNum + 2 * (nf + (da + (du + 1)) + (no - 1))
    <3> HIDE DEF da, du, no, nf
    <3> QED  BY <2>1, <2>2, <2>3
  <2> QED  BY <1>2, <2>4, <2>5, <2>6 DEF TxCounted, PER_TX_ENTRIES
<1> QED  BY <1>6, <1>10, <1>11, <1>12, <1>13, <1>14 DEF TxInductive

-----------------------------------------------------------------------------
(* The invariant                                                           *)

(* InitTxFreelist links all chains into the free list; nothing is in flight. *)
LEMMA TxInitInductive ==
  TxInit => TxInductive
<1> SUFFICES ASSUME TxInit PROVE TxInductive  OBVIOUS
<1> USE TxSizes DEF TxInit
<1>1. PICK np \in Nat : TXQ = 2 * np /\ np >= 1
  <2>1. TXQ = 2 * (TXQ \div 2) + 0  BY TxSizes
  <2> QED  BY <2>1, TxSizes
<1>2. 0 \in Indices /\ 0 \in Descs  BY DEF Indices
<1>3. TxTypeOK /\ IrqTypeOK
  <2>1. desc \in [Descs -> [next : Descs, more : BOOLEAN, buf : NetBufs \cup {NoBuf}]]
    OBVIOUS
  <2>2. /\ tFreeHdr \in Descs /\ tFreeNum \in 0 .. TXQ /\ tLast \in Indices
        /\ tbufRec \in [Descs -> NetBufs \cup {NoBuf}] /\ held \subseteq NetBufs
    BY <1>2
  <2>3. /\ tAvail \in [ring : [Descs -> Descs], index : Indices, flag : BOOLEAN]
        /\ tUsed \in [ring : [Descs -> Descs], index : Indices, flag : BOOLEAN]
    BY <1>2
  <2>4. /\ send \in [pc : SendPcs, buf : NetBufs \cup {NoBuf}, head : Descs]
        /\ tDev \in [pc : {"sleep", "run", "recheck"}, kick : BOOLEAN, last : Indices,
                     own : SUBSET Descs, intr : BOOLEAN]
    BY <1>2 DEF SendPcs
  <2>5. IrqTypeOK  BY DEF IrqTypeOK, IrqInit
  <2> QED  BY <2>1, <2>2, <2>3, <2>4, <2>5 DEF TxTypeOK
<1>4. Posted = {} /\ Done = {} /\ InFlight = {} /\ Filling = {}
  BY <1>2, EntriesEmpty DEF Posted, Done, InFlight, Filling
<1>5. TxChainsPartitioned
  <2> DEFINE s == [i \in 1 .. np |-> 2 * (i - 1)]
  <2>1. \A i \in 1 .. np : 2 * (i - 1) \in Heads
    BY <1>1 DEF Heads, PER_TX_ENTRIES
  <2>2. s \in [1 .. np -> Heads] /\ np \in 0 .. TXQ
    BY <1>1, <2>1
  <2>3. IsFreeList(s, np)
    <3>1. \A i \in 1 .. np - 1 : desc[s[i] + 1].next = s[i + 1]
      <4>1. SUFFICES ASSUME NEW i \in 1 .. np - 1
                     PROVE  desc[s[i] + 1].next = s[i + 1]
        OBVIOUS
      <4>2. s[i] + 1 = 2 * i - 1 /\ s[i + 1] = 2 * i  BY <1>1
      <4>3. 2 * i - 1 \in Descs /\ 2 * i - 1 < TXQ - 1  BY <1>1
      <4> HIDE DEF s
      <4> QED  BY <4>2, <4>3
    <3>2. tFreeNum = PER_TX_ENTRIES * np  BY <1>1 DEF PER_TX_ENTRIES
    <3>3. s[1] = tFreeHdr  BY <1>1
    <3>4. \A i, j \in 1 .. np : i # j => s[i] # s[j]  BY <1>1
    <3> QED  BY <3>1, <3>2, <3>3, <3>4 DEF IsFreeList
  <2>4. Heads = {s[i] : i \in 1 .. np}
    <3>1. ASSUME NEW h \in Heads PROVE h \in {s[i] : i \in 1 .. np}
      <4>1. h \in Nat /\ h <= TXQ - 1 /\ h % 2 = 0  BY DEF Heads, PER_TX_ENTRIES
      <4>2. h = 2 * (h \div 2) /\ h \div 2 \in Nat  BY <4>1
      <4>3. (h \div 2) + 1 \in 1 .. np  BY <1>1, <4>1, <4>2
      <4>4. s[(h \div 2) + 1] = h  BY <4>2, <4>3
      <4> QED  BY <4>3, <4>4
    <3> QED  BY <2>2, <3>1
  <2>5. Partition(s, np)
    <3> HIDE DEF s
    <3> QED  BY <1>4, <2>4 DEF Partition
  <2> HIDE DEF s
  <2> QED  BY <2>2, <2>3, <2>5 DEF TxChainsPartitioned
<1>6. TxInFlightOnce
  BY <1>2, <1>4, EntriesEmpty DEF TxInFlightOnce
<1>7. TxNetBufsAccounted
  BY <1>4 DEF TxNetBufsAccounted
<1>8. TxPairsIntact
  <2>1. SUFFICES ASSUME NEW h \in Heads
                 PROVE  desc[h].next = h + 1 /\ desc[h].more
    BY DEF TxPairsIntact
  <2>2. h \in 0 .. TXQ - 1 /\ h + 1 \in 0 .. TXQ - 1  BY HeadFacts
  <2>3. h < TXQ - 1  BY <2>2
  <2> QED  BY <2>2, <2>3
<1>9. TxSendProgress /\ TxInFlightRecorded
  BY <1>4 DEF TxSendProgress, TxInFlightRecorded
<1>10. TxCounted
  <2>1. Dist(0, 0) = 0  BY <1>2, WindowEmpty
  <2>2. Cardinality({}) = 0  BY FS_EmptySet
  <2> QED  BY <1>4, <2>1, <2>2 DEF TxCounted, PER_TX_ENTRIES
<1> QED  BY <1>3, <1>5, <1>6, <1>7, <1>8, <1>9, <1>10 DEF TxInductive

(* Every step of the sending task, the handler and the device preserves it. *)
LEMMA TxNextInductive ==
  TxInductive /\ [TxNext]_<<txVars, irqVars>> => TxInductive'
<1> SUFFICES ASSUME TxInductive, [TxNext]_<<txVars, irqVars>> PROVE TxInductive'
  OBVIOUS
<1>1. ASSUME NEW p \in NetBufs, Xmit(p) PROVE TxInductive'
  BY <1>1, XmitStep
<1>2. CASE Send
  BY <1>2, GetTxFreeEntryStep, ClearNextStep, FillDescStep, PutAvailStep,
     BumpAvailStep, NotifyTxStep DEF Send
<1>3. CASE TxHandle
  <2>1. CASE FreeTxEntry  BY <2>1, FreeTxEntryStep
  <2>2. CASE TxHandleBegin
    <3>1. TxTypeOK' /\ IrqTypeOK'
      BY <2>2 DEF TxHandleBegin, txDrvVars, TxInductive, TxTypeOK, IrqTypeOK, TxPcs
    <3> QED
      BY <2>2, <3>1, NothingMoves DEF TxHandleBegin, txDrvVars, TxInductive, TxTypeOK
  <2>3. CASE TxHandleEmpty
    <3>1. TxTypeOK' /\ IrqTypeOK'
      BY <2>3 DEF TxHandleEmpty, txVars, TxInductive, TxTypeOK, IrqTypeOK, TxPcs
    <3> QED  BY <2>3, <3>1, NothingMoves DEF TxHandleEmpty, txVars
  <2>4. CASE TxHandleEnd
    <3>1. TxTypeOK' /\ IrqTypeOK'
      BY <2>4 DEF TxHandleEnd, txDrvVars, TxInductive, TxTypeOK, IrqTypeOK
    <3> QED
      BY <2>4, <3>1, NothingMoves DEF TxHandleEnd, txDrvVars, TxInductive, TxTypeOK
  <2> QED  BY <1>3, <2>1, <2>2, <2>3, <2>4 DEF TxHandle
<1>4. CASE DevTx
  <2>1. CASE DevTxFetch  BY <2>1, DevTxFetchStep
  <2>2. ASSUME NEW head \in tDev.own, DevTxUse(head) PROVE TxInductive'
    BY <2>2, DevTxUseStep
  <2>3. CASE DevTxWake \/ DevTxEmpty \/ DevTxRecheck
    <3>1. /\ UNCHANGED <<desc, tFreeHdr, tFreeNum, tbufRec, tAvail, tLast, held, send, isr, irqPc>>
          /\ tUsed'.ring = tUsed.ring /\ tUsed'.index = tUsed.index
          /\ tDev'.last = tDev.last /\ tDev'.own = tDev.own
          /\ tDev' \in [pc : {"sleep", "run", "recheck"}, kick : BOOLEAN, last : Indices,
                        own : SUBSET Descs, intr : BOOLEAN]
          /\ tUsed' \in [ring : [Descs -> Descs], index : Indices, flag : BOOLEAN]
      BY ZenonT(60), <2>3 DEF DevTxWake, DevTxEmpty, DevTxRecheck, DevTxVars, txDrvVars,
                  TxInductive, TxTypeOK
    <3>2. TxTypeOK' /\ IrqTypeOK'
      BY <3>1 DEF TxInductive, TxTypeOK, IrqTypeOK
    <3> QED  BY <3>1, <3>2, NothingMoves
  <2>4. CASE DevTxIntr
    <3>1. /\ UNCHANGED <<desc, tFreeHdr, tFreeNum, tbufRec, tAvail, tUsed, tLast, held, send, irqPc>>
          /\ tDev'.last = tDev.last /\ tDev'.own = tDev.own
          /\ tDev' \in [pc : {"sleep", "run", "recheck"}, kick : BOOLEAN, last : Indices,
                        own : SUBSET Descs, intr : BOOLEAN]
          /\ isr' \in BOOLEAN
      BY <2>4 DEF DevTxIntr, DevTxVars, txDrvVars, RaiseIsr, TxInductive, TxTypeOK, IrqTypeOK
    <3>2. TxTypeOK' /\ IrqTypeOK'
      BY <3>1 DEF TxInductive, TxTypeOK, IrqTypeOK
    <3> QED  BY <3>1, <3>2, NothingMoves
  <2> QED  BY <1>4, <2>1, <2>2, <2>3, <2>4 DEF DevTx
<1>5. CASE UNCHANGED txVars /\ (IrqEnter \/ IrqAck \/ RxElsewhere \/ UNCHANGED irqVars)
  <2>1. IrqTypeOK'
    BY <1>5 DEF IrqEnter, IrqAck, RxElsewhere, RaiseIsr, irqVars,
                TxInductive, IrqTypeOK, RxPcs, TxPcs
  <2>2. TxTypeOK'
    BY <1>5 DEF txVars, TxInductive, TxTypeOK
  <2> QED  BY <1>5, <2>1, <2>2, NothingMoves DEF txVars
<1> QED
  BY <1>1, <1>2, <1>3, <1>4, <1>5 DEF TxNext, RxElsewhere

(* The invariant holds in every state, for every queue size and index width. *)
THEOREM TxAlwaysInductive == TxSpec => []TxInductive
BY TxInitInductive, TxNextInductive, PTL DEF TxSpec

(* The free list is acyclic and exactly tFreeNum long, and every chain is in *)
(* one place: GetTxFreeEntry and FreeTxEntry, with the stale tFreeHdr of an *)
(* empty list, never give out a chain twice and never lose one.             *)
THEOREM ChainsArePartitioned == TxSpec => []TxChainsPartitioned
<1>1. TxInductive => TxChainsPartitioned  BY DEF TxInductive
<1> QED  BY <1>1, TxAlwaysInductive, PTL

(* NetBufs are freed once and only after the device is done with them.      *)
THEOREM NetBufsAreAccounted == TxSpec => []TxNetBufsAccounted
<1>1. TxInductive => TxNetBufsAccounted  BY DEF TxInductive
<1> QED  BY <1>1, TxAlwaysInductive, PTL

(* The device never reads a chain that is half built, or a freed NetBuf.    *)
THEOREM DeviceReadsWhole == TxSpec => []TxDeviceReadsWhole
<1>1. TxInductive => TxDeviceReadsWhole
  <2> SUFFICES ASSUME TxInductive, NEW h \in Posted \cup tDev.own
               PROVE  /\ desc[h].more /\ desc[h].next = h + 1
                      /\ ~ desc[h + 1].more
                      /\ desc[h + 1].buf \in held
    BY DEF TxDeviceReadsWhole
  <2>1. h \in InFlight /\ h \in Heads
    BY DEF InFlight, TxInductive, TxChainsPartitioned, Partition
  <2>2. tbufRec[h + 1] \in held
    BY <2>1 DEF TxInductive, TxNetBufsAccounted
  <2> QED  BY <2>1, <2>2 DEF TxInductive, TxPairsIntact, TxInFlightRecorded
<1> QED  BY <1>1, TxAlwaysInductive, PTL

-----------------------------------------------------------------------------
(* The notification.  DevTxEmpty clears used->flag before the device looks  *)
(* again and goes to sleep, and only a device that runs sets it.            *)
TxAsksWhenIdle == tDev.pc # "run" => ~ tUsed.flag

(* NotifyTx, which reads the flag after the index was published, therefore  *)
(* kicks every device that sleeps: the race of the flag is lost by nobody.  *)
LEMMA TxNoLostKickStep ==
  ASSUME TxTypeOK, TxAsksWhenIdle, TxNoLostKick, [TxNext]_<<txVars, irqVars>>
  PROVE  TxAsksWhenIdle' /\ TxNoLostKick'
<1> USE DEF TxAsksWhenIdle, TxNoLostKick, TxTypeOK
<1>1. ASSUME UNCHANGED <<tAvail, tUsed, tDev>>, send'.pc = "notify" \/ send.pc # "notify"
      PROVE  TxAsksWhenIdle' /\ TxNoLostKick'
  BY <1>1
<1>2. ASSUME NEW p \in NetBufs, Xmit(p) PROVE TxAsksWhenIdle' /\ TxNoLostKick'
  BY <1>1, <1>2 DEF Xmit
<1>3. CASE Send
  <2>1. CASE GetTxFreeEntry  BY <1>1, <2>1 DEF GetTxFreeEntry
  <2>2. CASE ClearNext  BY <1>1, <2>2 DEF ClearNext, SendStep
  <2>3. CASE FillDesc  BY <1>1, <2>3 DEF FillDesc, SendStep
  <2>4. CASE PutAvail  BY <2>4 DEF PutAvail, SendStep
  <2>5. CASE BumpAvail  BY <2>5 DEF BumpAvail, SendStep
  <2>6. CASE NotifyTx  BY <2>6 DEF NotifyTx, MustNotify
  <2> QED  BY <1>3, <2>1, <2>2, <2>3, <2>4, <2>5, <2>6 DEF Send
<1>4. CASE TxHandle
  BY <1>4 DEF TxHandle, TxHandleBegin, FreeTxEntry, TxHandleEmpty, TxHandleEnd, txVars
<1>5. CASE DevTx
  <2>1. CASE DevTxWake  BY <2>1 DEF DevTxWake, DevTxVars
  <2>2. CASE DevTxFetch  BY <2>2 DEF DevTxFetch, DevTxVars
  <2>3. CASE DevTxEmpty  BY <2>3 DEF DevTxEmpty, DevTxVars
  <2>4. CASE DevTxRecheck  BY <2>4 DEF DevTxRecheck, DevTxVars
  <2>5. CASE DevTxIntr  BY <2>5 DEF DevTxIntr, DevTxVars
  <2>6. ASSUME NEW head \in tDev.own, DevTxUse(head)
        PROVE  TxAsksWhenIdle' /\ TxNoLostKick'
    BY <2>6 DEF DevTxUse, DevTxVars
  <2> QED  BY <1>5, <2>1, <2>2, <2>3, <2>4, <2>5, <2>6 DEF DevTx
<1>6. CASE UNCHANGED txVars  BY <1>6 DEF txVars
<1> QED
  BY <1>2, <1>3, <1>4, <1>5, <1>6 DEF TxNext, RxElsewhere

(* A packet published while the device was going to sleep is never stuck:   *)
(* its notification is pending or the task is about to write it.            *)
THEOREM NoKickIsLost == TxSpec => []TxNoLostKick
<1>1. TxInit => TxAsksWhenIdle /\ TxNoLostKick
  BY DEF TxInit, TxAsksWhenIdle, TxNoLostKick
<1>2. /\ TxInductive /\ TxAsksWhenIdle /\ TxNoLostKick
      /\ [TxNext]_<<txVars, irqVars>>
      => TxAsksWhenIdle' /\ TxNoLostKick'
  BY TxNoLostKickStep DEF TxInductive
<1> QED  BY <1>1, <1>2, TxAlwaysInductive, PTL DEF TxSpec

-----------------------------------------------------------------------------
(* The transmit half implements the queue of NetBufQueue                   *)

(* The image of a finite set is finite and no larger.                      *)
LEMMA ImageIsNoLarger ==
  ASSUME NEW S, IsFiniteSet(S), NEW T, NEW f \in [S -> T],
         \A t \in T : \E s \in S : f[s] = t
  PROVE  IsFiniteSet(T) /\ Cardinality(T) <= Cardinality(S) /\ Cardinality(T) \in Nat
<1>1. f \in Surjection(S, T)
  BY DEF Surjection
<1> QED  BY <1>1, FS_Surjection, FS_CardinalityType

(* Two finite sets have no more elements together than one by one.         *)
LEMMA UnionIsNoLarger ==
  ASSUME NEW A, IsFiniteSet(A), NEW B, IsFiniteSet(B)
  PROVE  /\ IsFiniteSet(A \cup B) /\ Cardinality(A \cup B) \in Nat
         /\ Cardinality(A \cup B) <= Cardinality(A) + Cardinality(B)
<1>1. IsFiniteSet(A \cup B) /\ IsFiniteSet(A \cap B)
  BY FS_Union, FS_Subset
<1>2. /\ Cardinality(A) \in Nat /\ Cardinality(B) \in Nat
      /\ Cardinality(A \cup B) \in Nat /\ Cardinality(A \cap B) \in Nat
  BY <1>1, FS_CardinalityType
<1>3. Cardinality(A \cup B) = Cardinality(A) + Cardinality(B) - Cardinality(A \cap B)
  BY FS_Union
<1> QED  BY <1>1, <1>2, <1>3

(* A window has as many entries at most as it has indices.                 *)
LEMMA EntriesCounted ==
  ASSUME NEW ring \in [Descs -> Descs], NEW a \in Indices, NEW b \in Indices,
         NEW rec
  PROVE  LET T == {rec[h] : h \in Entries(ring, a, b, TXQ)} IN
         /\ IsFiniteSet(T) /\ Cardinality(T) \in Nat
         /\ Cardinality(T) <= Dist(a, b)
<1> DEFINE T == {rec[h] : h \in Entries(ring, a, b, TXQ)}
           n == Dist(a, b)
           f == [k \in 1 .. n |-> rec[ring[Slot((a + k - 1) % IDX, TXQ)]]]
<1>1. n \in 0 .. IDX - 1  BY DistPositive
<1>2. n \in Nat  BY <1>1, IdxAssumption
<1>3. IsFiniteSet(1 .. n) /\ Cardinality(1 .. n) = n
  <2> HIDE DEF n
  <2> QED  BY <1>2, FS_Interval
<1>4. \A k \in 1 .. n : (a + k - 1) % IDX \in Window(a, b)
  BY WindowWalk
<1>5. f \in [1 .. n -> T]
  BY <1>4 DEF Entries
<1>6. \A t \in T : \E k \in 1 .. n : f[k] = t
  <2> SUFFICES ASSUME NEW i \in Window(a, b)
               PROVE  \E k \in 1 .. n : f[k] = rec[ring[Slot(i, TXQ)]]
    BY DEF Entries
  <2>1. PICK k \in 1 .. n : i = (a + k - 1) % IDX
    BY WindowIsWalk
  <2> QED  BY <2>1
<1> HIDE DEF T, n, f
<1>7. IsFiniteSet(T) /\ Cardinality(T) <= n /\ Cardinality(T) \in Nat
  BY <1>3, <1>5, <1>6, ImageIsNoLarger
<1> QED  BY <1>7 DEF T, n

(* What a chain in flight carries, seen by the device and by the driver.   *)
LEMMA InFlightPayload ==
  ASSUME TxInductive, NEW h \in InFlight
  PROVE  /\ h \in Heads /\ h \in Descs /\ h + 1 \in Descs
         /\ desc[h].next = h + 1
         /\ Payload(h) = tbufRec[h + 1] /\ tbufRec[desc[h].next] = tbufRec[h + 1]
         /\ tbufRec[h + 1] \in NetBufs
<1>1. h \in Heads
  BY DEF TxInductive, TxChainsPartitioned, Partition
<1>2. desc[h].next = h + 1
  BY <1>1 DEF TxInductive, TxPairsIntact
<1>3. Payload(h) = tbufRec[h + 1]
  BY <1>2 DEF Payload, TxInductive, TxInFlightRecorded
<1>4. tbufRec[h + 1] \in held /\ held \subseteq NetBufs
  BY DEF TxInductive, TxNetBufsAccounted, TxTypeOK
<1> QED  BY <1>1, <1>2, <1>3, <1>4, HeadFacts

(* The three parts of the queue by the chains they are on.                 *)
LEMMA QueueByChains ==
  ASSUME TxInductive
  PROVE  /\ {Accepted[k] : k \in DOMAIN Accepted} = {tbufRec[h + 1] : h \in Posted}
         /\ Sending = {tbufRec[h + 1] : h \in tDev.own}
         /\ Sent = {tbufRec[h + 1] : h \in Done}
<1>1. /\ tDev.last \in Indices /\ tAvail.index \in Indices
      /\ Posted \subseteq InFlight /\ tDev.own \subseteq InFlight /\ Done \subseteq InFlight
  BY DEF TxInductive, TxTypeOK, InFlight
<1>2. Sending = {tbufRec[h + 1] : h \in tDev.own} /\ Sent = {tbufRec[h + 1] : h \in Done}
  BY <1>1, InFlightPayload DEF Sending, Sent
<1>3. {Accepted[k] : k \in DOMAIN Accepted} = {tbufRec[h + 1] : h \in Posted}
  <2> DEFINE n == Dist(tDev.last, tAvail.index)
             e(k) == tAvail.ring[Slot((tDev.last + k - 1) % IDX, TXQ)]
  <2>1. DOMAIN Accepted = 1 .. n /\ \A k \in 1 .. n : Accepted[k] = Payload(e(k))
    BY DEF Accepted
  <2>2. \A k \in 1 .. n : e(k) \in Posted
    BY <1>1, WindowWalk DEF Posted, Entries
  <2>3. \A k \in 1 .. n : Accepted[k] = tbufRec[e(k) + 1]
    BY <1>1, <2>1, <2>2, InFlightPayload
  <2>4. ASSUME NEW h \in Posted PROVE \E k \in 1 .. n : h = e(k)
    <3>1. PICK i \in Window(tDev.last, tAvail.index) : h = tAvail.ring[Slot(i, TXQ)]
      BY DEF Posted, Entries
    <3>2. PICK k \in 1 .. n : i = (tDev.last + k - 1) % IDX
      BY <1>1, WindowIsWalk
    <3> QED  BY <3>1, <3>2
  <2> HIDE DEF n, e
  <2> QED  BY <2>1, <2>2, <2>3, <2>4
<1> QED  BY <1>2, <1>3

(* The instance counts as this module does.                                *)
LEMMA QueueCardinality ==
  ASSUME NEW S
  PROVE  Queue!Cardinality(S) = Cardinality(S)
BY DEF Queue!Cardinality, Cardinality

(* There are never more NetBufs under way than the queue has chains, and a  *)
(* chain not yet published leaves room for one more.                       *)
LEMMA UnderIsBounded ==
  ASSUME TxInductive, Filling # {}
  PROVE  /\ Queue!Under = {tbufRec[h + 1] : h \in InFlight}
         /\ Cardinality(Queue!Under) < TXQ \div PER_TX_ENTRIES
<1> DEFINE rec == [h \in Descs |-> tbufRec[h + 1]]
           A == {rec[h] : h \in Posted}
           B == {rec[h] : h \in tDev.own}
           C == {rec[h] : h \in Done}
           da == Dist(tDev.last, tAvail.index)
           du == Dist(tLast, tUsed.index)
           no == Cardinality(tDev.own)
<1>1. /\ tDev.last \in Indices /\ tAvail.index \in Indices
      /\ tLast \in Indices /\ tUsed.index \in Indices
      /\ tAvail.ring \in [Descs -> Descs] /\ tUsed.ring \in [Descs -> Descs]
  BY DEF TxInductive, TxTypeOK
<1>2. \A h \in InFlight : h \in Descs  BY InFlightPayload
<1>3. Queue!Under = A \cup B \cup C /\ Queue!Under = {tbufRec[h + 1] : h \in InFlight}
  BY <1>2, QueueByChains DEF Queue!Under, InFlight
<1> HIDE DEF rec
<1>4. IsFiniteSet(A) /\ Cardinality(A) \in Nat /\ Cardinality(A) <= da
  BY <1>1, EntriesCounted DEF Posted
<1>5. IsFiniteSet(C) /\ Cardinality(C) \in Nat /\ Cardinality(C) <= du
  BY <1>1, EntriesCounted DEF Done
<1>6. IsFiniteSet(B) /\ Cardinality(B) \in Nat /\ Cardinality(B) <= no
  <2> DEFINE f == [h \in tDev.own |-> rec[h]]
  <2>1. f \in [tDev.own -> B] /\ \A t \in B : \E h \in tDev.own : f[h] = t
    OBVIOUS
  <2>2. IsFiniteSet(tDev.own)  BY CountTypes DEF TxInductive
  <2> HIDE DEF f, B
  <2> QED  BY <2>1, <2>2, ImageIsNoLarger
<1>7. da \in Nat /\ du \in Nat /\ no \in Nat /\ tFreeNum \in Nat
  <2>1. TxTypeOK  BY DEF TxInductive
  <2>2. da \in Nat /\ du \in Nat /\ no \in Nat  BY <2>1, CountTypes
  <2>3. tFreeNum \in Nat  BY <2>1, TxSizes DEF TxTypeOK
  <2> QED  BY <2>2, <2>3
<1>8. TXQ = tFreeNum + 2 * (1 + (da + du) + no)
  BY DEF TxInductive, TxCounted, PER_TX_ENTRIES
<1> HIDE DEF A, B, C, da, du, no
<1>9. /\ IsFiniteSet(A \cup B) /\ Cardinality(A \cup B) <= Cardinality(A) + Cardinality(B)
      /\ Cardinality(A \cup B) \in Nat
  BY <1>4, <1>6, UnionIsNoLarger
<1>10. /\ Cardinality((A \cup B) \cup C) <= Cardinality(A \cup B) + Cardinality(C)
       /\ Cardinality((A \cup B) \cup C) \in Nat
  BY <1>5, <1>9, UnionIsNoLarger
<1>11. Cardinality(Queue!Under) <= da + no + du /\ Cardinality(Queue!Under) \in Nat
  <2>1. Cardinality(Queue!Under) = Cardinality((A \cup B) \cup C)
    BY <1>3
  <2> QED  BY <1>4, <1>5, <1>6, <1>7, <1>9, <1>10, <2>1
<1>12. da + no + du < TXQ \div 2
  <2>1. TXQ \in Nat  BY TxSizes
  <2> QED  BY <1>7, <1>8, <2>1
<1> QED  BY <1>3, <1>7, <1>11, <1>12, TxSizes DEF PER_TX_ENTRIES

(* The NetBufs a ring names, first come first.                              *)
LEMMA RingOfNetBufs ==
  ASSUME NEW ring \in [Descs -> Descs], NEW d \in [Descs -> Desc],
         NEW a \in Indices, NEW b \in Indices
  PROVE  [k \in 1 .. Dist(a, b) |-> d[d[ring[Slot((a + k - 1) % IDX, TXQ)]].next].buf]
           \in [1 .. Dist(a, b) -> NetBufs \cup {NoBuf}]
<1>1. ASSUME NEW k \in 1 .. Dist(a, b)
      PROVE  d[d[ring[Slot((a + k - 1) % IDX, TXQ)]].next].buf \in NetBufs \cup {NoBuf}
  <2>1. (a + k - 1) % IDX \in Indices
    BY WindowWalk DEF Window
  <2>2. ring[Slot((a + k - 1) % IDX, TXQ)] \in Descs
    BY <2>1, SlotInRing, TxSizes
  <2> QED  BY <2>2 DEF Desc
<1> QED  BY <1>1

LEMMA AcceptedIsSeq ==
  /\ TxInductive
       => Accepted \in [1 .. Dist(tDev.last, tAvail.index) -> NetBufs \cup {NoBuf}]
  /\ TxInductive'
       => Accepted' \in [1 .. Dist(tDev'.last, tAvail'.index) -> NetBufs \cup {NoBuf}]
<1>1. /\ TxInductive => /\ tAvail.ring \in [Descs -> Descs] /\ desc \in [Descs -> Desc]
                        /\ tDev.last \in Indices /\ tAvail.index \in Indices
      /\ TxInductive' => /\ tAvail'.ring \in [Descs -> Descs] /\ desc' \in [Descs -> Desc]
                         /\ tDev'.last \in Indices /\ tAvail'.index \in Indices
  BY DEF TxInductive, TxTypeOK, Desc
<1> QED  BY ZenonT(60), <1>1, RingOfNetBufs DEF Accepted, Payload

(* A step that leaves the chains in flight alone is a stutter.             *)
LEMMA QueueUnchanged ==
  ASSUME TxInductive, tLast' = tLast,
         tAvail'.index = tAvail.index, tUsed'.index = tUsed.index,
         \A i \in Window(tDev.last, tAvail.index) :
           tAvail'.ring[Slot(i, TXQ)] = tAvail.ring[Slot(i, TXQ)],
         tUsed'.ring = tUsed.ring,
         tDev'.last = tDev.last, tDev'.own = tDev.own,
         \A h \in InFlight : /\ desc'[h].next = desc[h].next
                             /\ desc'[h + 1].buf = desc[h + 1].buf
                             /\ tbufRec'[h + 1] = tbufRec[h + 1]
  PROVE  UNCHANGED <<Accepted, Sending, Sent>>
<1>1. \A h \in InFlight : Payload(h)' = Payload(h)
  BY InFlightPayload DEF Payload
<1>2. tDev.last \in Indices /\ tAvail.index \in Indices
  BY DEF TxInductive, TxTypeOK
<1>3. Accepted' = Accepted
  <2>1. \A k \in 1 .. Dist(tDev.last, tAvail.index) :
           LET i == (tDev.last + k - 1) % IDX IN
           /\ i \in Window(tDev.last, tAvail.index)
           /\ tAvail.ring[Slot(i, TXQ)] \in InFlight
    BY <1>2, WindowWalk DEF Posted, Entries, InFlight
  <2> QED  BY <1>1, <2>1 DEF Accepted, Payload
<1>4. Sending' = Sending
  BY <1>1 DEF Sending, InFlight, Payload
<1>5. Sent' = Sent
  <2>1. Done' = Done  BY DEF Done
  <2>2. \A h \in Done : tbufRec'[desc'[h].next] = tbufRec[desc[h].next]
    BY InFlightPayload DEF InFlight
  <2> QED  BY <2>1, <2>2 DEF Sent
<1> QED  BY <1>3, <1>4, <1>5

(* Moving avail->index publishes the NetBuf of this xmit behind the others. *)
LEMMA BumpIsAccept ==
  ASSUME TxInductive, BumpAvail
  PROVE  Queue!Accept(send.buf) /\ send.buf \in NetBufs
<1> DEFINE n == Dist(tDev.last, tAvail.index)
<1>1. /\ send.pc = "index" /\ tAvail'.index = Inc(tAvail.index) /\ tAvail'.ring = tAvail.ring
      /\ UNCHANGED <<desc, tbufRec, tUsed, tLast, tDev>>
  BY DEF BumpAvail, SendStep, txDrvVars, TxInductive, TxTypeOK
<1>2. /\ Filling = {send.head} /\ desc[send.head].next = send.head + 1
      /\ desc[send.head + 1].buf = send.buf
      /\ tAvail.ring[Slot(tAvail.index, TXQ)] = send.head
  BY <1>1, FillingFacts DEF TxInductive, TxSendProgress
<1>3. tDev.last \in Indices /\ tAvail.index \in Indices /\ n < IDX - 1
  BY <1>2, AvailHasRoom DEF TxInductive, TxTypeOK
<1>4. Dist(tDev.last, Inc(tAvail.index)) = n + 1 /\ n \in 0 .. IDX - 1
  BY <1>3, WindowPush, DistPositive
<1>5. n \in Nat  BY <1>4, IdxAssumption
<1>6. /\ Accepted \in [1 .. n -> NetBufs \cup {NoBuf}]
      /\ Accepted' \in [1 .. n + 1 -> NetBufs \cup {NoBuf}]
  BY <1>1, <1>4, AcceptedIsSeq, BumpAvailStep
<1>7. \A k \in 1 .. n + 1 :
        Accepted'[k] = Payload(tAvail.ring[Slot((tDev.last + k - 1) % IDX, TXQ)])
  BY <1>1, <1>4 DEF Accepted, Payload
<1>8. \A k \in 1 .. n : Accepted'[k] = Accepted[k]
  <2>1. \A k \in 1 .. n :
          Accepted[k] = Payload(tAvail.ring[Slot((tDev.last + k - 1) % IDX, TXQ)])
    BY DEF Accepted
  <2> HIDE DEF n
  <2>2. \A k \in 1 .. n : k \in 1 .. n + 1  BY <1>5
  <2> QED  BY <1>7, <2>1, <2>2
<1>9. Accepted'[n + 1] = send.buf
  <2>1. (tDev.last + (n + 1) - 1) % IDX = tAvail.index
    BY <1>3, WindowWalk
  <2>2. n + 1 \in 1 .. n + 1  BY <1>5
  <2>3. Accepted'[n + 1] = Payload(send.head)
    BY <1>2, <1>7, <2>1, <2>2
  <2> QED  BY <1>2, <2>3 DEF Payload
<1> HIDE DEF n
<1>10. Accepted' = Append(Accepted, send.buf)
  BY <1>5, <1>6, <1>8, <1>9, WindowAppend
<1>11. Sending' = Sending /\ Sent' = Sent
  BY <1>1 DEF Sending, Sent, Payload, Done
<1>12. send.buf \in NetBufs
  BY <1>1 DEF TxInductive, TxSendProgress, TxTypeOK
<1>13. send.buf \notin {tbufRec[h + 1] : h \in InFlight}
  BY <1>1 DEF TxInductive, TxNetBufsAccounted
<1>14. send.buf \notin Queue!Under /\ Cardinality(Queue!Under) < TXQ \div PER_TX_ENTRIES
  BY <1>2, <1>13, UnderIsBounded
<1> QED
  BY <1>10, <1>11, <1>12, <1>14, QueueCardinality DEF Queue!Accept

(* The device takes the first frame of the queue.                          *)
LEMMA FetchIsTransmit ==
  ASSUME TxInductive, DevTxFetch
  PROVE  Queue!Transmit
<1> DEFINE n == Dist(tDev.last, tAvail.index)
           head == tAvail.ring[Slot(tDev.last, TXQ)]
<1>1. /\ tDev.last # tAvail.index
      /\ tDev'.last = Inc(tDev.last) /\ tDev'.own = tDev.own \cup {head}
      /\ UNCHANGED <<desc, tbufRec, tAvail, tUsed, tLast>>
  BY DEF DevTxFetch, DevTxVars, txDrvVars, TxInductive, TxTypeOK
<1>2. /\ tDev.last \in Indices /\ tAvail.index \in Indices
      /\ Dist(Inc(tDev.last), tAvail.index) = n - 1
      /\ n \in 0 .. IDX - 1 /\ n # 0
  BY <1>1, WindowPop, DistPositive DEF TxInductive, TxTypeOK
<1>3. n \in Nat /\ n > 0
  <2> HIDE DEF n
  <2> QED  BY <1>2, IdxAssumption
<1>4. /\ Accepted \in [1 .. n -> NetBufs \cup {NoBuf}]
      /\ Accepted' \in [1 .. n - 1 -> NetBufs \cup {NoBuf}]
  BY <1>1, <1>2, AcceptedIsSeq, DevTxFetchStep
<1>5. ASSUME NEW k \in 1 .. n - 1 PROVE Accepted'[k] = Accepted[k + 1]
  <2>1. k \in 1 .. n /\ k + 1 \in 1 .. n
    <3> HIDE DEF n
    <3> QED  BY <1>3
  <2>2. (Inc(tDev.last) + k - 1) % IDX = (tDev.last + (k + 1) - 1) % IDX
    BY <1>2, <2>1, WindowWalk
  <2>3. Accepted'[k] = Payload(tAvail.ring[Slot((Inc(tDev.last) + k - 1) % IDX, TXQ)])
    <3> HIDE DEF n
    <3> QED  BY <1>1, <1>2 DEF Accepted, Payload
  <2>4. Accepted[k + 1] = Payload(tAvail.ring[Slot((tDev.last + (k + 1) - 1) % IDX, TXQ)])
    BY <2>1 DEF Accepted
  <2> QED  BY <2>2, <2>3, <2>4
<1>6. Accepted[1] = Payload(head)
  <2>1. 1 \in 1 .. n  BY <1>3
  <2>2. tDev.last + 1 - 1 = tDev.last /\ tDev.last % IDX = tDev.last
    BY <1>2, ModOfIndex DEF Indices
  <2> QED  BY <2>1, <2>2 DEF Accepted
<1> HIDE DEF n
<1>7. Accepted # << >> /\ Head(Accepted) = Payload(head) /\ Accepted' = Tail(Accepted)
  BY <1>3, <1>4, <1>5, <1>6, WindowTail
<1> HIDE DEF head
<1>8. Sending' = Sending \cup {Payload(head)} /\ Sent' = Sent
  BY <1>1 DEF Sending, Sent, Payload, Done
<1> QED  BY <1>7, <1>8 DEF Queue!Transmit

(* The device is done with a frame.                                        *)
LEMMA UseIsComplete ==
  ASSUME TxInductive, NEW head \in tDev.own, DevTxUse(head)
  PROVE  Queue!Complete(Payload(head)) /\ Payload(head) \in NetBufs
<1> DEFINE r2 == [tUsed.ring EXCEPT ![Slot(tUsed.index, TXQ)] = head]
<1>1. /\ tDev'.last = tDev.last /\ tDev'.own = tDev.own \ {head}
      /\ tUsed'.ring = r2 /\ tUsed'.index = Inc(tUsed.index)
      /\ UNCHANGED <<desc, tbufRec, tAvail, tLast>>
  BY DEF DevTxUse, TxInductive, TxTypeOK, DevTxVars, txDrvVars
<1>2. /\ head \in Descs /\ tUsed.ring \in [0 .. TXQ - 1 -> Descs]
      /\ tLast \in Indices /\ tUsed.index \in Indices
      /\ Dist(tLast, tUsed.index) < TXQ /\ Dist(tLast, tUsed.index) < IDX - 1
  BY UsedHasRoom, TxSizes DEF TxInductive, TxTypeOK
<1>3. Done' = Done \cup {head}
  <2> DEFINE a == tLast
             b == tUsed.index
             ring == tUsed.ring
  <2>1. /\ a \in Indices /\ b \in Indices /\ ring \in [0 .. TXQ - 1 -> Descs]
        /\ Dist(a, b) < TXQ /\ Dist(a, b) < IDX - 1
    BY <1>2
  <2> HIDE DEF a, b, ring
  <2>2. LET r == [ring EXCEPT ![Slot(b, TXQ)] = head] IN
        /\ r[Slot(b, TXQ)] = head
        /\ Entries(r, a, b, TXQ) = Entries(ring, a, b, TXQ)
        /\ NoRepeat(ring, a, b, TXQ) => NoRepeat(r, a, b, TXQ)
    BY <1>2, <2>1, TxSizes, EntriesWrite
  <2>3. \A r : Entries(r, a, Inc(b), TXQ) = Entries(r, a, b, TXQ) \cup {r[Slot(b, TXQ)]}
    BY <2>1, TxSizes, EntriesPush
  <2> QED  BY <1>1, <2>2, <2>3 DEF a, b, ring, Done
<1>4. head \in InFlight /\ tDev.own \subseteq InFlight
  BY DEF InFlight
<1>5. /\ Payload(head) = tbufRec[desc[head].next] /\ Payload(head) \in NetBufs
      /\ \A h \in tDev.own : Payload(h) = Payload(head) => h = head
  BY <1>4, InFlightPayload DEF TxInductive, TxNetBufsAccounted
<1>6. Accepted' = Accepted
  BY <1>1 DEF Accepted, Payload
<1>7. Sending' = Sending \ {Payload(head)}
  BY <1>1, <1>5 DEF Sending, Payload
<1>8. Sent' = Sent \cup {Payload(head)}
  BY <1>1, <1>3, <1>5 DEF Sent
<1>9. Payload(head) \in Sending
  BY DEF Sending
<1> QED  BY <1>5, <1>6, <1>7, <1>8, <1>9 DEF Queue!Complete
(* The handler frees the NetBuf of a frame the device is done with.        *)
LEMMA FreeIsRelease ==
  ASSUME TxInductive, FreeTxEntry
  PROVE  \E p \in NetBufs : Queue!Release(p)
<1> DEFINE head == tUsed.ring[Slot(tLast, TXQ)]
           idx == head + 1
           p == tbufRec[idx]
<1>1. /\ tLast # tUsed.index /\ tLast \in Indices /\ tUsed.index \in Indices
      /\ NoRepeat(tUsed.ring, tLast, tUsed.index, TXQ)
  BY DEF FreeTxEntry, TxInductive, TxTypeOK, TxInFlightOnce
<1>2. /\ head \in Done
      /\ Entries(tUsed.ring, Inc(tLast), tUsed.index, TXQ) = Done \ {head}
  BY <1>1, TxSizes, EntriesPop DEF Done
<1>3. head \in InFlight /\ Done \subseteq InFlight
  BY <1>2 DEF InFlight
<1>4. /\ desc[head].next = idx /\ idx \in Descs /\ head \in Heads
      /\ tbufRec[desc[head].next] = p /\ p \in NetBufs
  BY <1>3, InFlightPayload
<1>5. /\ desc' = LinkFreed(idx) /\ tLast' = Inc(tLast)
      /\ UNCHANGED <<tbufRec, tAvail, tUsed, tDev>>
  BY <1>4 DEF FreeTxEntry
<1>6. /\ \A d \in Descs : desc'[d].buf = desc[d].buf
      /\ \A d \in Descs : d # idx => desc'[d].next = desc[d].next
  <2>1. desc \in [Descs -> Desc]
    BY DEF TxInductive, TxTypeOK, Desc
  <2>2. CASE tFreeNum > 0
    <3>1. desc' = [desc EXCEPT ![idx].next = tFreeHdr, ![idx].more = TRUE]
      BY <1>5, <2>2 DEF LinkFreed
    <3> QED  BY <1>4, <2>1, <3>1 DEF Desc
  <2>3. CASE ~ (tFreeNum > 0)
    BY <1>5, <2>3 DEF LinkFreed
  <2> QED  BY <2>2, <2>3
<1>7. ASSUME NEW h \in InFlight
      PROVE  desc'[h].next = desc[h].next /\ Payload(h)' = Payload(h)
  <2>1. /\ h \in Heads /\ h \in Descs /\ h + 1 \in Descs /\ desc[h].next = h + 1
    BY InFlightPayload
  <2>2. h # idx
    BY <1>4, <2>1, HeadFacts
  <2>3. desc'[h].next = h + 1
    BY <1>6, <2>1, <2>2
  <2> QED  BY <1>6, <2>1, <2>3 DEF Payload
<1>8. Accepted' = Accepted
  <2>1. tDev.last \in Indices /\ tAvail.index \in Indices
    BY DEF TxInductive, TxTypeOK
  <2>2. \A k \in 1 .. Dist(tDev.last, tAvail.index) :
          tAvail.ring[Slot((tDev.last + k - 1) % IDX, TXQ)] \in InFlight
    BY <2>1, WindowWalk DEF Posted, Entries, InFlight
  <2> QED  BY <1>5, <1>7, <2>2 DEF Accepted, Payload
<1>9. Sending' = Sending
  BY <1>5, <1>7 DEF Sending, InFlight, Payload
<1>10. Sent' = Sent \ {p}
  <2>1. Done' = Done \ {head}
    BY <1>2, <1>5 DEF Done
  <2>2. \A h \in Done : tbufRec'[desc'[h].next] = tbufRec[desc[h].next]
    BY <1>3, <1>5, <1>7
  <2>3. \A h \in Done : tbufRec[desc[h].next] = p => h = head
    BY <1>3, InFlightPayload DEF TxInductive, TxNetBufsAccounted
  <2>4. Sent' = {tbufRec[desc[h].next] : h \in Done \ {head}}
    BY <2>1, <2>2 DEF Sent
  <2> HIDE DEF p
  <2> QED  BY <1>4, <2>3, <2>4 DEF Sent
<1>11. p \in Sent
  BY <1>2, <1>4 DEF Sent
<1> QED  BY <1>4, <1>8, <1>9, <1>10, <1>11 DEF Queue!Release

(* Any other step of the transmit half, and any step that is not its own,   *)
(* is a stutter of the queue.                                              *)
LEMMA SameQueue ==
  ASSUME TxInductive, UNCHANGED <<desc, tbufRec, tLast>>,
         tAvail'.ring = tAvail.ring, tAvail'.index = tAvail.index,
         tUsed'.ring = tUsed.ring, tUsed'.index = tUsed.index,
         tDev'.last = tDev.last, tDev'.own = tDev.own
  PROVE  UNCHANGED <<Accepted, Sending, Sent>>
BY QueueUnchanged

LEMMA FillAndPutAreStutters ==
  ASSUME TxInductive, ClearNext \/ FillDesc \/ PutAvail
  PROVE  UNCHANGED <<Accepted, Sending, Sent>>
<1>1. /\ send.pc \in {"clear", "fill", "ring"} /\ UNCHANGED <<tUsed, tLast, tDev>>
      /\ tAvail'.index = tAvail.index
  BY DEF ClearNext, FillDesc, PutAvail, SendStep, txDrvVars, TxInductive, TxTypeOK
<1>2. /\ desc[send.head].next = send.head + 1 /\ send.head \in Heads
      /\ Filling # {}
      /\ \A h \in InFlight : /\ h \in Descs /\ h + 1 \in Descs /\ h \in Heads
                             /\ h + 1 # send.head + 1 /\ h # send.head + 1
  BY <1>1, FillingFacts, HeadFacts
<1>3. desc \in [Descs -> Desc] /\ send.head + 1 \in Descs
  BY <1>2, HeadFacts DEF TxInductive, TxTypeOK, Desc
<1>4. CASE ClearNext
  <2>1. /\ desc' = [desc EXCEPT ![send.head + 1].more = FALSE]
        /\ UNCHANGED <<tbufRec, tAvail>>
    BY <1>2, <1>4 DEF ClearNext
  <2>2. \A d \in Descs : desc'[d].next = desc[d].next /\ desc'[d].buf = desc[d].buf
    BY <1>3, <2>1 DEF Desc
  <2> QED  BY <1>1, <1>2, <2>1, <2>2, QueueUnchanged
<1>5. CASE FillDesc
  <2>1. /\ desc' = [desc EXCEPT ![send.head + 1].buf = send.buf]
        /\ tbufRec' = [tbufRec EXCEPT ![send.head + 1] = send.buf]
        /\ UNCHANGED tAvail
    BY <1>2, <1>5 DEF FillDesc, Record
  <2>2. \A d \in Descs : d # send.head + 1 => desc'[d] = desc[d] /\ tbufRec'[d] = tbufRec[d]
    BY <1>3, <2>1 DEF TxInductive, TxTypeOK
  <2> QED  BY <1>1, <1>2, <2>1, <2>2, QueueUnchanged
<1>6. CASE PutAvail
  <2>1. /\ tAvail'.ring = [tAvail.ring EXCEPT ![Slot(tAvail.index, TXQ)] = send.head]
        /\ UNCHANGED <<desc, tbufRec>>
    BY <1>6 DEF PutAvail, SendStep, txDrvVars, TxInductive, TxTypeOK
  <2>2. \A i \in Window(tDev.last, tAvail.index) :
          tAvail'.ring[Slot(i, TXQ)] = tAvail.ring[Slot(i, TXQ)]
    <3>1. /\ tDev.last \in Indices /\ tAvail.index \in Indices
          /\ tAvail.ring \in [Descs -> Descs]
      BY DEF TxInductive, TxTypeOK
    <3>2. /\ Dist(tDev.last, tAvail.index) < TXQ
          /\ Dist(tDev.last, tAvail.index) < IDX - 1
      BY <1>2, AvailHasRoom DEF TxInductive
    <3>3. ASSUME NEW i \in Window(tDev.last, tAvail.index)
          PROVE  /\ Slot(i, TXQ) # Slot(tAvail.index, TXQ)
                 /\ Slot(i, TXQ) \in Descs
      BY <3>1, <3>2, WindowSlots, TxSizes
    <3> QED  BY <2>1, <3>1, <3>3
  <2> QED  BY <1>1, <2>1, <2>2, QueueUnchanged
<1> QED  BY <1>4, <1>5, <1>6

LEMMA TxStepIsQueueStep ==
  ASSUME TxInductive, [TxNext]_<<txVars, irqVars>>
  PROVE  [Queue!Next]_<<Accepted, Sending, Sent>>
<1>1. ASSUME NEW p \in NetBufs, Xmit(p) PROVE UNCHANGED <<Accepted, Sending, Sent>>
  BY <1>1, SameQueue DEF Xmit
<1>2. CASE Send
  <2>1. CASE GetTxFreeEntry
    BY <2>1, SameQueue DEF GetTxFreeEntry
  <2>2. CASE ClearNext \/ FillDesc \/ PutAvail
    BY <2>2, FillAndPutAreStutters
  <2>3. CASE BumpAvail
    BY <2>3, BumpIsAccept DEF Queue!Next
  <2>4. CASE NotifyTx
    BY <2>4, SameQueue DEF NotifyTx, txDrvVars, TxInductive, TxTypeOK
  <2> QED  BY <1>2, <2>1, <2>2, <2>3, <2>4 DEF Send
<1>3. CASE TxHandle
  <2>1. CASE TxHandleBegin \/ TxHandleEnd
    BY <2>1, SameQueue DEF TxHandleBegin, TxHandleEnd, txDrvVars, TxInductive, TxTypeOK
  <2>2. CASE FreeTxEntry
    BY <2>2, FreeIsRelease DEF Queue!Next
  <2>3. CASE TxHandleEmpty
    BY <2>3, SameQueue DEF TxHandleEmpty, txVars
  <2> QED  BY <1>3, <2>1, <2>2, <2>3 DEF TxHandle
<1>4. CASE DevTx
  <2>1. CASE DevTxFetch
    BY <2>1, FetchIsTransmit DEF Queue!Next
  <2>2. ASSUME NEW head \in tDev.own, DevTxUse(head) PROVE Queue!Next
    BY <2>2, UseIsComplete DEF Queue!Next
  <2>3. CASE DevTxWake \/ DevTxEmpty \/ DevTxRecheck \/ DevTxIntr
    BY <2>3, SameQueue DEF DevTxWake, DevTxEmpty, DevTxRecheck, DevTxIntr, DevTxVars,
                           txDrvVars, TxInductive, TxTypeOK
  <2> QED  BY <1>4, <2>1, <2>2, <2>3 DEF DevTx
<1>5. CASE UNCHANGED txVars
  BY <1>5, SameQueue DEF txVars
<1> QED
  BY <1>1, <1>2, <1>3, <1>4, <1>5 DEF TxNext, RxElsewhere

LEMMA TxInitQueue ==
  ASSUME TxInit
  PROVE  Queue!Init
<1>1. 0 \in Indices  BY TxSizes DEF Indices
<1>2. /\ Dist(tDev.last, tAvail.index) = 0
      /\ Window(tLast, tUsed.index) = {}
  BY <1>1, WindowEmpty DEF TxInit
<1>3. 1 .. 0 = {}  OBVIOUS
<1>4. Accepted = << >>
  BY <1>2, <1>3 DEF Accepted
<1>5. Sending = {} /\ Sent = {}
  BY <1>2 DEF TxInit, Sending, Sent, Done, Entries
<1> QED  BY <1>4, <1>5 DEF Queue!Init

(* xmit keeps its promise for every queue size, index width and set of      *)
(* NetBufs: the frames reach the device in the order of the calls, no more  *)
(* than the queue has chains are under way, and a NetBuf is freed once,     *)
(* after the device is done with it.                                       *)
THEOREM TransmitImplementsQueue == TxSpec => ImplementsNetBufQueue
<1>1. TxInit => Queue!Init
  BY TxInitQueue
<1>2. TxInductive /\ [TxNext]_<<txVars, irqVars>> => [Queue!Next]_<<Accepted, Sending, Sent>>
  BY TxStepIsQueueStep
<1> QED
  BY <1>1, <1>2, TxAlwaysInductive, PTL DEF TxSpec, ImplementsNetBufQueue, Queue!Spec

-----------------------------------------------------------------------------
(* Reception, and the whole.                                               *)

(* The sizes: the indices are wider than the queue.                        *)
LEMMA RxSizes ==
  /\ RXQ \in Nat \ {0} /\ IDX \in Nat \ {0}
  /\ IDX % RXQ = 0 /\ IDX > RXQ
  /\ Bufs = 0 .. RXQ - 1
  /\ 0 \in Indices /\ RXQ \in Indices
BY RxAssumption, IdxAssumption DEF Bufs, Indices

(* The ring the handler fills ahead of the index it has published.         *)
RxAvail == Entries(rAvail.ring, rDev.last, PutAt, RXQ)
RxUsed == Entries(rUsed.ring, rLast, rUsed.index, RXQ)

(* What the types say of the indices, in the form the ring lemmas need it.  *)
LEMMA RxIndexTypes ==
  ASSUME RxTypeOK
  PROVE  /\ rDev.last \in Indices /\ rAvail.index \in Indices
         /\ rLast \in Indices /\ rUsed.index \in Indices
         /\ rAvail.ring \in [0 .. RXQ - 1 -> Bufs] /\ rUsed.ring \in [0 .. RXQ - 1 -> Bufs]
         /\ Dist(rDev.last, rAvail.index) \in Nat /\ Dist(rLast, rUsed.index) \in Nat
         /\ add \in Nat
<1>1. /\ rDev.last \in Indices /\ rAvail.index \in Indices
      /\ rLast \in Indices /\ rUsed.index \in Indices
  BY DEF RxTypeOK
<1>2. /\ Dist(rDev.last, rAvail.index) \in 0 .. IDX - 1
      /\ Dist(rLast, rUsed.index) \in 0 .. IDX - 1
  BY <1>1, DistPositive
<1>3. /\ rAvail.ring \in [0 .. RXQ - 1 -> Bufs] /\ rUsed.ring \in [0 .. RXQ - 1 -> Bufs]
  BY DEF RxTypeOK, Bufs
<1>4. add \in Nat
  BY RxSizes DEF RxTypeOK
<1> QED  BY <1>1, <1>2, <1>3, <1>4, IdxAssumption

(* The buffers put back but not yet published follow those published.      *)
LEMMA PutAtFollows ==
  ASSUME RxTypeOK, RxCounted, started
  PROVE  /\ PutAt \in Indices
         /\ Dist(rDev.last, PutAt) = Dist(rDev.last, rAvail.index) + add
         /\ Dist(rDev.last, rAvail.index) + add <= RXQ
         /\ Dist(rLast, rUsed.index) <= RXQ
<1> DEFINE da == Dist(rDev.last, rAvail.index)
           du == Dist(rLast, rUsed.index)
           filling == IF rDev.cur = {} THEN 0 ELSE 1
<1>1. da \in Nat /\ du \in Nat /\ add \in Nat /\ filling \in Nat
  BY RxIndexTypes
<1>2. RXQ = (da + add) + filling + du
  BY DEF RxCounted
<1>3. da + add <= RXQ /\ du <= RXQ
  <2> HIDE DEF da, du, filling
  <2> QED  BY <1>1, <1>2, RxSizes
<1>4. da + add < IDX
  BY <1>1, <1>3, RxSizes
<1> QED  BY <1>3, <1>4, RxIndexTypes, WalkFrom DEF PutAt

(* A step that moves no buffer, in a part of the handler that is not about *)
(* this half, preserves the invariant.                                     *)
LEMMA RxElsewhereStep ==
  ASSUME RxInductive, IrqTypeOK', UNCHANGED rxVars,
         \/ irqPc' = irqPc
         \/ /\ irqPc \in {"idle", "ack"} \cup TxPcs
            /\ irqPc' \in {"idle", "rx", "ack"} \cup TxPcs
  PROVE  RxInductive'
<1> USE DEF RxInductive, rxVars
<1>1. PutAt' = PutAt
  BY DEF PutAt
<1>2. RxTypeOK' /\ RxUnstarted' /\ RxCounted' /\ RxOneByOne' /\ RxFilled' /\ RxAsksWhenIdle'
  BY DEF RxTypeOK, RxUnstarted, RxCounted, RxOneByOne, RxFilled, RxAsksWhenIdle
<1>3. RxBuffersPartitioned'
  BY <1>1 DEF RxBuffersPartitioned
<1>4. RxHandlerState' /\ RxNoLostKick' /\ RxCaught'
  BY DEF RxHandlerState, RxNoLostKick, RxCaught, TxPcs
<1> QED  BY <1>2, <1>3, <1>4

(* A step of the handler or the device that moves no buffer: what the rest *)
(* of the invariant asks of it.                                            *)
LEMMA NoBufferMoves ==
  ASSUME RxInductive, RxTypeOK', IrqTypeOK',
         UNCHANGED <<rbuf, rLast, started>>,
         rAvail'.ring = rAvail.ring, PutAt' = PutAt,
         Dist(rDev.last, rAvail.index)' + add' = Dist(rDev.last, rAvail.index) + add,
         rUsed'.ring = rUsed.ring, rUsed'.index = rUsed.index,
         rDev'.last = rDev.last, rDev'.cur = rDev.cur,
         ~ started => rAvail'.index = 0 /\ add' = 0
  PROVE  /\ RxBuffersPartitioned' /\ RxUnstarted' /\ RxCounted'
         /\ RxOneByOne' /\ RxFilled'
<1> USE DEF RxInductive
<1>1. RxBuffersPartitioned'  BY DEF RxBuffersPartitioned
<1>2. RxUnstarted'  BY DEF RxUnstarted
<1>3. RxCounted'  BY DEF RxCounted
<1>4. RxOneByOne' /\ RxFilled'  BY DEF RxOneByOne, RxFilled
<1> QED  BY <1>1, <1>2, <1>3, <1>4

-----------------------------------------------------------------------------
(* One lemma per step                                                      *)

(* The start publishes every buffer at once.                               *)
LEMMA RxStartStep ==
  ASSUME RxInductive, RxStart
  PROVE  RxInductive'
<1> USE RxSizes DEF RxInductive
<1>1. /\ ~ started /\ started' /\ irqPc = "idle" /\ irqPc' = irqPc
      /\ rAvail'.index = RXQ /\ rAvail'.ring = rAvail.ring /\ rAvail'.flag = rAvail.flag
      /\ rDev' = [rDev EXCEPT !.kick = TRUE]
      /\ rDev'.kick = TRUE /\ rDev'.last = rDev.last /\ rDev'.cur = rDev.cur
      /\ rDev'.pc = rDev.pc /\ rDev'.intr = rDev.intr
      /\ UNCHANGED <<rbuf, rUsed, rLast, add, passed, isr>>
  BY DEF RxStart, RxTypeOK, irqVars
<1>2. /\ add = 0 /\ rDev.last = 0 /\ rDev.cur = {} /\ rLast = 0 /\ rUsed.index = 0
      /\ \A i \in Bufs : rAvail.ring[i] = i
  BY <1>1 DEF RxUnstarted
<1>3. RxTypeOK' /\ IrqTypeOK'
  BY <1>1 DEF RxStart, RxTypeOK, IrqTypeOK
<1>4. /\ PutAt' = RXQ /\ Dist(0, RXQ) = RXQ /\ Dist(0, 0) = 0
      /\ \A i \in Indices : Dist(0, i) = i
  <2>1. PutAt' = (RXQ + 0) % IDX
    BY <1>1, <1>2 DEF PutAt
  <2>2. \A i \in Indices : Dist(0, i) = i
    BY DistLinear DEF Indices
  <2> QED  BY <2>1, <2>2, ModOfIndex
<1>5. Window(0, RXQ) = Bufs /\ Window(0, 0) = {}
  <2>1. \A i \in Indices : Dist(0, i) < Dist(0, RXQ) <=> i < RXQ
    BY <1>4
  <2>2. \A i \in Indices : i < RXQ <=> i \in Bufs
    BY DEF Indices
  <2>3. Bufs \subseteq Indices
    BY DEF Indices
  <2> QED  BY <2>1, <2>2, <2>3, WindowEmpty DEF Window
<1>6. \A i \in Bufs : Slot(i, RXQ) = i
  <2> SUFFICES ASSUME NEW i \in Bufs PROVE i % RXQ = i  BY DEF Slot
  <2>1. (RXQ * 0 + i) % RXQ = i  BY ModUnique
  <2> QED  BY <2>1
<1>7. /\ Entries(rAvail.ring, 0, RXQ, RXQ) = Bufs /\ NoRepeat(rAvail.ring, 0, RXQ, RXQ)
      /\ Entries(rUsed.ring, 0, 0, RXQ) = {} /\ NoRepeat(rUsed.ring, 0, 0, RXQ)
  BY <1>2, <1>5, <1>6, EntriesEmpty DEF Entries, NoRepeat
<1>8. RxBuffersPartitioned'
  BY <1>1, <1>2, <1>4, <1>7 DEF RxBuffersPartitioned
<1>9. RxUnstarted' /\ RxCounted' /\ RxOneByOne' /\ RxFilled'
  BY <1>1, <1>2, <1>4, <1>7 DEF RxUnstarted, RxCounted, RxOneByOne, RxFilled
<1>10. RxHandlerState' /\ RxAsksWhenIdle' /\ RxNoLostKick' /\ RxCaught'
  BY <1>1 DEF RxHandlerState, RxAsksWhenIdle, RxNoLostKick, RxCaught
<1> QED  BY <1>3, <1>8, <1>9, <1>10

(* The handler begins with nothing to publish and asks for no interrupt.   *)
LEMMA RxHandleBeginStep ==
  ASSUME RxInductive, RxHandleBegin
  PROVE  RxInductive'
<1> USE DEF RxInductive
<1>1. /\ irqPc = "rx" /\ irqPc' = "rxLoop" /\ add = 0 /\ add' = 0
      /\ rAvail'.index = rAvail.index /\ rAvail'.ring = rAvail.ring /\ rAvail'.flag = TRUE
      /\ UNCHANGED <<rbuf, rUsed, rLast, passed, started, rDev, isr>>
  BY DEF RxHandleBegin, RxTypeOK, RxHandlerState
<1>2. RxTypeOK' /\ IrqTypeOK'
  BY <1>1, RxSizes DEF RxHandleBegin, RxTypeOK, IrqTypeOK, RxPcs
<1>3. /\ RxBuffersPartitioned' /\ RxUnstarted' /\ RxCounted'
      /\ RxOneByOne' /\ RxFilled'
  BY <1>1, <1>2, NoBufferMoves DEF PutAt, RxUnstarted
<1>4. RxHandlerState' /\ RxAsksWhenIdle' /\ RxNoLostKick' /\ RxCaught'
  BY <1>1 DEF RxHandlerState, RxAsksWhenIdle, RxNoLostKick, RxCaught
<1> QED  BY <1>2, <1>3, <1>4

(* The loop ends; interrupts go on again; the recheck goes round once more *)
(* when the device was faster.                                             *)
LEMMA RxLeaveLoopSteps ==
  ASSUME RxInductive, RxEmpty \/ RxEnable \/ RxRecheck
  PROVE  RxInductive'
<1> USE DEF RxInductive
<1>1. /\ add' = add /\ rAvail'.index = rAvail.index /\ rAvail'.ring = rAvail.ring
      /\ UNCHANGED <<rbuf, rUsed, rLast, passed, started, rDev, isr>>
  BY DEF RxEmpty, RxEnable, RxRecheck, rxVars, rxDrvVars, RxTypeOK
<1>2. RxTypeOK' /\ IrqTypeOK'
  BY DEF RxEmpty, RxEnable, RxRecheck, rxVars, rxDrvVars, RxTypeOK, IrqTypeOK, RxPcs
<1>3. /\ RxBuffersPartitioned' /\ RxUnstarted' /\ RxCounted'
      /\ RxOneByOne' /\ RxFilled'
  BY <1>1, <1>2, NoBufferMoves DEF PutAt, RxUnstarted
<1>4. RxHandlerState' /\ RxCaught'
  <2>1. CASE RxEmpty
    BY <2>1 DEF RxEmpty, rxVars, RxHandlerState, RxCaught
  <2>2. CASE RxEnable
    BY <2>2 DEF RxEnable, rxDrvVars, RxHandlerState, RxCaught, RxTypeOK
  <2>3. CASE RxRecheck
    BY <2>3 DEF RxRecheck, rxDrvVars, RxHandlerState, RxCaught, RxTypeOK
  <2> QED  BY <2>1, <2>2, <2>3
<1>5. RxAsksWhenIdle' /\ RxNoLostKick'
  BY <1>1 DEF RxAsksWhenIdle, RxNoLostKick, RxEmpty, RxEnable, RxRecheck
<1> QED  BY <1>2, <1>3, <1>4, <1>5

(* A used buffer goes back behind those already put back; the avail ring   *)
(* has room for it, because this buffer is not in it.                      *)
LEMMA RxTakeStep ==
  ASSUME RxInductive, RxTake
  PROVE  RxInductive'
<1> USE DEF RxInductive
<1> DEFINE id == rUsed.ring[Slot(rLast, RXQ)]
           r2 == [rAvail.ring EXCEPT ![Slot(PutAt, RXQ)] = id]
           da == Dist(rDev.last, rAvail.index)
           du == Dist(rLast, rUsed.index)
           filling == IF rDev.cur = {} THEN 0 ELSE 1
<1>1. /\ irqPc = "rxLoop" /\ irqPc' = irqPc /\ rLast # rUsed.index
      /\ rLast' = Inc(rLast) /\ add' = add + 1
      /\ rAvail'.ring = r2 /\ rAvail'.index = rAvail.index /\ rAvail'.flag = rAvail.flag
      /\ passed' \in {rbuf[id], NoBuf}
      /\ UNCHANGED <<rbuf, rUsed, started, rDev, isr>>
  BY DEF RxTake, RxPending, PutBack, TakeNext, RxTypeOK
<1>2. /\ rLast \in Indices /\ rUsed.index \in Indices /\ rDev.last \in Indices
      /\ rAvail.ring \in [0 .. RXQ - 1 -> Bufs] /\ rUsed.ring \in [0 .. RXQ - 1 -> Bufs]
      /\ da \in Nat /\ du \in Nat /\ add \in Nat /\ filling \in Nat
  BY RxIndexTypes
<1>3. started
  BY <1>1 DEF RxUnstarted
<1>4. RXQ = (da + add) + filling + du /\ du > 0
  <2>1. du # 0  BY <1>1, <1>2, DistPositive
  <2> HIDE DEF du
  <2> QED  BY <1>2, <1>3, <2>1 DEF RxCounted, du
<1>5. da + add < RXQ
  <2> HIDE DEF da, du, filling
  <2> QED  BY <1>2, <1>4, RxSizes
<1>6. /\ PutAt \in Indices /\ Dist(rDev.last, PutAt) = da + add
      /\ Dist(rDev.last, PutAt) < RXQ /\ Dist(rDev.last, PutAt) < IDX - 1
  BY <1>2, <1>3, <1>5, PutAtFollows, RxSizes
<1>7. PutAt' = Inc(PutAt)
  <2>1. add < IDX
    <3> HIDE DEF da
    <3> QED  BY <1>2, <1>5, RxSizes
  <2>2. Inc((rAvail.index + add) % IDX) = (rAvail.index + (add + 1)) % IDX
    BY <1>2, <2>1, IncOfSum DEF RxTypeOK
  <2> QED  BY <1>1, <2>2 DEF PutAt
<1>8. id \in Bufs
  BY <1>2, SlotInRing, RxSizes
<1>9. /\ id \in RxUsed
      /\ Entries(rUsed.ring, Inc(rLast), rUsed.index, RXQ) = RxUsed \ {id}
      /\ NoRepeat(rUsed.ring, Inc(rLast), rUsed.index, RXQ)
  BY <1>1, <1>2, <1>3, EntriesPop, RxSizes DEF RxUsed, RxBuffersPartitioned
<1>10. /\ r2[Slot(PutAt, RXQ)] = id
       /\ Entries(r2, rDev.last, PutAt, RXQ) = RxAvail
       /\ NoRepeat(r2, rDev.last, PutAt, RXQ)
  <2> DEFINE a == rDev.last
             b == PutAt
             ring == rAvail.ring
  <2>1. NoRepeat(ring, a, b, RXQ)
    BY <1>3 DEF RxBuffersPartitioned
  <2>2. /\ a \in Indices /\ b \in Indices /\ ring \in [0 .. RXQ - 1 -> Bufs]
        /\ Dist(a, b) < RXQ /\ Dist(a, b) < IDX - 1
    BY <1>2, <1>6
  <2> HIDE DEF a, b, ring, id
  <2>3. LET r == [ring EXCEPT ![Slot(b, RXQ)] = id] IN
        /\ r[Slot(b, RXQ)] = id
        /\ Entries(r, a, b, RXQ) = Entries(ring, a, b, RXQ)
        /\ NoRepeat(ring, a, b, RXQ) => NoRepeat(r, a, b, RXQ)
    BY <1>8, <2>2, EntriesWrite, RxSizes
  <2> QED  BY <2>1, <2>3 DEF a, b, ring, RxAvail
<1> HIDE DEF r2, id
<1>11. id \notin RxAvail /\ id \notin rDev.cur
  BY <1>3, <1>9 DEF RxAvail, RxUsed, RxBuffersPartitioned
<1>12. /\ Entries(r2, rDev.last, Inc(PutAt), RXQ) = RxAvail \cup {id}
       /\ NoRepeat(r2, rDev.last, Inc(PutAt), RXQ)
  BY <1>2, <1>6, <1>10, <1>11, EntriesPush, RxSizes
<1>13. RxTypeOK' /\ IrqTypeOK'
  <2>1. add' \in 0 .. RXQ
    <3>1. add + 1 \in 0 .. RXQ
      <4> HIDE DEF da
      <4> QED  BY <1>2, <1>5, RxSizes
    <3> QED  BY <1>1, <3>1
  <2>2. rLast' \in Indices  BY <1>1, <1>2, DistPositive
  <2>3. rAvail' \in [ring : [Bufs -> Bufs], index : Indices, flag : BOOLEAN]
    BY <1>8 DEF RxTake, PutBack, RxTypeOK, id
  <2>4. passed' \in Frames \cup {NoBuf}
    BY <1>1, <1>8 DEF RxTypeOK
  <2> QED  BY <1>1, <2>1, <2>2, <2>3, <2>4 DEF RxTypeOK, IrqTypeOK
<1>14. RxAvail' = RxAvail \cup {id} /\ RxUsed' = RxUsed \ {id}
  BY <1>1, <1>7, <1>9, <1>12 DEF RxAvail, RxUsed
<1>15. RxBuffersPartitioned'
  <2>1. /\ Bufs = RxAvail \cup rDev.cur \cup RxUsed
        /\ RxAvail \cap rDev.cur = {} /\ RxAvail \cap RxUsed = {} /\ rDev.cur \cap RxUsed = {}
    BY <1>3 DEF RxBuffersPartitioned, RxAvail, RxUsed
  <2>2. /\ NoRepeat(rAvail.ring, rDev.last, PutAt, RXQ)'
        /\ NoRepeat(rUsed.ring, rLast, rUsed.index, RXQ)'
    BY <1>1, <1>7, <1>9, <1>12
  <2>3. /\ Bufs = RxAvail' \cup rDev'.cur \cup RxUsed'
        /\ RxAvail' \cap rDev'.cur = {} /\ RxAvail' \cap RxUsed' = {}
        /\ rDev'.cur \cap RxUsed' = {}
    BY <1>1, <1>9, <1>11, <1>14, <2>1
  <2> QED  BY <2>2, <2>3 DEF RxBuffersPartitioned, RxAvail, RxUsed, Bufs
<1>16. RxCounted'
  <2>1. du' = du - 1 /\ da' = da /\ filling' = filling
    BY <1>1, <1>2, WindowPop
  <2>2. RXQ = (da + (add + 1)) + filling + (du - 1)
    <3> HIDE DEF da, du, filling
    <3> QED  BY <1>2, <1>4, RxSizes
  <2> QED  BY <1>1, <2>1, <2>2 DEF RxCounted
<1>17. RxUnstarted' /\ RxOneByOne' /\ RxFilled'
  BY <1>1, <1>3, <1>9 DEF RxUnstarted, RxOneByOne, RxFilled, RxUsed
<1>18. RxHandlerState' /\ RxAsksWhenIdle' /\ RxNoLostKick' /\ RxCaught'
  BY <1>1 DEF RxHandlerState, RxAsksWhenIdle, RxNoLostKick, RxCaught
<1> QED  BY <1>13, <1>15, <1>16, <1>17, <1>18

(* Publishing what was put back moves no buffer; the notification follows. *)
LEMMA RxPublishSteps ==
  ASSUME RxInductive, RxPost \/ RxNotify
  PROVE  RxInductive'
<1> USE DEF RxInductive
<1>1. CASE RxPost
  <2>1. /\ irqPc = "rxPost" /\ irqPc' = "rxNotify" /\ add' = 0
        /\ rAvail'.index = PutAt /\ rAvail'.ring = rAvail.ring /\ rAvail'.flag = rAvail.flag
        /\ UNCHANGED <<rbuf, rUsed, rLast, passed, started, rDev, isr>>
    BY <1>1 DEF RxPost, RxTypeOK
  <2>2. /\ PutAt \in Indices
        /\ Dist(rDev.last, PutAt) = Dist(rDev.last, rAvail.index) + add
        /\ ~ started => PutAt = 0
    <3>1. CASE started  BY <3>1, PutAtFollows
    <3>2. CASE ~ started
      BY <3>2, ModOfIndex, RxIndexTypes DEF RxUnstarted, PutAt
    <3> QED  BY <3>1, <3>2
  <2>3. PutAt' = PutAt
    BY <2>1, <2>2, ModOfIndex DEF PutAt
  <2>4. RxTypeOK' /\ IrqTypeOK'
    <3>1. rAvail' \in [ring : [Bufs -> Bufs], index : Indices, flag : BOOLEAN]
      BY <1>1, <2>2 DEF RxPost, RxTypeOK
    <3>2. add' \in 0 .. RXQ  BY <2>1, RxSizes
    <3> QED  BY <2>1, <3>1, <3>2 DEF RxTypeOK, IrqTypeOK, RxPcs
  <2>5. Dist(rDev.last, rAvail.index)' + add' = Dist(rDev.last, rAvail.index) + add
    BY <2>1, <2>2, RxIndexTypes
  <2>6. /\ RxBuffersPartitioned' /\ RxUnstarted' /\ RxCounted'
        /\ RxOneByOne' /\ RxFilled'
    BY <2>1, <2>2, <2>3, <2>4, <2>5, NoBufferMoves
  <2>7. RxHandlerState' /\ RxAsksWhenIdle' /\ RxNoLostKick' /\ RxCaught'
    BY <2>1 DEF RxHandlerState, RxAsksWhenIdle, RxNoLostKick, RxCaught
  <2> QED  BY <2>4, <2>6, <2>7
<1>2. CASE RxNotify
  <2>1. /\ irqPc = "rxNotify" /\ irqPc' = "tx"
        /\ rDev'.kick = (rDev.kick \/ ~ rUsed.flag)
        /\ rDev'.pc = rDev.pc /\ rDev'.last = rDev.last /\ rDev'.cur = rDev.cur
        /\ rDev'.intr = rDev.intr
        /\ UNCHANGED <<rbuf, rAvail, rUsed, rLast, add, passed, started, isr>>
    BY <1>2 DEF RxNotify, KickRx, RxTypeOK, rxDrvVars
  <2>2. RxTypeOK' /\ IrqTypeOK'
    BY <1>2, <2>1 DEF RxNotify, KickRx, RxTypeOK, IrqTypeOK, TxPcs
  <2>3. /\ RxBuffersPartitioned' /\ RxUnstarted' /\ RxCounted'
        /\ RxOneByOne' /\ RxFilled'
    BY <2>1, <2>2, NoBufferMoves DEF PutAt, RxUnstarted
  <2>4. RxHandlerState' /\ RxAsksWhenIdle' /\ RxNoLostKick' /\ RxCaught'
    BY <2>1 DEF RxHandlerState, RxAsksWhenIdle, RxNoLostKick, RxCaught
  <2> QED  BY <2>2, <2>3, <2>4
<1> QED  BY <1>1, <1>2

(* The device takes the next published buffer and fills it.                *)
LEMMA DevRxFillStep ==
  ASSUME RxInductive, NEW f \in Frames, DevRxFill(f)
  PROVE  RxInductive'
<1> USE DEF RxInductive
<1> DEFINE id == rAvail.ring[Slot(rDev.last, RXQ)]
           da == Dist(rDev.last, rAvail.index)
           du == Dist(rLast, rUsed.index)
<1>1. /\ rDev.pc = "run" /\ rDev.cur = {} /\ rDev.last # rAvail.index
      /\ rbuf' = [rbuf EXCEPT ![id] = f]
      /\ rDev'.cur = {id} /\ rDev'.last = Inc(rDev.last)
      /\ rDev'.pc = rDev.pc /\ rDev'.kick = rDev.kick /\ rDev'.intr = rDev.intr
      /\ UNCHANGED <<rAvail, rUsed, rLast, add, passed, started, isr, irqPc>>
  BY DEF DevRxFill, RxTypeOK, rxDrvVars, irqVars
<1>2. /\ rLast \in Indices /\ rUsed.index \in Indices /\ rDev.last \in Indices
      /\ rAvail.index \in Indices
      /\ rAvail.ring \in [0 .. RXQ - 1 -> Bufs] /\ rUsed.ring \in [0 .. RXQ - 1 -> Bufs]
      /\ da \in Nat /\ du \in Nat /\ add \in Nat
  BY RxIndexTypes
<1>3. started /\ da # 0
  BY <1>1, <1>2, DistPositive DEF RxUnstarted
<1>4. RXQ = (da + add) + 0 + du
  BY <1>1, <1>3 DEF RxCounted
<1>5. /\ PutAt \in Indices /\ Dist(rDev.last, PutAt) = da + add /\ rDev.last # PutAt
  <2>1. /\ PutAt \in Indices /\ Dist(rDev.last, PutAt) = da + add
    BY <1>3, PutAtFollows
  <2>2. da + add # 0
    <3> HIDE DEF da
    <3> QED  BY <1>2, <1>3
  <2> QED  BY <1>2, <2>1, <2>2, DistPositive
<1>6. /\ id \in RxAvail
      /\ Entries(rAvail.ring, Inc(rDev.last), PutAt, RXQ) = RxAvail \ {id}
      /\ NoRepeat(rAvail.ring, Inc(rDev.last), PutAt, RXQ)
  BY <1>2, <1>3, <1>5, EntriesPop, RxSizes DEF RxAvail, RxBuffersPartitioned
<1>7. id \in Bufs
  BY <1>2, SlotInRing, RxSizes
<1> HIDE DEF id
<1>8. id \notin RxUsed
  BY <1>3, <1>6 DEF RxAvail, RxUsed, RxBuffersPartitioned
<1>9. RxAvail' = RxAvail \ {id} /\ RxUsed' = RxUsed
  BY <1>1, <1>6 DEF RxAvail, RxUsed, PutAt
<1>10. RxTypeOK' /\ IrqTypeOK'
  <2>1. rDev' \in [pc : {"sleep", "run", "recheck"}, kick : BOOLEAN, last : Indices,
                   cur : SUBSET Bufs, intr : {"none", "due", "raised", "suppressed"}]
    BY <1>2, <1>7, DistPositive DEF DevRxFill, RxTypeOK, id
  <2> QED  BY <1>1, <1>7, <2>1 DEF RxTypeOK, IrqTypeOK
<1>11. RxBuffersPartitioned'
  <2>1. Bufs = RxAvail \cup RxUsed /\ RxAvail \cap RxUsed = {}
    BY <1>1, <1>3 DEF RxBuffersPartitioned, RxAvail, RxUsed
  <2>2. /\ NoRepeat(rAvail.ring, rDev.last, PutAt, RXQ)'
        /\ NoRepeat(rUsed.ring, rLast, rUsed.index, RXQ)'
    BY <1>1, <1>3, <1>6 DEF RxBuffersPartitioned, PutAt
  <2>3. /\ Bufs = RxAvail' \cup rDev'.cur \cup RxUsed'
        /\ RxAvail' \cap rDev'.cur = {} /\ RxAvail' \cap RxUsed' = {}
        /\ rDev'.cur \cap RxUsed' = {}
    BY <1>1, <1>6, <1>8, <1>9, <2>1
  <2> QED  BY <2>2, <2>3 DEF RxBuffersPartitioned, RxAvail, RxUsed, Bufs
<1>12. RxCounted'
  <2>1. du' = du /\ da' = da - 1 /\ rDev'.cur # {}
    BY <1>1, <1>2, WindowPop
  <2>2. RXQ = ((da - 1) + add) + 1 + du
    <3> HIDE DEF da, du
    <3> QED  BY <1>2, <1>4, RxSizes
  <2> QED  BY <1>1, <2>1, <2>2 DEF RxCounted
<1>13. RxUnstarted' /\ RxOneByOne'
  BY <1>1, <1>3 DEF RxUnstarted, RxOneByOne
<1>14. RxFilled'
  <2>1. \A b \in RxUsed : b \in Bufs /\ b # id /\ rbuf'[b] = rbuf[b]
    BY <1>1, <1>3, <1>8 DEF RxBuffersPartitioned, RxUsed, RxTypeOK
  <2>2. rbuf'[id] = f
    BY <1>1, <1>7 DEF RxTypeOK
  <2> QED  BY <1>1, <1>9, <2>1, <2>2 DEF RxFilled, RxUsed
<1>15. RxHandlerState' /\ RxAsksWhenIdle' /\ RxNoLostKick' /\ RxCaught'
  BY <1>1 DEF RxHandlerState, RxAsksWhenIdle, RxNoLostKick, RxCaught
<1> QED  BY <1>10, <1>11, <1>12, <1>13, <1>14, <1>15

(* The device hands the buffer back; the used ring has room for it, and an *)
(* interrupt is due.                                                       *)
LEMMA DevRxUseStep ==
  ASSUME RxInductive, DevRxUse
  PROVE  RxInductive'
<1> USE DEF RxInductive
<1>1. PICK id \in rDev.cur :
        /\ rUsed' = [rUsed EXCEPT !.ring[Slot(rUsed.index, RXQ)] = id, !.index = Inc(@)]
        /\ rDev' = [rDev EXCEPT !.cur = {}, !.intr = "due"]
        /\ UNCHANGED <<rbuf, rAvail, rxDrvVars, irqVars>>
  BY DEF DevRxUse
<1> DEFINE r2 == [rUsed.ring EXCEPT ![Slot(rUsed.index, RXQ)] = id]
           da == Dist(rDev.last, rAvail.index)
           du == Dist(rLast, rUsed.index)
<1>2. /\ rUsed'.ring = r2 /\ rUsed'.index = Inc(rUsed.index) /\ rUsed'.flag = rUsed.flag
      /\ rDev'.cur = {} /\ rDev'.intr = "due" /\ rDev'.last = rDev.last
      /\ rDev'.pc = rDev.pc /\ rDev'.kick = rDev.kick
      /\ UNCHANGED <<rbuf, rAvail, rLast, add, passed, started, isr, irqPc>>
  BY <1>1 DEF RxTypeOK, rxDrvVars, irqVars
<1>3. /\ rLast \in Indices /\ rUsed.index \in Indices /\ rDev.last \in Indices
      /\ rUsed.ring \in [0 .. RXQ - 1 -> Bufs]
      /\ da \in Nat /\ du \in Nat /\ add \in Nat
  BY RxIndexTypes
<1>4. started /\ rDev.cur = {id} /\ id \in Bufs
  BY <1>1 DEF RxUnstarted, RxOneByOne, RxTypeOK
<1>5. RXQ = (da + add) + 1 + du
  BY <1>4 DEF RxCounted
<1>6. du < RXQ /\ du < IDX - 1
  <2> HIDE DEF da, du
  <2> QED  BY <1>3, <1>5, RxSizes
<1>7. /\ r2[Slot(rUsed.index, RXQ)] = id
      /\ Entries(r2, rLast, rUsed.index, RXQ) = RxUsed
      /\ NoRepeat(r2, rLast, rUsed.index, RXQ)
  <2> DEFINE a == rLast
             b == rUsed.index
             ring == rUsed.ring
  <2>1. NoRepeat(ring, a, b, RXQ)
    BY <1>4 DEF RxBuffersPartitioned
  <2>2. /\ a \in Indices /\ b \in Indices /\ ring \in [0 .. RXQ - 1 -> Bufs]
        /\ Dist(a, b) < RXQ /\ Dist(a, b) < IDX - 1
    BY <1>3, <1>6
  <2> HIDE DEF a, b, ring
  <2>3. LET r == [ring EXCEPT ![Slot(b, RXQ)] = id] IN
        /\ r[Slot(b, RXQ)] = id
        /\ Entries(r, a, b, RXQ) = Entries(ring, a, b, RXQ)
        /\ NoRepeat(ring, a, b, RXQ) => NoRepeat(r, a, b, RXQ)
    BY <1>4, <2>2, EntriesWrite, RxSizes
  <2> QED  BY <2>1, <2>3 DEF a, b, ring, RxUsed
<1> HIDE DEF r2
<1>8. id \notin RxUsed
  BY <1>4 DEF RxUsed, RxBuffersPartitioned
<1>9. /\ Entries(r2, rLast, Inc(rUsed.index), RXQ) = RxUsed \cup {id}
      /\ NoRepeat(r2, rLast, Inc(rUsed.index), RXQ)
  BY <1>3, <1>6, <1>7, <1>8, EntriesPush, RxSizes
<1>10. RxAvail' = RxAvail /\ RxUsed' = RxUsed \cup {id}
  BY <1>2, <1>9 DEF RxAvail, RxUsed, PutAt
<1>11. RxTypeOK' /\ IrqTypeOK'
  <2>1. /\ rDev' \in [pc : {"sleep", "run", "recheck"}, kick : BOOLEAN, last : Indices,
                      cur : SUBSET Bufs, intr : {"none", "due", "raised", "suppressed"}]
    BY <1>1 DEF RxTypeOK
  <2>2. rUsed' \in [ring : [Bufs -> Bufs], index : Indices, flag : BOOLEAN]
    BY <1>1, <1>3, <1>4, DistPositive DEF RxTypeOK
  <2> QED  BY <1>2, <2>1, <2>2 DEF RxTypeOK, IrqTypeOK
<1>12. RxBuffersPartitioned'
  <2>1. /\ Bufs = RxAvail \cup {id} \cup RxUsed
        /\ RxAvail \cap {id} = {} /\ RxAvail \cap RxUsed = {}
    BY <1>4 DEF RxBuffersPartitioned, RxAvail, RxUsed
  <2>2. /\ NoRepeat(rAvail.ring, rDev.last, PutAt, RXQ)'
        /\ NoRepeat(rUsed.ring, rLast, rUsed.index, RXQ)'
    BY <1>2, <1>4, <1>9 DEF RxBuffersPartitioned, PutAt
  <2>3. /\ Bufs = RxAvail' \cup rDev'.cur \cup RxUsed'
        /\ RxAvail' \cap rDev'.cur = {} /\ RxAvail' \cap RxUsed' = {}
        /\ rDev'.cur \cap RxUsed' = {}
    BY <1>2, <1>8, <1>10, <2>1
  <2> QED  BY <2>2, <2>3 DEF RxBuffersPartitioned, RxAvail, RxUsed, Bufs
<1>13. RxCounted'
  <2>1. du' = du + 1 /\ da' = da /\ rDev'.cur = {}
    BY <1>2, <1>3, <1>6, WindowPush
  <2>2. RXQ = (da + add) + 0 + (du + 1)
    <3> HIDE DEF da, du
    <3> QED  BY <1>3, <1>5, RxSizes
  <2> QED  BY <1>2, <2>1, <2>2 DEF RxCounted
<1>14. RxUnstarted' /\ RxOneByOne' /\ RxFilled'
  BY <1>2, <1>4, <1>10 DEF RxUnstarted, RxOneByOne, RxFilled, RxUsed
<1>15. RxHandlerState' /\ RxAsksWhenIdle' /\ RxNoLostKick' /\ RxCaught'
  BY <1>2 DEF RxHandlerState, RxAsksWhenIdle, RxNoLostKick, RxCaught
<1> QED  BY <1>11, <1>12, <1>13, <1>14, <1>15

(* Waking up, falling asleep and raising the interrupt move no buffer.     *)
LEMMA DevRxOtherSteps ==
  ASSUME RxInductive, DevRxWake \/ DevRxIntr \/ DevRxEmpty \/ DevRxRecheck
  PROVE  RxInductive'
<1> USE DEF RxInductive
<1>1. /\ rUsed'.ring = rUsed.ring /\ rUsed'.index = rUsed.index
      /\ rDev'.last = rDev.last /\ rDev'.cur = rDev.cur
      /\ UNCHANGED <<rbuf, rAvail, rLast, add, passed, started, irqPc>>
  BY DEF DevRxWake, DevRxIntr, DevRxEmpty, DevRxRecheck, RxTypeOK, rxDrvVars, irqVars
<1>2. RxTypeOK' /\ IrqTypeOK'
  <2>1. /\ rDev' \in [pc : {"sleep", "run", "recheck"}, kick : BOOLEAN, last : Indices,
                      cur : SUBSET Bufs, intr : {"none", "due", "raised", "suppressed"}]
        /\ rUsed' \in [ring : [Bufs -> Bufs], index : Indices, flag : BOOLEAN]
        /\ isr' \in BOOLEAN
    BY ZenonT(60) DEF DevRxWake, DevRxIntr, DevRxEmpty, DevRxRecheck, RxTypeOK, IrqTypeOK,
           rxDrvVars, irqVars, RaiseIsr
  <2> QED  BY <1>1, <2>1 DEF RxTypeOK, IrqTypeOK
<1>3. /\ RxBuffersPartitioned' /\ RxUnstarted' /\ RxCounted'
      /\ RxOneByOne' /\ RxFilled'
  BY <1>1, <1>2, NoBufferMoves DEF PutAt, RxUnstarted
<1>4. RxHandlerState'
  BY <1>1 DEF RxHandlerState
<1>5. RxAsksWhenIdle' /\ RxNoLostKick'
  <2>1. CASE DevRxWake
    BY <2>1 DEF DevRxWake, RxAsksWhenIdle, RxNoLostKick, RxTypeOK, rxDrvVars, irqVars
  <2>2. CASE DevRxIntr
    BY <2>2 DEF DevRxIntr, RxAsksWhenIdle, RxNoLostKick, RxTypeOK, rxDrvVars
  <2>3. CASE DevRxEmpty
    BY <2>3 DEF DevRxEmpty, RxAsksWhenIdle, RxNoLostKick, RxTypeOK, rxDrvVars, irqVars
  <2>4. CASE DevRxRecheck
    BY <2>4 DEF DevRxRecheck, RxAsksWhenIdle, RxNoLostKick, RxTypeOK, rxDrvVars, irqVars
  <2> QED  BY <2>1, <2>2, <2>3, <2>4
<1>6. RxCaught'
  <2>1. CASE DevRxIntr
    <3>1. rDev'.intr = IF rAvail.flag THEN "suppressed" ELSE "raised"
      BY <2>1 DEF DevRxIntr, RxTypeOK
    <3> QED  BY <1>1, <3>1 DEF RxCaught, RxHandlerState
  <2>2. CASE DevRxWake \/ DevRxEmpty \/ DevRxRecheck
    <3>1. rDev'.intr = rDev.intr
      BY <2>2 DEF DevRxWake, DevRxEmpty, DevRxRecheck, RxTypeOK
    <3> QED  BY <1>1, <3>1 DEF RxCaught
  <2> QED  BY <2>1, <2>2
<1> QED  BY <1>2, <1>3, <1>4, <1>5, <1>6

-----------------------------------------------------------------------------
(* The invariant                                                           *)

(* Before the start the rings are empty and the device asleep.             *)
LEMMA RxInitInductive ==
  RxInit => RxInductive
<1> SUFFICES ASSUME RxInit PROVE RxInductive  OBVIOUS
<1> USE RxSizes DEF RxInit
<1>1. RxTypeOK
  <2>1. /\ rAvail \in [ring : [Bufs -> Bufs], index : Indices, flag : BOOLEAN]
        /\ rUsed \in [ring : [Bufs -> Bufs], index : Indices, flag : BOOLEAN]
    OBVIOUS
  <2>2. rDev \in [pc : {"sleep", "run", "recheck"}, kick : BOOLEAN, last : Indices,
                  cur : SUBSET Bufs, intr : {"none", "due", "raised", "suppressed"}]
    OBVIOUS
  <2>3. rbuf \in [Bufs -> Frames \cup {NoBuf}]
    OBVIOUS
  <2>4. rLast \in Indices /\ add \in 0 .. RXQ
    OBVIOUS
  <2>5. passed \in Frames \cup {NoBuf} /\ started \in BOOLEAN
    OBVIOUS
  <2> QED  BY <2>1, <2>2, <2>3, <2>4, <2>5 DEF RxTypeOK
<1>2. IrqTypeOK
  BY DEF IrqTypeOK, IrqInit
<1>3. RxBuffersPartitioned /\ RxUnstarted /\ RxCounted /\ RxOneByOne
  BY DEF RxBuffersPartitioned, RxUnstarted, RxCounted, RxOneByOne
<1>4. RxFilled
  BY EntriesEmpty DEF RxFilled
<1>5. RxHandlerState /\ RxAsksWhenIdle /\ RxNoLostKick /\ RxCaught
  BY DEF RxHandlerState, RxAsksWhenIdle, RxNoLostKick, RxCaught, IrqInit
<1> QED  BY <1>1, <1>2, <1>3, <1>4, <1>5 DEF RxInductive

(* Every step of the task, the handler and the device preserves it.        *)
LEMMA RxStepInductive ==
  ASSUME RxInductive, RxStart \/ RxHandle \/ DevRx
  PROVE  RxInductive'
<1>1. CASE RxStart  BY <1>1, RxStartStep
<1>2. CASE RxHandle
  BY <1>2, RxHandleBeginStep, RxTakeStep, RxLeaveLoopSteps, RxPublishSteps DEF RxHandle
<1>3. CASE DevRx
  BY <1>3, DevRxFillStep, DevRxUseStep, DevRxOtherSteps DEF DevRx
<1> QED  BY <1>1, <1>2, <1>3

LEMMA RxNextInductive ==
  RxInductive /\ [RxNext]_<<rxVars, irqVars>> => RxInductive'
<1> SUFFICES ASSUME RxInductive, [RxNext]_<<rxVars, irqVars>> PROVE RxInductive'
  OBVIOUS
<1>1. CASE RxStart \/ RxHandle \/ DevRx
  BY <1>1, RxStepInductive
<1>2. CASE UNCHANGED rxVars /\ (IrqEnter \/ IrqAck \/ TxElsewhere \/ UNCHANGED irqVars)
  <2>1. /\ IrqTypeOK'
        /\ \/ irqPc' = irqPc
           \/ /\ irqPc \in {"idle", "ack"} \cup TxPcs
              /\ irqPc' \in {"idle", "rx", "ack"} \cup TxPcs
    BY <1>2 DEF IrqEnter, IrqAck, TxElsewhere, RaiseIsr, irqVars,
                RxInductive, IrqTypeOK, RxPcs, TxPcs
  <2> QED  BY <1>2, <2>1, RxElsewhereStep
<1> QED
  BY <1>1, <1>2 DEF RxNext, TxElsewhere

(* The invariant holds in every state, for every queue size and index width. *)
THEOREM RxAlwaysInductive == RxSpec => []RxInductive
BY RxInitInductive, RxNextInductive, PTL DEF RxSpec

(* Every receive buffer is in one place, so VirtnetRxHandle never copies one *)
(* the device is filling; a sleeping device has its notification; and after *)
(* the recheck no used buffer is without its interrupt.                     *)
THEOREM ReceiveIsSafe == RxSpec => []RxInvariant
<1>1. RxInductive => RxInvariant
  BY DEF RxInductive, RxInvariant, RxCaught, RxRecheckCatches
<1> QED  BY <1>1, RxAlwaysInductive, PTL

-----------------------------------------------------------------------------
(* The receive half implements the queue of FrameFifo                      *)

(* The frames a ring names, first come first.                              *)
LEMMA RingOfFrames ==
  ASSUME NEW ring \in [Bufs -> Bufs], NEW buf \in [Bufs -> Frames \cup {NoBuf}],
         NEW a \in Indices, NEW b \in Indices
  PROVE  [k \in 1 .. Dist(a, b) |-> buf[ring[Slot((a + k - 1) % IDX, RXQ)]]]
           \in [1 .. Dist(a, b) -> Frames \cup {NoBuf}]
<1>1. ASSUME NEW k \in 1 .. Dist(a, b)
      PROVE  buf[ring[Slot((a + k - 1) % IDX, RXQ)]] \in Frames \cup {NoBuf}
  <2>1. (a + k - 1) % IDX \in Indices
    BY WindowWalk DEF Window
  <2>2. ring[Slot((a + k - 1) % IDX, RXQ)] \in Bufs
    BY <2>1, SlotInRing, RxSizes
  <2> QED  BY <2>2
<1> QED  BY <1>1

LEMMA ArrivedIsSeq ==
  /\ RxInductive
       => Arrived \in [1 .. Dist(rLast, rUsed.index) -> Frames \cup {NoBuf}]
  /\ RxInductive'
       => Arrived' \in [1 .. Dist(rLast', rUsed'.index) -> Frames \cup {NoBuf}]
BY RingOfFrames DEF Arrived, RxInductive, RxTypeOK

(* A step that leaves the used ring and its buffers alone is a stutter.     *)
LEMMA ArrivedUnchanged ==
  ASSUME RxInductive, rLast' = rLast, passed' = passed,
         rUsed'.index = rUsed.index, rUsed'.ring = rUsed.ring,
         \A b \in RxUsed : rbuf'[b] = rbuf[b]
  PROVE  UNCHANGED <<Arrived, passed>>
<1>1. rLast \in Indices /\ rUsed.index \in Indices
  BY RxIndexTypes DEF RxInductive
<1>2. \A k \in 1 .. Dist(rLast, rUsed.index) :
         rUsed.ring[Slot((rLast + k - 1) % IDX, RXQ)] \in RxUsed
  BY <1>1, WindowWalk DEF RxUsed, Entries
<1> QED  BY <1>2 DEF Arrived

(* Handling a used element passes the first frame on, or drops it.         *)
LEMMA TakeIsPass ==
  ASSUME RxInductive, RxTake
  PROVE  Fifo!Pass
<1> DEFINE n == Dist(rLast, rUsed.index)
           id == rUsed.ring[Slot(rLast, RXQ)]
<1>1. /\ rLast # rUsed.index /\ rLast' = Inc(rLast)
      /\ passed' \in {rbuf[id], NoBuf}
      /\ rbuf' = rbuf /\ rUsed' = rUsed
  BY DEF RxTake, RxPending, TakeNext
<1>2. /\ rLast \in Indices /\ rUsed.index \in Indices /\ n \in Nat
      /\ Dist(Inc(rLast), rUsed.index) = n - 1
  BY <1>1, RxIndexTypes, WindowPop DEF RxInductive
<1>3. n > 0
  <2>1. n # 0  BY <1>1, <1>2, DistPositive
  <2> HIDE DEF n
  <2> QED  BY <1>2, <2>1
<1>4. Arrived[1] = rbuf[id]
  <2>1. 1 \in 1 .. n  BY <1>2, <1>3
  <2>2. rLast + 1 - 1 = rLast /\ rLast % IDX = rLast
    BY <1>2, ModOfIndex DEF Indices
  <2> QED  BY <2>1, <2>2 DEF Arrived
<1>5. /\ Arrived' \in [1 .. n - 1 -> Frames \cup {NoBuf}]
      /\ \A k \in 1 .. n - 1 : Arrived'[k] = Arrived[k + 1]
  <2>1. RxInductive'  BY RxTakeStep
  <2>2. Dist(rLast', rUsed'.index) = n - 1  BY <1>1, <1>2
  <2>3. Arrived' \in [1 .. n - 1 -> Frames \cup {NoBuf}]
    BY <2>1, <2>2, ArrivedIsSeq
  <2>4. ASSUME NEW k \in 1 .. n - 1 PROVE Arrived'[k] = Arrived[k + 1]
    <3>1. k \in 1 .. n /\ k + 1 \in 1 .. n  BY <1>2
    <3>2. (Inc(rLast) + k - 1) % IDX = (rLast + (k + 1) - 1) % IDX
      BY <1>2, <3>1, WindowWalk
    <3> HIDE DEF n
    <3>3. Arrived'[k] = rbuf[rUsed.ring[Slot((Inc(rLast) + k - 1) % IDX, RXQ)]]
      BY <1>1, <2>2 DEF Arrived
    <3>4. Arrived[k + 1] = rbuf[rUsed.ring[Slot((rLast + (k + 1) - 1) % IDX, RXQ)]]
      BY <3>1 DEF Arrived, n
    <3> QED  BY <3>2, <3>3, <3>4
  <2> QED  BY <2>3, <2>4
<1>6. Arrived \in [1 .. n -> Frames \cup {NoBuf}]
  BY ArrivedIsSeq
<1> HIDE DEF n, id
<1>7. Arrived # << >> /\ Head(Arrived) = Arrived[1] /\ Arrived' = Tail(Arrived)
  BY <1>2, <1>3, <1>5, <1>6, WindowTail
<1> QED  BY <1>1, <1>4, <1>7 DEF Fifo!Pass

(* A buffer handed back by the device is a frame that arrives.             *)
LEMMA UseIsArrive ==
  ASSUME RxInductive, DevRxUse
  PROVE  \E f \in Frames : Fifo!Arrive(f)
<1> DEFINE n == Dist(rLast, rUsed.index)
<1>1. PICK id \in rDev.cur :
        /\ rUsed' = [rUsed EXCEPT !.ring[Slot(rUsed.index, RXQ)] = id, !.index = Inc(@)]
        /\ UNCHANGED <<rbuf, rAvail, rxDrvVars, irqVars>>
  BY DEF DevRxUse
<1>2. /\ started /\ rDev.cur = {id} /\ rbuf[id] \in Frames /\ id \in Bufs
      /\ id \notin RxUsed
  BY <1>1 DEF RxInductive, RxUnstarted, RxOneByOne, RxFilled, RxTypeOK,
              RxBuffersPartitioned, RxUsed
<1>3. /\ rLast \in Indices /\ rUsed.index \in Indices /\ n \in Nat
      /\ rUsed.ring \in [0 .. RXQ - 1 -> Bufs]
  BY RxIndexTypes DEF RxInductive
<1>4. n < RXQ /\ n < IDX - 1
  <2> DEFINE da == Dist(rDev.last, rAvail.index)
  <2>1. da \in Nat /\ add \in Nat  BY RxIndexTypes DEF RxInductive
  <2>2. RXQ = (da + add) + 1 + n  BY <1>2 DEF RxInductive, RxCounted
  <2> HIDE DEF da, n
  <2> QED  BY <1>3, <2>1, <2>2, RxSizes
<1>5. /\ rUsed'.index = Inc(rUsed.index) /\ rLast' = rLast /\ rbuf' = rbuf
      /\ rUsed'.ring = [rUsed.ring EXCEPT ![Slot(rUsed.index, RXQ)] = id]
      /\ passed' = passed
  BY <1>1 DEF rxDrvVars, RxInductive, RxTypeOK
<1>6. Dist(rLast', rUsed'.index) = n + 1
  BY <1>3, <1>4, <1>5, WindowPush
<1>7. Arrived \in [1 .. n -> Frames \cup {NoBuf}]
  BY ArrivedIsSeq
<1>8. Arrived' \in [1 .. n + 1 -> Frames \cup {NoBuf}]
  <2>1. RxInductive'  BY DevRxUseStep
  <2> QED  BY <1>6, <2>1, ArrivedIsSeq
<1>9. ASSUME NEW k \in 1 .. n PROVE Arrived'[k] = Arrived[k]
  <2> DEFINE i == (rLast + k - 1) % IDX
  <2>1. k \in 1 .. n + 1  BY <1>3
  <2>2. i \in Window(rLast, rUsed.index)
    BY <1>3, WindowWalk
  <2>3. Slot(i, RXQ) # Slot(rUsed.index, RXQ)
    <3>1. /\ i \in Window(rLast, Inc(rUsed.index)) /\ i # rUsed.index
          /\ rUsed.index \in Window(rLast, Inc(rUsed.index))
          /\ Dist(rLast, Inc(rUsed.index)) = n + 1
      BY <1>3, <1>4, <2>2, WindowPush
    <3>2. n + 1 <= RXQ
      <4> HIDE DEF n
      <4> QED  BY <1>3, <1>4, RxSizes
    <3>3. Inc(rUsed.index) \in Indices  BY <1>3, DistPositive
    <3> HIDE DEF i
    <3> QED  BY <1>3, <3>1, <3>2, <3>3, SlotInjective, RxSizes
  <2>4. Slot(i, RXQ) \in 0 .. RXQ - 1
    BY <2>2, SlotInRing, RxSizes DEF Window
  <2> HIDE DEF i
  <2>5. rUsed'.ring[Slot(i, RXQ)] = rUsed.ring[Slot(i, RXQ)]
    BY <1>3, <1>5, <2>3, <2>4
  <2> QED  BY <1>5, <1>6, <2>1, <2>5 DEF Arrived, i
<1>10. Arrived'[n + 1] = rbuf[id]
  <2>1. n + 1 \in 1 .. n + 1  BY <1>3
  <2>2. (rLast + (n + 1) - 1) % IDX = rUsed.index
    BY <1>3, WindowWalk
  <2>3. rUsed'.ring[Slot(rUsed.index, RXQ)] = id
    BY <1>3, <1>5, SlotInRing, RxSizes
  <2>4. Arrived'[n + 1] = rbuf[rUsed'.ring[Slot((rLast + (n + 1) - 1) % IDX, RXQ)]]
    <3> HIDE DEF n
    <3> QED  BY <1>5, <1>6, <2>1 DEF Arrived
  <2> QED  BY <2>2, <2>3, <2>4
<1> HIDE DEF n
<1>11. Arrived' = Append(Arrived, rbuf[id]) /\ Len(Arrived) = n
  BY <1>3, <1>7, <1>8, <1>9, <1>10, WindowAppend, WindowSeq
<1> QED  BY <1>2, <1>4, <1>5, <1>11 DEF Fifo!Arrive

(* Every step of the receive half is one of FrameFifo, or none.             *)
LEMMA RxStepIsFifoStep ==
  ASSUME RxInductive, [RxNext]_<<rxVars, irqVars>>
  PROVE  [Fifo!Next]_<<Arrived, passed>>
<1>1. CASE RxTake
  BY <1>1, TakeIsPass DEF Fifo!Next
<1>2. CASE DevRxUse
  BY <1>2, UseIsArrive DEF Fifo!Next
<1>3. ASSUME NEW f \in Frames, DevRxFill(f)
      PROVE  UNCHANGED <<Arrived, passed>>
  <2> DEFINE id == rAvail.ring[Slot(rDev.last, RXQ)]
  <2>1. /\ rbuf' = [rbuf EXCEPT ![id] = f] /\ rDev.last # rAvail.index
        /\ UNCHANGED <<rAvail, rUsed, rLast, add, passed>>
    BY <1>3 DEF DevRxFill, rxDrvVars
  <2>2. started /\ rDev.last \in Indices /\ rAvail.index \in Indices
    BY <2>1, RxIndexTypes DEF RxInductive, RxUnstarted
  <2>3. id \in RxAvail
    <3>1. /\ PutAt \in Indices
          /\ Dist(rDev.last, PutAt) = Dist(rDev.last, rAvail.index) + add
      BY <2>2, PutAtFollows DEF RxInductive
    <3>2. /\ Dist(rDev.last, rAvail.index) \in Nat /\ add \in Nat
          /\ Dist(rDev.last, rAvail.index) # 0
      BY <2>1, <2>2, RxIndexTypes, DistPositive DEF RxInductive
    <3>3. rDev.last # PutAt
      <4>1. Dist(rDev.last, PutAt) # 0  BY <3>1, <3>2
      <4> QED  BY <2>2, <3>1, <4>1, DistPositive
    <3>4. rDev.last \in Window(rDev.last, PutAt)
      BY <2>2, <3>1, <3>3, WindowPop
    <3> QED  BY <3>4 DEF RxAvail, Entries
  <2>4. id \notin RxUsed
    BY <2>2, <2>3 DEF RxInductive, RxBuffersPartitioned, RxAvail, RxUsed
  <2>5. \A b \in RxUsed : b \in Bufs /\ b # id
    BY <2>2, <2>4 DEF RxInductive, RxBuffersPartitioned, RxUsed
  <2> HIDE DEF id
  <2>6. \A b \in RxUsed : rbuf'[b] = rbuf[b]
    BY <2>1, <2>5 DEF RxInductive, RxTypeOK
  <2> QED  BY <2>1, <2>6, ArrivedUnchanged
<1>4. CASE \/ RxStart \/ RxHandleBegin \/ RxEmpty \/ RxEnable \/ RxRecheck
           \/ RxPost \/ RxNotify \/ DevRxWake \/ DevRxIntr \/ DevRxEmpty
           \/ DevRxRecheck \/ UNCHANGED rxVars
  <2>1. /\ rLast' = rLast /\ passed' = passed /\ rbuf' = rbuf
        /\ rUsed'.index = rUsed.index /\ rUsed'.ring = rUsed.ring
    BY <1>4 DEF RxStart, RxHandleBegin, RxEmpty, RxEnable, RxRecheck, RxPost, RxNotify,
                DevRxWake, DevRxIntr, DevRxEmpty, DevRxRecheck, rxVars, rxDrvVars,
                RxInductive, RxTypeOK
  <2> QED  BY <2>1, ArrivedUnchanged
<1> QED
  BY <1>1, <1>2, <1>3, <1>4 DEF RxNext, RxHandle, DevRx, TxElsewhere

LEMMA RxInitFifo ==
  ASSUME RxInit
  PROVE  Fifo!Init
<1>1. Dist(rLast, rUsed.index) = 0
  BY RxSizes, WindowEmpty DEF RxInit
<1>2. 1 .. 0 = {}  OBVIOUS
<1>3. Arrived = << >>
  BY <1>1, <1>2 DEF Arrived
<1> QED  BY <1>3 DEF RxInit, Fifo!Init

(* The upper layer sees every frame the device received once, in order, but *)
(* for those LowLevelInput drops: the ring never overtakes itself.          *)
THEOREM ReceiveImplementsFifo == RxSpec => ImplementsFrameFifo
<1>1. RxInit => Fifo!Init
  BY RxInitFifo
<1>2. RxInductive /\ [RxNext]_<<rxVars, irqVars>> => [Fifo!Next]_<<Arrived, passed>>
  BY RxStepIsFifoStep
<1> QED
  BY <1>1, <1>2, RxAlwaysInductive, PTL DEF RxSpec, ImplementsFrameFifo, Fifo!Spec

-----------------------------------------------------------------------------
(* The driver as a whole                                                   *)

(* What is in a step of the composition, sorted by the half it is about.   *)
LEMMA NextByHalves ==
  ASSUME [Next]_vars
  PROVE  \/ UNCHANGED txVars /\ (RxStart \/ RxHandle \/ DevRx)
         \/ UNCHANGED rxVars /\ ((\E p \in NetBufs : Xmit(p)) \/ Send \/ TxHandle \/ DevTx)
         \/ UNCHANGED <<txVars, rxVars>> /\ (IrqEnter \/ IrqAck \/ UNCHANGED irqVars)
BY DEF Next, Task, VirtnetIRQhandle, Device, vars

(* Where the interrupt handler goes in the steps of the two halves.        *)
LEMMA RxMovesHandler ==
  ASSUME RxStart \/ RxHandle \/ DevRx
  PROVE  /\ isr' = isr \/ isr' = TRUE
         /\ \/ irqPc' = irqPc
            \/ irqPc \in RxPcs /\ irqPc' \in RxPcs /\ isr' = isr
            \/ irqPc = "rxNotify" /\ irqPc' = "tx" /\ isr' = isr
BY DEF RxStart, RxHandle, RxHandleBegin, RxTake, RxEmpty, RxEnable, RxRecheck, RxPost,
       RxNotify, TakeNext, DevRx, DevRxWake, DevRxUse, DevRxIntr, DevRxEmpty, DevRxRecheck,
       DevRxFill, RaiseIsr, irqVars, rxVars, RxPcs

LEMMA TxMovesHandler ==
  ASSUME (\E p \in NetBufs : Xmit(p)) \/ Send \/ TxHandle \/ DevTx
  PROVE  /\ isr' = isr \/ isr' = TRUE
         /\ \/ irqPc' = irqPc
            \/ irqPc \in TxPcs /\ irqPc' \in TxPcs /\ isr' = isr
            \/ irqPc = "txDone" /\ irqPc' = "ack" /\ isr' = isr
BY DEF Xmit, Send, SendStep, GetTxFreeEntry, ClearNext, FillDesc, PutAvail, BumpAvail,
       NotifyTx, TxHandle, TxHandleBegin, FreeTxEntry, TxHandleEmpty, TxHandleEnd,
       DevTx, DevTxWake, DevTxFetch, DevTxEmpty, DevTxRecheck, DevTxIntr, DevTxUse,
       DevTxVars, RaiseIsr, irqVars, txVars, TxPcs

(* Both inductive invariants hold of the composition: neither half disturbs *)
(* the other through the shared interrupt.                                 *)
LEMMA NetNextInductive ==
  ASSUME TxInductive, RxInductive, TxAsksWhenIdle, TxNoLostKick, [Next]_vars
  PROVE  TxInductive' /\ RxInductive' /\ TxAsksWhenIdle' /\ TxNoLostKick'
<1>1. IrqTypeOK  BY DEF TxInductive
<1>2. CASE UNCHANGED txVars /\ (RxStart \/ RxHandle \/ DevRx)
  <2>1. RxInductive'  BY <1>2, RxStepInductive
  <2>2. TxTypeOK' /\ IrqTypeOK' /\ UNCHANGED <<tUsed, tDev, tAvail, send>>
    BY <1>2, <2>1 DEF txVars, RxInductive, TxInductive, TxTypeOK
  <2>3. TxInductive'  BY <1>2, <2>2, NothingMoves DEF txVars
  <2> QED  BY <2>1, <2>2, <2>3 DEF TxAsksWhenIdle, TxNoLostKick
<1>3. CASE UNCHANGED rxVars /\ ((\E p \in NetBufs : Xmit(p)) \/ Send \/ TxHandle \/ DevTx)
  <2>1. TxNext  BY <1>3 DEF TxNext
  <2>2. TxInductive' /\ TxAsksWhenIdle' /\ TxNoLostKick'
    BY <2>1, TxNextInductive, TxNoLostKickStep DEF TxInductive
  <2>3. IrqTypeOK'  BY <2>2 DEF TxInductive
  <2>4. RxInductive'
    BY <1>3, <2>3, TxMovesHandler, RxElsewhereStep DEF TxPcs
  <2> QED  BY <2>2, <2>4
<1>4. CASE UNCHANGED <<txVars, rxVars>> /\ (IrqEnter \/ IrqAck \/ UNCHANGED irqVars)
  <2>1. IrqTypeOK'
    BY <1>1, <1>4 DEF IrqTypeOK, IrqEnter, IrqAck, irqVars, RxPcs
  <2>2. [TxNext]_<<txVars, irqVars>> /\ [RxNext]_<<rxVars, irqVars>>
    BY <1>4 DEF TxNext, RxNext
  <2> QED
    BY <2>2, TxNextInductive, RxNextInductive, TxNoLostKickStep DEF TxInductive
<1> QED  BY <1>2, <1>3, <1>4, NextByHalves

LEMMA DriverInductive ==
  Spec => [](TxInductive /\ RxInductive /\ TxAsksWhenIdle /\ TxNoLostKick)
<1>1. Init => TxInductive /\ RxInductive /\ TxAsksWhenIdle /\ TxNoLostKick
  <2> SUFFICES ASSUME Init
               PROVE  TxInductive /\ RxInductive /\ TxAsksWhenIdle /\ TxNoLostKick
    OBVIOUS
  <2>1. TxAsksWhenIdle /\ TxNoLostKick
    BY DEF Init, TxInit, TxAsksWhenIdle, TxNoLostKick
  <2> QED  BY <2>1, TxInitInductive, RxInitInductive DEF Init
<1>2. /\ TxInductive /\ RxInductive /\ TxAsksWhenIdle /\ TxNoLostKick
      /\ [Next]_vars
      => TxInductive' /\ RxInductive' /\ TxAsksWhenIdle' /\ TxNoLostKick'
  BY NetNextInductive
<1> QED  BY <1>1, <1>2, PTL DEF Spec

(* In the whole driver, too: no chain, NetBuf or receive buffer is lost or in *)
(* two places, and no notification is lost, however the two directions      *)
(* share the handler and the interrupt bit.                                 *)
THEOREM DriverIsSafe ==
  Spec => [](/\ TxChainsPartitioned /\ TxNetBufsAccounted /\ TxNoLostKick
             /\ RxInvariant)
<1>1. TxInductive /\ RxInductive /\ TxNoLostKick =>
        /\ TxChainsPartitioned /\ TxNetBufsAccounted /\ TxNoLostKick /\ RxInvariant
  BY DEF TxInductive, RxInductive, RxInvariant, RxCaught, RxRecheckCatches
<1> QED  BY <1>1, DriverInductive, PTL

(* And the whole driver keeps both promises to the network stack: what xmit *)
(* is given reaches the device in order and is freed once, what the device  *)
(* received is passed on in order and once.                                *)
THEOREM DriverKeepsItsPromises == Spec => ImplementsNetBufQueue /\ ImplementsFrameFifo
<1>1. Init => Queue!Init /\ Fifo!Init
  BY TxInitQueue, RxInitFifo DEF Init
<1>2. TxInductive /\ [Next]_vars => [Queue!Next]_<<Accepted, Sending, Sent>>
  <2> SUFFICES ASSUME TxInductive, [Next]_vars
               PROVE  [Queue!Next]_<<Accepted, Sending, Sent>>
    OBVIOUS
  <2>1. CASE UNCHANGED txVars
    BY <2>1, SameQueue DEF txVars
  <2>2. CASE (\E p \in NetBufs : Xmit(p)) \/ Send \/ TxHandle \/ DevTx
    <3>1. TxNext  BY <2>2 DEF TxNext
    <3> QED  BY <3>1, TxStepIsQueueStep
  <2> QED  BY <2>1, <2>2, NextByHalves
<1>3. RxInductive /\ [Next]_vars => [Fifo!Next]_<<Arrived, passed>>
  <2> SUFFICES ASSUME RxInductive, [Next]_vars
               PROVE  [Fifo!Next]_<<Arrived, passed>>
    OBVIOUS
  <2>1. CASE UNCHANGED rxVars
    BY <2>1, ArrivedUnchanged DEF rxVars
  <2>2. CASE RxStart \/ RxHandle \/ DevRx
    <3>1. RxNext  BY <2>2 DEF RxNext
    <3> QED  BY <3>1, RxStepIsFifoStep
  <2> QED  BY <2>1, <2>2, NextByHalves
<1> QED
  BY <1>1, <1>2, <1>3, DriverInductive, PTL
     DEF Spec, ImplementsNetBufQueue, ImplementsFrameFifo, Queue!Spec, Fifo!Spec

=============================================================================
