------------------------------ MODULE VirtMmc ------------------------------
(***************************************************************************)
(* The MMC card that the virtio-block driver plays towards the HDF MMC     *)
(* core (drivers/virtio/virtblock.c, from Feature0 and "MMC code" on): the *)
(* commands answered without the device, and the 128-bit registers built   *)
(* from the disk's capacity and block size.  A register is the set of the  *)
(* bits that are 1, numbered as in the comment on FillCidCsdBits.          *)
(***************************************************************************)
EXTENDS Integers, FiniteSetsExt

CONSTANTS
  Capacities,       \* of the disk, in sectors of MMC_SEC_SIZE
  ConfBlkSizes      \* what conf->blkSize may say

ASSUME MmcAssumption == Capacities \subseteq Nat /\ ConfBlkSizes \subseteq Nat

MMC_SEC_SIZE == 512
VIRTBLK_DEF_BLK_SIZE == 8192
MAX_BLK_SIZE == 128 * MMC_SEC_SIZE
CAPACITY_2G == 4194304
READ_BL_LEN == 11
C_SIZE_MULT == 7

VARIABLES
  capacity, blkSize,    \* of struct Virtblk
  code,                 \* the last command
  mmcResp,              \* cmd->resp
  returnError,          \* cmd->returnError, TRUE for HDF_ERR_NOT_SUPPORT
  host                  \* what the MMC core has learnt: what arguments count, how
                        \* many sectors there are (-1: does not know)

mmcVars == <<capacity, blkSize, code, mmcResp, returnError, host>>

(* the uint32_t n as the set of its bits *)
BitsOf(n) == IF n < 0 THEN 0 .. 31 ELSE {b \in 0 .. 30 : (n \div 2^b) % 2 = 1}
Log2(n) == CHOOSE e \in 0 .. 30 : 2^e <= n /\ n < 2^(e + 1)
IsPowerOf2(n) == \E e \in 0 .. 30 : n = 2^e

Acceptable(bs) == bs >= MMC_SEC_SIZE /\ bs <= MAX_BLK_SIZE /\ IsPowerOf2(bs)

(* Feature0: VIRTIO_BLK_F_BLK_SIZE offered or not *)
NegotiatedSizes ==
  {VIRTBLK_DEF_BLK_SIZE} \cup {bs \in ConfBlkSizes : Acceptable(bs)}

MmcInit ==
  /\ capacity \in Capacities
  /\ blkSize \in NegotiatedSizes
  /\ code = "none"
  /\ mmcResp = {}
  /\ returnError = FALSE
  /\ host = [counts |-> "unknown", sectors |-> -1]

MmcTypeOK ==
  /\ capacity \in Capacities
  /\ blkSize \in {2^e : e \in 9 .. 16}
  /\ mmcResp \subseteq 0 .. 127
  /\ returnError \in BOOLEAN
  /\ host.counts \in {"unknown", "bytes", "sectors"} /\ host.sectors \in Int

-----------------------------------------------------------------------------
(* The registers                                                           *)

(* value is shifted to start, within its word; the part above the word is  *)
(* kept only when the field itself crosses into the next word              *)
FillCidCsdBits(r, start, bits, value) ==
  LET lsb == start % 32
  IN r \cup {start + b : b \in {x \in value : lsb + x < 32 \/ lsb + bits > 32}}

Field(at, width, n) == [at |-> at, width |-> width, value |-> BitsOf(n)]

CSize == (capacity \div 2048) - 1

Bigger2G == capacity > CAPACITY_2G

(* READ_BL_LEN, WRITE_BL_LEN and C_SIZE *)
SizeFields ==
  IF Bigger2G
  THEN {Field(80, 4, Log2(blkSize)), Field(22, 4, Log2(blkSize)), Field(62, 12, 4095)}
  ELSE {Field(80, 4, READ_BL_LEN), Field(22, 4, READ_BL_LEN), Field(62, 12, CSize)}

(* VirtMmcFillRespCsd: CSD_STRUCTURE, SPEC_VERS, CCC (basic, block read and  *)
(* write), partial and misaligned blocks, DSR_IMP, the sizes, C_SIZE_MULT,   *)
(* the erase group, WRITE_BL_PARTIAL, the file format                        *)
CsdFields ==
  {Field(126, 2, 2), Field(122, 4, 4), Field(84, 12, 1 + 4 + 16),
   Field(79, 1, 0), Field(78, 1, 0), Field(77, 1, 0), Field(76, 1, 0)}
  \cup SizeFields
  \cup {Field(47, 3, C_SIZE_MULT), Field(42, 5, 31), Field(37, 5, 15),
        Field(21, 1, 0), Field(15, 1, 0), Field(10, 2, 0)}

FillFields(fields) == UNION {FillCidCsdBits({}, f.at, f.width, f.value) : f \in fields}

(* the bits of byte i of resp[] in memory: words are little-endian *)
MemByte(i) == {32 * (3 - (i \div 4)) + 8 * (i % 4) + k : k \in 0 .. 7}

(* VirtMmcFillRespCid: the bytes of PNM and PSN in memory *)
CBX == Field(112, 2, 1)
BugNameBytes == 2 .. 7
NameBytes == 3 .. 8
SerialBytes == 10 .. 13
BitsOfBytes(bytes) == UNION {MemByte(i) : i \in bytes}

(* resp[i] = ... *)
SetWord(r, i, bits) ==
  LET at == 32 * (3 - i) IN {b \in r : b < at \/ b >= at + 32} \cup {at + b : b \in bits}

(* OCR_LE_2G, OCR_GT_2G: busy, voltage window, and sector mode *)
OcrBits == {31, 7, 15} \cup (16 .. 23) \cup (IF Bigger2G THEN {30} ELSE {})

READY_FOR_DATA == 8
STATE_READY == 9

(* what a register says at the field's place *)
ReadField(r, at, width) == {b \in 0 .. width - 1 : at + b \in r}
ReadNumber(r, at, width) == MapThenSumSet(LAMBDA b : 2^b, ReadField(r, at, width))

-----------------------------------------------------------------------------
(* VirtMmcDoRequest; the MMC core hands in a response that is all zeroes   *)

Answer(c, r) ==
  /\ code' = c
  /\ mmcResp' = r
  /\ returnError' = FALSE
  /\ UNCHANGED <<capacity, blkSize>>

R1(c) == SetWord(SetWord({}, 0, {READY_FOR_DATA, STATE_READY}), 1, BitsOf(c))

GoIdle == Answer("GO_IDLE_STATE", {}) /\ UNCHANGED host

(* external: the MMC core goes by bit 30 of the OCR *)
SendOpCond ==
  /\ Answer("SEND_OP_COND", SetWord({}, 0, OcrBits))
  /\ host' = [counts |-> IF 30 \in OcrBits THEN "sectors" ELSE "bytes", sectors |-> -1]

(* all zeroes and all ones stand for what the name and the serial may be    *)
SendCid ==
  /\ \E name \in {{}, NameBytes}, serial \in {{}, SerialBytes} :
       Answer("SEND_CID", FillCidCsdBits(BitsOfBytes(name \cup serial), CBX.at, CBX.width, CBX.value))
  /\ UNCHANGED host

(* external: a card that counts in bytes has                                *)
(* (C_SIZE + 1) * 2^(C_SIZE_MULT + 2) blocks of 2^READ_BL_LEN bytes         *)
SendCsd ==
  LET csd == FillFields(CsdFields) IN
  /\ Answer("SEND_CSD", csd)
  /\ host' = IF host.counts # "bytes" THEN host
             ELSE [host EXCEPT !.sectors =
                     (ReadNumber(csd, 62, 12) + 1)
                     * 2^(ReadNumber(csd, 47, 3) + 2 + ReadNumber(csd, 80, 4) - 9)]

(* EXT_CSD goes into the data buffer, and R1 into the response; external: a *)
(* card that counts in sectors has SEC_CNT of them                          *)
SendExtCsd ==
  /\ Answer("SEND_EXT_CSD", R1(8))
  /\ host' = IF host.counts = "sectors" THEN [host EXCEPT !.sectors = capacity] ELSE host

(* SET_RELATIVE_ADDR, SWITCH, SELECT_CARD, SEND_STATUS *)
AnswerR1 == (\E c \in {3, 6, 7, 13} : Answer("R1", R1(c))) /\ UNCHANGED host

(* reads and writes, which leave the response alone, are in VirtBlk *)
NotSupported ==
  /\ code' = "other"
  /\ mmcResp' = {}
  /\ returnError' = TRUE
  /\ UNCHANGED <<capacity, blkSize, host>>

MmcNext ==
  \/ GoIdle \/ SendOpCond \/ SendCid \/ SendCsd \/ SendExtCsd \/ AnswerR1
  \/ NotSupported

MmcSpec == MmcInit /\ [][MmcNext]_mmcVars

-----------------------------------------------------------------------------
(* "related 'resp' bits must be zeroed and set only once": every field of a *)
(* register reads back as the value put into it, so that no field has       *)
(* spilt into another.                                                      *)
RegistersReadBack ==
  /\ code = "SEND_CSD" =>
       \A f \in CsdFields : ReadField(mmcResp, f.at, f.width) = f.value
  /\ code = "SEND_CID" => ReadField(mmcResp, CBX.at, CBX.width) = CBX.value

(* The MMC core's idea of the disk, put together from the OCR, the CSD and  *)
(* the EXT_CSD, never reaches beyond the disk and loses less than a         *)
(* megabyte: the three go by the same limit of 2 GB.                        *)
HostSeesTheDisk ==
  host.sectors # -1 => host.sectors <= capacity /\ capacity - host.sectors < 2048

(* What VirtMmcDoRequest answers holds together. *)
MmcInvariant == MmcTypeOK /\ RegistersReadBack /\ HostSeesTheDisk
=============================================================================
