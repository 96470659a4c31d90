------------------------------ MODULE CsiSimd ------------------------------
(***************************************************************************)
(* The DSP intrinsics of src/SmartL_E802/liteos_m/board/hals/csky_driver/  *)
(* include/csi_gcc.h, written in C for a core without the instructions: a  *)
(* word is cut into lanes by a shift left and a shift back, arithmetic for *)
(* int32_t and logical for uint32_t, the lanes are worked on in 32 bits,   *)
(* masked and put together.  Everything is in units of BITS, the width of  *)
(* a byte, so that it can be evaluated for narrow ones.                    *)
(***************************************************************************)
EXTENDS Integers

CONSTANTS
  BITS,          \* of a byte: 8
  Halves,        \* halfwords that words are made of
  Sums           \* accumulators

WORD == 4 * BITS
HALF == 2 * BITS

VARIABLE args    \* what a function is called with

Halfwords == 0..(2^HALF - 1)
Words == 0..(2^WORD - 1)

SimdTypeOK == args \in {<<>>} \union (Words \X Words \X Words)

SimdInit == args = <<>>

(* two operands and an accumulator *)
CallOnPair ==
  /\ args = <<>>
  /\ \E a, b, c, d \in Halves, z \in Sums : args' = <<a + b * 2^HALF, c + d * 2^HALF, z>>

(* an operand and a number of bits *)
CallOnBits ==
  /\ args = <<>>
  /\ \E a, b \in Halves, n \in 0..(WORD - 1) : args' = <<a + b * 2^HALF, n, 0>>

SimdNext == CallOnPair \/ CallOnBits

SimdSpec == SimdInit /\ [][SimdNext]_args

----------------------------------------------------------------------------
(* C on words *)

Uint32(x) == x % 2^WORD
Int32(x) == LET u == Uint32(x) IN IF u < 2^(WORD - 1) THEN u ELSE u - 2^WORD
Shl(x, n) == Uint32(x * 2^n)
Shr(x, n) == Uint32(x) \div 2^n          \* of a uint32_t
Sar(x, n) == Int32(x) \div 2^n           \* of an int32_t

(* ((int32_t)x << 16) >> 24 and its like; the last lane needs no shift left *)
SByte(x, i) == Sar(Shl(x, (3 - i) * BITS), 3 * BITS)
UByte(x, i) == Shr(Shl(x, (3 - i) * BITS), 3 * BITS)
SHalf(x, i) == Sar(Shl(x, (1 - i) * HALF), HALF)
UHalf(x, i) == Shr(Shl(x, (1 - i) * HALF), HALF)

(* (u << 24) | (t << 16) | (s << 8) | r, of lanes masked to a byte *)
Quad(f) ==
  LET m(i) == f[i] % 2^BITS
  IN m(0) + m(1) * 2^BITS + m(2) * 2^(2 * BITS) + m(3) * 2^(3 * BITS)
(* (s << 16) | r, of lanes masked to a halfword *)
Dual(r, s) == (r % 2^HALF) + (s % 2^HALF) * 2^HALF

Bytes == 0..3

----------------------------------------------------------------------------
(* saturation *)

SSAT(x, y) ==
  LET posMax == 2^(y - 1)
  IN IF x > 0 THEN (IF x > posMax - 1 THEN posMax - 1 ELSE x)
     ELSE (IF x < -posMax THEN -posMax ELSE x)

USAT(x, sat) == IF Shr(x, sat) # 0 THEN 2^sat - 1 ELSE Uint32(x)

(* the top bit stands for a difference below zero *)
IUSAT(x, sat) == IF Uint32(x) >= 2^(WORD - 1) THEN 0 ELSE USAT(x, sat)

SSAT16(x, y) == Dual(SSAT(SHalf(x, 0), y), SSAT(SHalf(x, 1), y))
USAT16(x, y) == Dual(IUSAT(UHalf(x, 0), y), IUSAT(UHalf(x, 1), y))

(* x + y may overflow before it is compared with x: what the compiler makes  *)
(* of the test is its own affair                                            *)
QADD(x, y) ==
  LET limit == IF y >= 0 THEN 2^(WORD - 1) - 1 ELSE -(2^(WORD - 1))
  IN IF Int32(x + y) = x + y THEN {x + y} ELSE {Int32(x + y), limit}
QSUB(x, y) ==
  LET tmp == x - y
  IN IF tmp > 2^(WORD - 1) - 1 THEN 2^(WORD - 1) - 1
     ELSE IF tmp < -(2^(WORD - 1)) THEN -(2^(WORD - 1)) ELSE tmp

----------------------------------------------------------------------------
(* turning and packing *)

ROR(x, n) == Uint32(Shr(x, n) + Shl(x, WORD - n))

(* the bits of value from the lowest up, while any is left *)
RBIT(x) ==
  LET bit(v, k) == (v \div 2^k) % 2
      used == CHOOSE n \in 1..WORD : x < 2^n /\ (n = 1 \/ x >= 2^(n - 1))
      result[k \in 0..(WORD - 1)] ==
        IF k = 0 THEN x ELSE Shl(result[k - 1], 1) + bit(x, k)
  IN Shl(result[used - 1], WORD - used)

REVSH(x) ==
  LET h == UByte(x, 1) + UByte(x, 0) * 2^BITS
  IN IF h < 2^(HALF - 1) THEN h ELSE h - 2^HALF

PKHBT(x, y, n) == Dual(x, Shl(y, n) \div 2^HALF)
PKHTB(x, y, n) == Dual(Sar(y, n), Shr(x, HALF))

SXTAB16(x, y) == Dual(SByte(y, 0) + SHalf(x, 0), SByte(y, 2) + SHalf(x, 1))
UXTAB16(x, y) == Dual(UByte(y, 0) + UHalf(x, 0), UByte(y, 2) + UHalf(x, 1))
SXTB16(x) == Dual(SByte(x, 0), SByte(x, 2))
UXTB16(x) == Dual(UByte(x, 0), UByte(x, 2))

----------------------------------------------------------------------------
(* four bytes: signed and unsigned, saturated, wrapped and halved *)

QADD8(x, y) == Quad([i \in Bytes |-> SSAT(SByte(x, i) + SByte(y, i), BITS)])
UQADD8(x, y) == Quad([i \in Bytes |-> IUSAT(UByte(x, i) + UByte(y, i), BITS)])
SADD8(x, y) == Quad([i \in Bytes |-> SByte(x, i) + SByte(y, i)])
UADD8(x, y) == Quad([i \in Bytes |-> UByte(x, i) + UByte(y, i)])
SHADD8(x, y) == Quad([i \in Bytes |-> Sar(SByte(x, i) + SByte(y, i), 1)])
UHADD8(x, y) == Quad([i \in Bytes |-> Shr(UByte(x, i) + UByte(y, i), 1)])

QSUB8(x, y) == Quad([i \in Bytes |-> SSAT(SByte(x, i) - SByte(y, i), BITS)])
UQSUB8(x, y) == Quad([i \in Bytes |-> IUSAT(UByte(x, i) - UByte(y, i), BITS)])
SSUB8(x, y) == Quad([i \in Bytes |-> SByte(x, i) - SByte(y, i)])
USUB8(x, y) == Quad([i \in Bytes |-> UByte(x, i) - UByte(y, i)])
SHSUB8(x, y) == Quad([i \in Bytes |-> Sar(SByte(x, i) - SByte(y, i), 1)])
UHSUB8(x, y) == Quad([i \in Bytes |-> Shr(UByte(x, i) - UByte(y, i), 1)])

(* the differences are masked; USADA8 takes their absolute values first *)
ABS(x) == IF Int32(x) < 0 THEN -Int32(x) ELSE Int32(x)
USAD8(x, y) ==
  LET d(i) == (UByte(x, i) - UByte(y, i)) % 2^BITS
  IN Uint32(d(0) + d(1) + d(2) + d(3))
USADA8(x, y, sum) ==
  LET d(i) == ABS(UByte(x, i) - UByte(y, i)) % 2^BITS
  IN Uint32(d(0) + d(1) + d(2) + d(3) + sum)

----------------------------------------------------------------------------
(* two halfwords *)

QADD16(x, y) ==
  Dual(SSAT(SHalf(x, 0) + SHalf(y, 0), HALF), SSAT(SHalf(x, 1) + SHalf(y, 1), HALF))
UQADD16(x, y) ==
  Dual(IUSAT(UHalf(x, 0) + UHalf(y, 0), HALF), IUSAT(UHalf(x, 1) + UHalf(y, 1), HALF))
SADD16(x, y) == Dual(SHalf(x, 0) + SHalf(y, 0), SHalf(x, 1) + SHalf(y, 1))
UADD16(x, y) == Dual(UHalf(x, 0) + UHalf(y, 0), UHalf(x, 1) + UHalf(y, 1))
SHADD16(x, y) ==
  Dual(Sar(SHalf(x, 0) + SHalf(y, 0), 1), Sar(SHalf(x, 1) + SHalf(y, 1), 1))
UHADD16(x, y) ==
  Dual(Shr(UHalf(x, 0) + UHalf(y, 0), 1), Shr(UHalf(x, 1) + UHalf(y, 1), 1))

QSUB16(x, y) ==
  Dual(SSAT(SHalf(x, 0) - SHalf(y, 0), HALF), SSAT(SHalf(x, 1) - SHalf(y, 1), HALF))
UQSUB16(x, y) ==
  Dual(IUSAT(UHalf(x, 0) - UHalf(y, 0), HALF), IUSAT(UHalf(x, 1) - UHalf(y, 1), HALF))
SSUB16(x, y) == Dual(SHalf(x, 0) - SHalf(y, 0), SHalf(x, 1) - SHalf(y, 1))
USUB16(x, y) == Dual(UHalf(x, 0) - UHalf(y, 0), UHalf(x, 1) - UHalf(y, 1))
SHSUB16(x, y) ==
  Dual(Sar(SHalf(x, 0) - SHalf(y, 0), 1), Sar(SHalf(x, 1) - SHalf(y, 1), 1))
UHSUB16(x, y) ==
  Dual(Shr(UHalf(x, 0) - UHalf(y, 0), 1), Shr(UHalf(x, 1) - UHalf(y, 1), 1))

(* exchanged: a difference below and a sum above, and the other way round *)
QASX(x, y) ==
  Dual(SSAT(SHalf(x, 0) - SHalf(y, 1), HALF), SSAT(SHalf(x, 1) + SHalf(y, 0), HALF))
UQASX(x, y) ==
  Dual(IUSAT(UHalf(x, 0) - UHalf(y, 1), HALF), IUSAT(UHalf(x, 1) + UHalf(y, 0), HALF))
SASX(x, y) == Dual(SHalf(x, 0) - SHalf(y, 1), SHalf(x, 1) + SHalf(y, 0))
UASX(x, y) == Dual(UHalf(x, 0) - UHalf(y, 1), UHalf(x, 1) + UHalf(y, 0))
SHASX(x, y) ==
  Dual(Sar(SHalf(x, 0) - SHalf(y, 1), 1), Sar(SHalf(x, 1) + SHalf(y, 0), 1))
UHASX(x, y) ==
  Dual(Shr(UHalf(x, 0) - UHalf(y, 1), 1), Shr(UHalf(x, 1) + UHalf(y, 0), 1))

QSAX(x, y) ==
  Dual(SSAT(SHalf(x, 0) + SHalf(y, 1), HALF), SSAT(SHalf(x, 1) - SHalf(y, 0), HALF))
UQSAX(x, y) ==
  Dual(IUSAT(UHalf(x, 0) + UHalf(y, 1), HALF), IUSAT(UHalf(x, 1) - UHalf(y, 0), HALF))
USAX(x, y) == Dual(UHalf(x, 0) + UHalf(y, 1), UHalf(x, 1) - UHalf(y, 0))
SSAX(x, y) == Dual(SHalf(x, 0) + SHalf(y, 1), SHalf(x, 1) - SHalf(y, 0))
SHSAX(x, y) ==
  Dual(Sar(SHalf(x, 0) + SHalf(y, 1), 1), Sar(SHalf(x, 1) - SHalf(y, 0), 1))
UHSAX(x, y) ==
  Dual(Shr(UHalf(x, 0) + UHalf(y, 1), 1), Shr(UHalf(x, 1) - UHalf(y, 0), 1))

----------------------------------------------------------------------------
(* products; the two are added or subtracted as int32_t, then a sum as      *)
(* uint32_t or uint64_t                                                     *)

Uint64(x) == x % 2^(2 * WORD)

SMUAD(x, y) == Uint32(Int32(SHalf(x, 0) * SHalf(y, 0) + SHalf(x, 1) * SHalf(y, 1)))
SMUADX(x, y) == Uint32(Int32(SHalf(x, 0) * SHalf(y, 1) + SHalf(x, 1) * SHalf(y, 0)))
SMUSD(x, y) == Uint32(Int32(SHalf(x, 0) * SHalf(y, 0) - SHalf(x, 1) * SHalf(y, 1)))
SMUSDX(x, y) == Uint32(Int32(SHalf(x, 0) * SHalf(y, 1) - SHalf(x, 1) * SHalf(y, 0)))

SMLAD(x, y, sum) == Uint32(Int32(SMUAD(x, y)) + Int32(sum))
SMLADX(x, y, sum) == Uint32(Int32(SMUADX(x, y)) + Int32(sum))
SMLSD(x, y, sum) == Uint32(Int32(SMUSD(x, y)) + Int32(sum))
SMLSDX(x, y, sum) == Uint32(Int32(SMUSDX(x, y)) + Int32(sum))

SMLALD(x, y, sum) == Uint64(Int32(SMUAD(x, y)) + sum)
SMLALDX(x, y, sum) == Uint64(Int32(SMUADX(x, y)) + sum)
SMLSLD(x, y, sum) == Uint64(Int32(SMUSD(x, y)) + sum)
SMLSLDX(x, y, sum) == Uint64(Int32(SMUSDX(x, y)) + sum)

SMMLA(x, y, sum) == Uint32(Int32((Int32(x) * Int32(y)) \div 2^WORD) + Int32(sum))

----------------------------------------------------------------------------
(* what the remarks of csi_gcc.h say: fields of the operands, as numbers *)

Field(x, i, w) == (x \div 2^(i * w)) % 2^w
Signed(v, w) == IF v < 2^(w - 1) THEN v ELSE v - 2^w
Clamp(v, lo, hi) == IF v < lo THEN lo ELSE IF v > hi THEN hi ELSE v
SClamp(v, w) == Clamp(v, -(2^(w - 1)), 2^(w - 1) - 1)
UClamp(v, w) == Clamp(v, 0, 2^w - 1)


(* saturated, wrapped and halved, each signed and unsigned *)
Add8(x, y) ==
  <<QADD8(x, y), UQADD8(x, y), SADD8(x, y), UADD8(x, y), SHADD8(x, y), UHADD8(x, y)>>
Sub8(x, y) ==
  <<QSUB8(x, y), UQSUB8(x, y), SSUB8(x, y), USUB8(x, y), SHSUB8(x, y), UHSUB8(x, y)>>
Add16(x, y) ==
  <<QADD16(x, y), UQADD16(x, y), SADD16(x, y), UADD16(x, y), SHADD16(x, y), UHADD16(x, y)>>
Sub16(x, y) ==
  <<QSUB16(x, y), UQSUB16(x, y), SSUB16(x, y), USUB16(x, y), SHSUB16(x, y), UHSUB16(x, y)>>
Asx(x, y) ==
  <<QASX(x, y), UQASX(x, y), SASX(x, y), UASX(x, y), SHASX(x, y), UHASX(x, y)>>
Sax(x, y) ==
  <<QSAX(x, y), UQSAX(x, y), SSAX(x, y), USAX(x, y), SHSAX(x, y), UHSAX(x, y)>>

(* field i of the six, for a signed result ds and an unsigned one du *)
Meet(six, i, w, ds, du) ==
  [k \in 1..6 |-> Field(six[k], i, w)]
    = <<SClamp(ds, w) % 2^w, UClamp(du, w), ds % 2^w, du % 2^w,
        (ds \div 2) % 2^w, (du \div 2) % 2^w>>

BytesMeetRemarks(x, y) ==
  \A i \in Bytes :
    LET u == Field(x, i, BITS)
        v == Field(y, i, BITS)
        s == Signed(u, BITS)
        t == Signed(v, BITS)
    IN Meet(Add8(x, y), i, BITS, s + t, u + v) /\ Meet(Sub8(x, y), i, BITS, s - t, u - v)

HalvesMeetRemarks(x, y) ==
  LET U(z, i) == Field(z, i, HALF)
      S(z, i) == Signed(U(z, i), HALF)
  IN /\ \A i \in {0, 1} :
          /\ Meet(Add16(x, y), i, HALF, S(x, i) + S(y, i), U(x, i) + U(y, i))
          /\ Meet(Sub16(x, y), i, HALF, S(x, i) - S(y, i), U(x, i) - U(y, i))
     /\ Meet(Asx(x, y), 0, HALF, S(x, 0) - S(y, 1), U(x, 0) - U(y, 1))
     /\ Meet(Asx(x, y), 1, HALF, S(x, 1) + S(y, 0), U(x, 1) + U(y, 0))
     /\ Meet(Sax(x, y), 0, HALF, S(x, 0) + S(y, 1), U(x, 0) + U(y, 1))
     /\ Meet(Sax(x, y), 1, HALF, S(x, 1) - S(y, 0), U(x, 1) - U(y, 0))

(* the sum of two products overflows 32 bits in one case, where the remark  *)
(* of SMLALD has it that only the last addition may                         *)
ProductsMeetRemarks(x, y, z) ==
  LET S(v, i) == Signed(Field(v, i, HALF), HALF)
      p(i, j) == S(x, i) * S(y, j)
      Fits(v) == v < 2^(WORD - 1)
  IN /\ SMLAD(x, y, z) = (p(0, 0) + p(1, 1) + z) % 2^WORD
     /\ SMLADX(x, y, z) = (p(0, 1) + p(1, 0) + z) % 2^WORD
     /\ SMLSD(x, y, z) = (p(0, 0) - p(1, 1) + z) % 2^WORD
     /\ SMLSDX(x, y, z) = (p(0, 1) - p(1, 0) + z) % 2^WORD
     /\ Fits(p(0, 0) + p(1, 1)) =>
          SMLALD(x, y, z) = (p(0, 0) + p(1, 1) + z) % 2^(2 * WORD)
     /\ Fits(p(0, 1) + p(1, 0)) =>
          SMLALDX(x, y, z) = (p(0, 1) + p(1, 0) + z) % 2^(2 * WORD)
     /\ SMLSLD(x, y, z) = (p(0, 0) - p(1, 1) + z) % 2^(2 * WORD)
     /\ SMLSLDX(x, y, z) = (p(0, 1) - p(1, 0) + z) % 2^(2 * WORD)
     /\ SMMLA(x, y, z) = ((Signed(x, WORD) * Signed(y, WORD)) \div 2^WORD + z) % 2^WORD

(* the absolute differences are those of USADA8; USAD8 agrees when none of   *)
(* its differences is below zero                                            *)
SumsMeetRemarks(x, y, z) ==
  LET d(i) == Field(x, i, BITS) - Field(y, i, BITS)
      abs(v) == IF v < 0 THEN -v ELSE v
      sum == abs(d(0)) + abs(d(1)) + abs(d(2)) + abs(d(3))
  IN /\ USADA8(x, y, z) = (sum + z) % 2^WORD
     /\ (\A i \in Bytes : d(i) >= 0) => USAD8(x, y) = sum

WordsMeetRemarks(x, y) ==
  LET s == Signed(x, WORD)
      t == Signed(y, WORD)
  IN /\ SClamp(s + t, WORD) \in QADD(s, t)
     /\ QSUB(s, t) = SClamp(s - t, WORD)
     /\ SXTAB16(x, y) = Dual(Signed(Field(y, 0, BITS), BITS) + Field(x, 0, HALF),
                             Signed(Field(y, 2, BITS), BITS) + Field(x, 1, HALF))
     /\ UXTAB16(x, y) = Dual(Field(y, 0, BITS) + Field(x, 0, HALF),
                             Field(y, 2, BITS) + Field(x, 1, HALF))
     /\ SXTB16(x) = SXTAB16(0, x) /\ UXTB16(x) = UXTAB16(0, x)

(* from 1 on: a shift by the width of a word is not one in C; USAT16 is      *)
(* right of halfwords that are not below zero                               *)
BitsMeetRemarks(x, n) ==
  LET U(i) == Field(x, i, HALF)
      S(i) == Signed(U(i), HALF)
      s == Signed(x, WORD)
      bit(v, k) == (v \div 2^k) % 2
  IN /\ SSAT(s, n) = SClamp(s, n)
     /\ USAT(x, n) = UClamp(x, n) /\ IUSAT(x, n) = UClamp(s, n)
     /\ n <= HALF => /\ SSAT16(x, n) = Dual(SClamp(S(0), n), SClamp(S(1), n))
                     /\ S(0) >= 0 /\ S(1) >= 0 =>
                          USAT16(x, n) = Dual(UClamp(S(0), n), UClamp(S(1), n))
     /\ \A k \in 0..(WORD - 1) : /\ bit(ROR(x, n), k) = bit(x, (k + n) % WORD)
                                 /\ bit(RBIT(x), k) = bit(x, WORD - 1 - k)
     /\ REVSH(x) = Signed(Field(x, 1, BITS) + Field(x, 0, BITS) * 2^BITS, HALF)
     /\ PKHBT(x, x, n) = U(0) + (((x * 2^n) % 2^WORD) \div 2^HALF) * 2^HALF
     /\ PKHTB(x, x, n) = ((s \div 2^n) % 2^HALF) + U(1) * 2^HALF

(* Every intrinsic computes what its remark says, lane by lane, but for the  *)
(* cases named above.  (__IUSAT, csi_gcc.h:1287; __QADD8, csi_gcc.h:1549)    *)
SimdInvariant ==
  /\ SimdTypeOK
  /\ args # <<>> =>
       LET x == args[1]
           y == args[2]
           z == args[3]
       IN /\ BytesMeetRemarks(x, y) /\ HalvesMeetRemarks(x, y)
          /\ ProductsMeetRemarks(x, y, z) /\ SumsMeetRemarks(x, y, z)
          /\ WordsMeetRemarks(x, y)
          /\ y \in 1..(WORD - 1) => BitsMeetRemarks(x, y)
=============================================================================
