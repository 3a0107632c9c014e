--------------------------- MODULE BitOperations ---------------------------
(***************************************************************************)
(* Reversal of bits (BitReverse.cpp), the cyclic redundancy check          *)
(* (crc.cpp), the shifts of a buffer of samples (SampleBuffer), the reader *)
(* of fields of bits (bitStreamReader), and the multiplications of         *)
(* BigNum.cpp: products of numbers of one or two half words, or of two and *)
(* four, computed from the products of their halves as a machine without   *)
(* wider integers would.                                                   *)
(***************************************************************************)
EXTENDS Integers, SequencesExt

CONSTANTS
  HALF,      (* 16: the bits of half a word of BigNum.                       *)
  BYTE,      (* 8: bits of a byte; an int has four bytes.                    *)
  CRC_POLY   (* The polynomial, its bits, most significant first.            *)

ASSUME HalfAssumption == HALF \in Nat \ {0}
ASSUME ByteAssumption == BYTE \in Nat \ {0}

BITS == 4 * BYTE

Bits(n, w) == [i \in 1 .. w |-> (n \div 2^(i - 1)) % 2]
Number(bits) == FoldRight(LAMBDA bit, n : 2 * n + bit, bits, 0)

(* A number in a signed integer of w bits: an overflow wraps. *)
Signed(n, w) ==
  LET m == n % 2^w IN IF m < 2^(w - 1) THEN m ELSE m - 2^w

-----------------------------------------------------------------------------
(* Reversal, by a table for a byte. *)
BitReverse8(input) == Number(Reverse(Bits(input, BYTE)))

BYTE_0(x) == x % 2^BYTE
BYTE_1(x) == (x \div 2^BYTE) % 2^BYTE

(* Slip: the bytes stay where they are. *)
BitReverse16InPlace(input) == BitReverse8(BYTE_0(input)) + 2^BYTE * BitReverse8(BYTE_1(input))

BitReverse16(input) == 2^BYTE * BitReverse8(BYTE_0(input)) + BitReverse8(BYTE_1(input))

WORD16_0(x) == x % 2^(2 * BYTE)
WORD16_1(x) == x \div 2^(2 * BYTE)

BitReverse32(input) ==
  2^(2 * BYTE) * BitReverse16(WORD16_0(input)) + BitReverse16(WORD16_1(input))

(* The shift down is that of a signed integer. *)
BitReverseX(input, numBits) ==
  (Signed(BitReverse32(input), BITS) \div 2^(BITS - numBits)) % 2^BITS

SignExtendToInt(input, sourceBitWidth) ==
  Signed(2^(BITS - sourceBitWidth) * input, BITS) \div 2^(BITS - sourceBitWidth)

-----------------------------------------------------------------------------
(* The check: the register takes the bits of the message, each byte least    *)
(* significant first, then as many zeros as it has bits.                     *)
Cycle(out, bit) ==
  LET shifted == Append(Tail(out), bit)
  IN  IF Head(out) = 1 THEN [i \in DOMAIN out |-> (shifted[i] + CRC_POLY[i]) % 2] ELSE shifted

Zeros == [i \in DOMAIN CRC_POLY |-> 0]

MessageBits(data) == FlattenSeq([i \in DOMAIN data |-> Bits(data[i], BYTE)])

(* The register is sent reversed: its value counts the first bit lowest. *)
calc_16_CRC(data) ==
  Number(FoldLeft(Cycle, Zeros, MessageBits(data) \o Zeros))

-----------------------------------------------------------------------------
(* A buffer of samples, which are kept at the top of a word.                 *)
SampleBuffer == [vect |-> <<>>, point |-> BITS, bitdepth |-> BITS]

setBitDepth(b, depth) == [b EXCEPT !.bitdepth = depth]

add(b, val, depth) ==
  [b EXCEPT !.vect = Append(@, Signed(2^(BITS - depth) * val, BITS))]

put(b, i, val, depth) ==
  [b EXCEPT !.vect[i + 1] = Signed(2^(BITS - depth) * val, BITS)]

get(b, i) == b.vect[i + 1] \div 2^(BITS - b.bitdepth)

adjustFixedPoint(b, point) ==
  [b EXCEPT !.point = point,
            !.vect = [i \in DOMAIN @ |->
                       IF point < b.point THEN @[i] \div 2^(b.point - point)
                       ELSE Signed(2^(point - b.point) * @[i], BITS)]]

(* A copy, and an assignment, forget the depth: the copy's is a word, the    *)
(* assigned keeps its own.                                                   *)
Copy(b) == [b EXCEPT !.bitdepth = BITS]
Assign(b, src) == [src EXCEPT !.bitdepth = b.bitdepth]

-----------------------------------------------------------------------------
(* bitStreamReader takes fields of bits off a run of bytes: a pointer, the   *)
(* bits used of the byte it points to, and the length that is left.          *)

(* The number that bits are, most significant first. *)
BitsToNumber(bits) ==
  LET first[i \in 0 .. Len(bits)] == IF i = 0 THEN 0 ELSE 2 * first[i - 1] + bits[i]
  IN  first[Len(bits)]

(* source is bits; length, in bytes, is what the caller says. *)
NewReader(source, length) ==
  [source |-> source, ptr |-> 0, bitOffset |-> 0, BitStreamLength |-> length]

CanGet(r, numBits) ==
  numBits # 0 /\ numBits <= 8 * r.BitStreamLength - r.bitOffset

(* A field, with the bits used before it, lies within four bytes. *)
GetXBits(r, numBits) ==
  BitsToNumber(SubSeq(r.source, 8 * r.ptr + r.bitOffset + 1, 8 * r.ptr + r.bitOffset + numBits))

AfterGet(r, numBits) ==
  LET used == (r.bitOffset + numBits) \div 8
  IN  [r EXCEPT !.ptr = @ + used, !.BitStreamLength = @ - used,
                !.bitOffset = (@ + numBits) % 8]

(* A whole byte is passed over when the pointer is at a byte's first bit,    *)
(* and the length is left as it is.                                          *)
JumpToNextByteBoundary(r) == [r EXCEPT !.ptr = @ + 1, !.bitOffset = 0]

GetNumBytesConsumed(r) == r.ptr + IF r.bitOffset = 0 THEN 0 ELSE 1

-----------------------------------------------------------------------------
(* BigNum.cpp *)

WORD == 2 * HALF

Upper(n, half) == n \div 2^half
Lower(n, half) == n % 2^half

(* A half word by a word; the result is a double word, but is computed in    *)
(* words.                                                                    *)
multiply16by32(a, b) ==
  Signed(2^HALF * Signed(Upper(b, HALF) * a, WORD) + Signed(Lower(b, HALF) * a, WORD), WORD)

(* Slip: the carry of the lower half is lost. *)
CarriedNot(ab_l) == 0

Carried(ab_l) == Upper(ab_l, HALF)

(* The same, shifted right by up to half a word without ever needing more    *)
(* than a word: the upper half takes the carry of the lower, and gives its   *)
(* low bits to it.                                                           *)
multiply_16by32to32withlsr(a, b, rs) ==
  LET ab_l == Lower(b, HALF) * a
      ab_u == Upper(b, HALF) * a + Carried(ab_l)
      low  == ((2^(HALF - rs) * ab_u) % 2^HALF) + (Lower(ab_l, HALF) \div 2^rs)
  IN  Signed(2^HALF * (ab_u \div 2^rs) + low, WORD)

(* A word by a word: the middle products are shifted as words. *)
multiply32by32(a, b) ==
  LET Part(x, y) == Signed(x * y, WORD)
      Shifted(p) == Signed(2^HALF * p, WORD)
  IN  2^WORD * Part(Upper(a, HALF), Upper(b, HALF))
        + Shifted(Part(Upper(a, HALF), Lower(b, HALF)))
        + Shifted(Part(Lower(a, HALF), Upper(b, HALF)))
        + Part(Lower(a, HALF), Lower(b, HALF))

multiply_rs(product, rs) == product \div 2^rs

(* A double word by a double word: three parts, each the power of a word     *)
(* apart.  The test for a carry is the wrong way round, and measures with    *)
(* the largest word where a part is a double word.                           *)
INT32_MAX == 2^(WORD - 1) - 1

Carries(t2, t3) == INT32_MAX - t2 > t3

multiplyBigInt(a, b) ==
  LET Part(x, y) == Signed(x * y, 2 * WORD)
      t1 == Part(Upper(a, WORD), Upper(b, WORD))
      t2 == Part(Upper(a, WORD), Lower(b, WORD))
      t3 == Part(Lower(a, WORD), Upper(b, WORD))
      t4 == Part(Lower(a, WORD), Lower(b, WORD))
  IN  IF Carries(t2, t3) THEN <<t4, t3 - (INT32_MAX - t2), t1 + 1>>
      ELSE <<t4, Signed(t2 + t3, 2 * WORD), t1>>

(* right_shift of such a number has an empty body. *)
right_shift(val, rs) == val

BigIntValue(val) == val[1] + 2^WORD * val[2] + 2^(2 * WORD) * val[3]
=============================================================================
