------------------------------- MODULE BitUtil -------------------------------
(***************************************************************************)
(* NetBitUtil.h: how many bits a value needs on the wire.  Every field     *)
(* width of the library is GetRequiredBits of some bound, computed by the  *)
(* sender and by the receiver independently.                               *)
(***************************************************************************)
EXTENDS Integers

\* Faulty variant: a stage constant is one too large.
ClzStageOffByOne(W, shift, k, x) ==
  IF x < 2 ^ (W - shift - k) + 1 THEN shift + k ELSE shift

(***************************************************************************)
(* One stage ClzK_W of ClzHelper.  The code shifts x left by the zeros it  *)
(* has already counted; the model keeps x and passes that count as         *)
(* "shift", which is the same test because only zeros are shifted out.     *)
(***************************************************************************)
ClzStage(W, shift, k, x) ==
  IF x < 2 ^ (W - shift - k) THEN shift + k ELSE shift

\* Clz8_32 and the stages below it, s zeros having been counted already.
ClzFrom8(W, s, x) ==
  LET s8 == ClzStage(W, s, 8, x)
      s4 == ClzStage(W, s8, 4, x)
      s2 == ClzStage(W, s4, 2, x)
  IN  ClzStage(W, s2, 1, x)

\* ClzHelper::Clz16_32
Clz16_32(x) == ClzFrom8(32, ClzStage(32, 0, 16, x), x)

\* CountLeadingZeros<int>: a negative value has its top bit set.
CountLeadingZeros(val) == IF val < 0 THEN 0 ELSE Clz16_32(val)

GetRequiredBits(max_value) == 32 - CountLeadingZeros(max_value)

\* A field of "bits" bits keeps the low bits of the value written to it
\* (NetBitWriterVector::WriteBitsInternal in a build without _DEBUG).
Truncate(val, bits) == val % (2 ^ bits)

\* The low n bits of val, first bit first.
BitsOf(val, n) == [i \in 1 .. n |-> (val \div 2 ^ (i - 1)) % 2]
==============================================================================
