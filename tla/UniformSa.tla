------------------------------ MODULE UniformSa ------------------------------
(***************************************************************************)
(* util/saca.hpp, uniform_sa::write_binary: the suffix array as bytes.     *)
(* With bits = 0 the width of an entry is computed from the length and a   *)
(* header byte announces it; otherwise the caller's width is used and the  *)
(* header is left out.  Widths are rounded up to whole bytes, and an entry *)
(* is written lowest byte first.  `bits' is an 8 bit counter.              *)
(***************************************************************************)
EXTENDS Integers, Sequences, FiniteSets

CONSTANTS
  ByteBits,      \* bits of a byte
  BitsModulus,   \* the counter `bits' is computed modulo this
  MaxLength,
  FixedBits      \* the widths a caller may ask for (-F), 0 for none

WidthAssumption ==
  /\ ByteBits \in Nat \ {0}
  /\ BitsModulus \in Nat /\ BitsModulus > ByteBits
  /\ BitsModulus % ByteBits = 0
  /\ MaxLength \in Nat
  /\ FixedBits \subseteq Nat

VARIABLES
  sa,            \* sa_without_sentinels()
  fixed,         \* out_fixed_bits
  bits,
  header,        \* the header byte, NoHeader if there is none
  out,           \* the bytes of the entries
  i, v, b,       \* the entry being written, what is left of it, bits left
  pc

vars == << sa, fixed, bits, header, out, i, v, b, pc >>

NoHeader == -1

PowerOfTwo[k \in Nat] == IF k = 0 THEN 1 ELSE 2 * PowerOfTwo[k - 1]
ByteValues == PowerOfTwo[ByteBits]

ceil_log2(x) ==
  CHOOSE k \in 0 .. x : PowerOfTwo[k] >= x /\ \A j \in 0 .. k - 1 : PowerOfTwo[j] < x

Permutations0(n) ==
  { f \in [1 .. n -> 0 .. n - 1] : Cardinality({ f[k] : k \in 1 .. n }) = n }

Init ==
  /\ sa \in UNION { Permutations0(n) : n \in 0 .. MaxLength }
  /\ fixed \in FixedBits
  /\ bits = fixed % BitsModulus
  /\ header = NoHeader
  /\ out = << >>
  /\ i = 0 /\ v = 0 /\ b = 0
  /\ pc = "width"

ChooseBits ==
  /\ pc = "width"
  /\ IF bits # 0 THEN UNCHANGED << bits, header >>
     ELSE /\ bits' = IF Len(sa) > 0 THEN ceil_log2(Len(sa) - 1) % BitsModulus ELSE 0
          /\ header' = bits'
  /\ pc' = "round"
  /\ UNCHANGED << sa, fixed, out, i, v, b >>

\* One round of the do-while, entered only when there is something to round.
RoundUp ==
  /\ pc = "round"
  /\ bits' = IF bits % ByteBits = 0 THEN bits ELSE (bits + 1) % BitsModulus
  /\ pc' = IF bits' % ByteBits = 0 THEN "entry" ELSE "round"
  /\ UNCHANGED << sa, fixed, header, out, i, v, b >>

BeginEntry ==
  /\ pc = "entry"
  /\ IF i < Len(sa)
     THEN v' = sa[i + 1] /\ b' = bits /\ pc' = "bytes"
     ELSE pc' = "done" /\ UNCHANGED << v, b >>
  /\ UNCHANGED << sa, fixed, bits, header, out, i >>

\* Faulty: highest byte first.
PutByte_HighFirst ==
  /\ pc = "bytes" /\ b # 0
  /\ b' = (b - ByteBits) % BitsModulus
  /\ out' = Append(out, (v \div PowerOfTwo[b']) % ByteValues)
  /\ UNCHANGED << sa, fixed, bits, header, i, v, pc >>

PutByte ==
  /\ pc = "bytes" /\ b # 0
  /\ out' = Append(out, v % ByteValues)
  /\ v' = v \div ByteValues
  /\ b' = (b - ByteBits) % BitsModulus
  /\ UNCHANGED << sa, fixed, bits, header, i, pc >>

EndEntry ==
  /\ pc = "bytes" /\ b = 0
  /\ i' = i + 1
  /\ pc' = "entry"
  /\ UNCHANGED << sa, fixed, bits, header, out, v, b >>

Done == pc = "done" /\ UNCHANGED vars

Next == ChooseBits \/ RoundUp \/ BeginEntry \/ PutByte \/ EndEntry \/ Done

Spec == Init /\ [][Next]_vars /\ WF_vars(Next)

-----------------------------------------------------------------------------
(* What a reader gets who takes `width' bits per entry.                    *)

BytesOf(width) == width \div ByteBits

\* The value of the first m bytes of entry k, for m up to the whole of it.
EntryValue(width, k) ==
  LET value[m \in 0 .. BytesOf(width)] ==
        IF m = 0 THEN 0
        ELSE value[m - 1] + out[(k - 1) * BytesOf(width) + m] * PowerOfTwo[ByteBits * (m - 1)]
  IN  value

ReadBack(width) == [ k \in 1 .. Len(sa) |-> EntryValue(width, k)[BytesOf(width)] ]

Readable(width) ==
  /\ width % ByteBits = 0
  /\ Len(out) = Len(sa) * BytesOf(width)
  /\ ReadBack(width) = sa

Representable == \A k \in 1 .. Len(sa) : sa[k] < PowerOfTwo[bits]

\* A reader who knows the rounded width (it is printed to stderr) gets the
\* array back, as long as its values have no more bits than that.
EntriesReadBack == pc = "done" /\ Representable => Readable(bits)

=============================================================================
