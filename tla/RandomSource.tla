---------------------------- MODULE RandomSource ----------------------------
(***************************************************************************)
(* Where the benchmark's keys and values come from: the generator of       *)
(* bench/util/random.h, the strings of bench/util/testutil.cc and class    *)
(* RandomGenerator of bench/bench.cc, with the widths of the C++ types.    *)
(* The numbers are the code's own, which TLC's integers cannot multiply;   *)
(* UtilProofs proves what is claimed of them.                              *)
(***************************************************************************)
EXTENDS Integers, Sequences

M == 2147483647                   \* 2^31 - 1
A == 16807
IsSeed(s) == s \in Nat /\ 0 < s /\ s < M

\* Random(s): the low 31 bits of s, bad seeds avoided.
Random(s) ==
  LET low == s % 2147483648
  IN IF low = 0 \/ low = M THEN 1 ELSE low

\* Next(): product >> 31 plus product & M, cast to 32 bits, and one subtraction.
Reduce(product) == ((product \div 2147483648) + (product % 2147483648)) % 4294967296
NextSeed(s) ==
  LET seed == Reduce(s * A)
  IN IF seed > M THEN seed - M ELSE seed

\* Uniform(n) and OneIn(n): s is the seed before the call.
Uniform(s, n) == NextSeed(s) % n
OneIn(s, n) == NextSeed(s) % n = 0

\* RandomString: a character from ' ' to '~'.
RandomChar(s) == 32 + Uniform(s, 95)

\* CompressibleString: a random string of raw characters (at least one), repeated
\* until it is at least len long and cut to len; n / d is compressed_fraction.
Raw(len, n, d) ==
  LET raw == (len * n) \div d IN IF raw < 1 THEN 1 ELSE raw
CompressibleString(raw_data, len) ==
  [i \in 1 .. len |-> raw_data[((i - 1) % Len(raw_data)) + 1]]

\* RandomGenerator(): pieces of 100 bytes until there are max(1048576, value_size).
Wanted(value_size) == IF value_size > 1048576 THEN value_size ELSE 1048576
DataSize(value_size) == 100 * ((Wanted(value_size) + 99) \div 100)

\* Generate(len), GenerateWithTTL(len): the next len bytes of the data, from its start
\* again when not so many are left; pos_ + len is a 32-bit sum.
From(pos, len, size) == IF (pos + len) % 4294967296 > size THEN 0 ELSE pos
Generate(pos, len, size) ==
  LET after == (From(pos, len, size) + len) % 4294967296
  IN [pos |-> after, data |-> after - len, size |-> len]
=============================================================================
