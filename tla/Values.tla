------------------------------- MODULE Values -------------------------------
(***************************************************************************)
(* The value types and conversions of the benchmark with the widths of     *)
(* their C++ types: Slice, Status, ConsumeDecimalNumber, the read of a     *)
(* mapped file and the key made of an integer.  A Slice is the sequence of *)
(* bytes it refers to.  UtilProofs proves what is claimed of them.         *)
(***************************************************************************)
EXTENDS Integers, Sequences

Byte == 0 .. 255
Word32 == 4294967296              \* 2^32
Word64 == 18446744073709551616    \* 2^64

-----------------------------------------------------------------------------
(* slice.h                                                                 *)

\* memcmp: what the first byte in which a and b differ says, or 0.
Differ(a, b, n) == {i \in 1 .. n : a[i] # b[i]}
First(D) == CHOOSE i \in D : \A j \in D : i <= j
Memcmp(a, b, n) ==
  IF Differ(a, b, n) = {} THEN 0
  ELSE IF a[First(Differ(a, b, n))] < b[First(Differ(a, b, n))] THEN -1 ELSE 1

MinLen(a, b) == IF Len(a) < Len(b) THEN Len(a) ELSE Len(b)
Compare(a, b) ==
  IF Memcmp(a, b, MinLen(a, b)) # 0 THEN Memcmp(a, b, MinLen(a, b))
  ELSE IF Len(a) < Len(b) THEN -1 ELSE IF Len(a) > Len(b) THEN 1 ELSE 0
Equal(x, y) == Len(x) = Len(y) /\ Memcmp(x, y, Len(x)) = 0
StartsWith(a, x) == Len(a) >= Len(x) /\ Memcmp(a, x, Len(x)) = 0

-----------------------------------------------------------------------------
(* status.h, status.cc                                                     *)

Codes == {"NotFound", "Corruption", "NotSupported", "InvalidArgument", "IOError"}
Junk == -1
OK == [state |-> "NULL"]

\* Status(code, msg, msg2): an array of size + 5 bytes with the length, the code and
\* what the two memcpys, the ':' and the ' ' leave; a byte that none of them writes is Junk.
Second(len2) == IF len2 # 0 THEN 2 + len2 ELSE 0
StatusSize(msg, msg2) == (Len(msg) + Second(Len(msg2))) % Word32
Error(code, msg, msg2) ==
  [state |-> "new[]", length |-> StatusSize(msg, msg2), code |-> code,
   message |-> [k \in 1 .. StatusSize(msg, msg2) |->
                  IF k <= Len(msg) THEN msg[k]
                  ELSE IF Len(msg2) = 0 THEN Junk
                  ELSE IF k = Len(msg) + 1 THEN 58
                  ELSE IF k = Len(msg) + 2 THEN 32
                  ELSE IF k <= Len(msg) + 2 + Len(msg2) THEN msg2[k - Len(msg) - 2]
                  ELSE Junk]]

\* ToString without its prefix: length bytes of the message.
Text(s) == SubSeq(s.message, 1, s.length)

-----------------------------------------------------------------------------
(* logging.cc: one digit of ConsumeDecimalNumber                           *)

kMaxUint64 == 18446744073709551615
Overflow(v, delta) ==
  v > kMaxUint64 \div 10 \/ (v = kMaxUint64 \div 10 /\ delta > kMaxUint64 % 10)
Accumulate(v, delta) == (((v * 10) % Word64) + delta) % Word64

-----------------------------------------------------------------------------
(* env_posix.cc: PosixMmapReadableFile::Read.  The slice, or EINVAL.       *)
MmapRead(offset, n, length) ==
  IF (offset + n) % Word64 > length THEN [status |-> "EINVAL", from |-> 0, size |-> 0]
  ELSE [status |-> "OK", from |-> offset, size |-> n]

-----------------------------------------------------------------------------
(* bench.cc: GenerateKeyFromInt.  The low bytes of v, then '0' to the end. *)
Pow256 == <<1, 256, 65536, 16777216, 4294967296, 1099511627776, 281474976710656,
            72057594037927936, Word64>>
BytesToFill(key_size) == IF key_size < 8 THEN key_size ELSE 8
GenerateKeyFromInt(v, key_size) ==
  [i \in 1 .. key_size |-> IF i <= BytesToFill(key_size) THEN (v \div Pow256[i]) % 256 ELSE 48]
=============================================================================
