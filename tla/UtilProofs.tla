----------------------------- MODULE UtilProofs -----------------------------
(***************************************************************************)
(* What RandomSource, PosixLogger and Values compute, for every argument.  *)
(* Numbers that are too large for Zenon are kept to leaves that name SMT.  *)
(***************************************************************************)
EXTENDS RandomSource, PosixLogger, Values, WellFoundedInduction, NaturalsInduction, TLAPS

-----------------------------------------------------------------------------
(* The generator of random.h                                               *)

\* M = 7 * 306783378 + 1, so a factor 7 of one side of an equation with M is a
\* factor of the other side's cofactor.
LEMMA PeelSeven ==
  ASSUME NEW s \in Int, NEW x \in Int, NEW k \in Int, 7 * k * s = M * x
  PROVE  \E y \in Int : x = 7 * y /\ k * s = M * y
<1> DEFINE y == k * s - 306783378 * x
<1>0. PICK t \in Int : t = k * s BY SMT
<1>1. 7 * t = M * x BY SMT, <1>0
<1>2. x = 7 * y BY SMT, <1>0, <1>1 DEF M
<1>3. k * s = M * y BY SMT, <1>0, <1>1 DEF M
<1>4. y \in Int BY SMT
<1> QED BY SMT, <1>2, <1>3, <1>4

\* The product of a seed and A = 7^5 is no multiple of M.
LEMMA NoMultiple ==
  ASSUME NEW s, IsSeed(s), NEW x \in Int, 16807 * s = M * x
  PROVE  FALSE
<1>0. s \in Int BY SMT DEF IsSeed
<1>1. PICK a \in Int : 2401 * s = M * a BY SMT, <1>0, PeelSeven
<1>2. PICK b \in Int : 343 * s = M * b BY SMT, <1>0, <1>1, PeelSeven
<1>3. PICK c \in Int : 49 * s = M * c BY SMT, <1>0, <1>2, PeelSeven
<1>4. PICK d \in Int : 7 * s = M * d BY SMT, <1>0, <1>3, PeelSeven
<1>5. PICK e \in Int : s = M * e
  <2>1. PICK e \in Int : e = s - 306783378 * d BY SMT, <1>0
  <2>2. s = M * e BY SMT, <1>0, <1>4, <2>1 DEF M
  <2> QED BY SMT, <2>2
<1> QED BY SMT, <1>5 DEF M, IsSeed

LEMMA HighLow ==
  ASSUME NEW p \in Nat
  PROVE  \E h \in Nat, l \in Nat :
           /\ h = p \div 2147483648 /\ l = p % 2147483648
           /\ l < 2147483648 /\ p = (2147483648 * h) + l
BY SMT

LEMMA SmallWord ==
  ASSUME NEW n \in Nat, n < 4294967296
  PROVE  n % 4294967296 = n
BY SMT

LEMMA RemainderIs ==
  ASSUME NEW q \in Int, NEW r \in Nat, r < M
  PROVE  ((M * q) + r) % M = r
BY SMT DEF M

\* The constructor avoids the two seeds the generator could not leave.
THEOREM RandomSeeds ==
  ASSUME NEW s \in Nat
  PROVE  IsSeed(Random(s))
BY SMT DEF Random, IsSeed, M

\* Next() computes (seed_ * A) % M, as its comment says, with one folding of the
\* product and one subtraction, and never yields 0 or M: "mod == M is not possible".
THEOREM NextExact ==
  ASSUME NEW s, IsSeed(s)
  PROVE  NextSeed(s) = (s * A) % M /\ IsSeed(NextSeed(s))
<1>1. PICK p \in Nat : p = s * A /\ p < 2147483648 * 16807 BY SMT DEF IsSeed, A, M
<1>2. PICK h \in Nat, l \in Nat :
        /\ h = p \div 2147483648 /\ l = p % 2147483648
        /\ l < 2147483648 /\ p = (2147483648 * h) + l
  BY SMT, HighLow
<1>3. h < 16807 BY SMT, <1>1, <1>2
<1>4. PICK f \in Nat : f = h + l /\ f < 2 * M BY SMT, <1>2, <1>3 DEF M
<1>5. Reduce(p) = f
  <2>1. Reduce(p) = f % 4294967296 BY SMT, <1>2, <1>4 DEF Reduce
  <2>2. f < 4294967296 BY SMT, <1>4 DEF M
  <2> QED BY SMT, <2>1, <2>2, SmallWord
<1>6. p = (M * h) + f BY SMT, <1>2, <1>4 DEF M
<1>7. f # 0 BY SMT, <1>1, <1>2, <1>4 DEF IsSeed, A
<1>8. f # M
  <2> SUFFICES ASSUME f = M PROVE FALSE OBVIOUS
  <2>1. PICK x \in Int : x = h + 1 BY SMT
  <2>2. 16807 * s = M * x BY SMT, <1>1, <1>6, <2>1 DEF A, M, IsSeed
  <2> QED BY SMT, <2>2, NoMultiple
<1>9. CASE f > M
  <2>1. NextSeed(s) = f - M BY SMT, <1>1, <1>5, <1>9 DEF NextSeed
  <2>2. f - M \in Nat /\ 0 < f - M /\ f - M < M BY SMT, <1>4, <1>9 DEF M
  <2>3. p = (M * (h + 1)) + (f - M) BY SMT, <1>6 DEF M
  <2>4. p % M = f - M BY SMT, <2>2, <2>3, RemainderIs
  <2> QED BY SMT, <1>1, <2>1, <2>2, <2>4 DEF IsSeed
<1>10. CASE ~ (f > M)
  <2>1. NextSeed(s) = f BY SMT, <1>1, <1>5, <1>10 DEF NextSeed
  <2>2. 0 < f /\ f < M BY SMT, <1>7, <1>8, <1>10 DEF M
  <2>3. p % M = f BY SMT, <1>6, <2>2, RemainderIs
  <2> QED BY SMT, <1>1, <2>1, <2>2, <2>3 DEF IsSeed
<1> QED BY SMT, <1>9, <1>10

\* Uniform(n) stays in 0 .. n - 1, OneIn(n) is one of its values, and the characters
\* of RandomString are printable.
THEOREM UniformInRange ==
  ASSUME NEW s, IsSeed(s), NEW n \in Nat, n > 0
  PROVE  /\ Uniform(s, n) \in 0 .. (n - 1)
         /\ OneIn(s, n) <=> Uniform(s, n) = 0
         /\ RandomChar(s) \in 32 .. 126
<1>1. PICK k \in Nat : k = NextSeed(s) BY SMT, NextExact DEF IsSeed
<1>2. k % n \in 0 .. (n - 1) /\ k % 95 \in 0 .. 94 BY SMT
<1> QED BY SMT, <1>1, <1>2 DEF Uniform, OneIn, RandomChar

-----------------------------------------------------------------------------
(* RandomGenerator of bench.cc                                             *)

\* The constructor's loop leaves enough data for values of value_size bytes, so the
\* assert(len <= data_.size()) of Generate holds for every value the benchmark asks for.
THEOREM DataSuffices ==
  ASSUME NEW value_size \in Nat
  PROVE  /\ DataSize(value_size) \in Nat
         /\ value_size <= DataSize(value_size)
         /\ 1048576 <= DataSize(value_size)
BY SMT DEF DataSize, Wanted

\* Generate returns len bytes that lie inside the data and moves pos_ to their end,
\* so that the next call finds pos_ inside the data again.
THEOREM GenerateInBounds ==
  ASSUME NEW size \in Nat, size < 2147483648,
         NEW pos \in Nat, pos <= size, NEW len \in Nat, len <= size
  PROVE  LET g == Generate(pos, len, size)
         IN /\ g.pos \in Nat /\ g.pos <= size
            /\ g.size = len
            /\ g.data \in Nat /\ g.data + g.size = g.pos
            /\ g.data = pos \/ g.data = 0
<1>1. (pos + len) % 4294967296 = pos + len BY SMT, SmallWord
<1>2. PICK f \in Nat : f = From(pos, len, size) /\ f + len <= size /\ (f = pos \/ f = 0)
  BY SMT, <1>1 DEF From
<1>3. (f + len) % 4294967296 = f + len BY SMT, <1>2, SmallWord
<1>4. Generate(pos, len, size) = [pos |-> f + len, data |-> f + len - len, size |-> len]
  BY SMT, <1>2, <1>3 DEF Generate
<1> QED BY SMT, <1>2, <1>4

\* A string of CompressibleString has the length asked for and characters of its raw
\* data only.
LEMMA CompressibleExact ==
  ASSUME NEW C, NEW raw_data \in Seq(C), raw_data # <<>>, NEW len \in Nat
  PROVE  /\ CompressibleString(raw_data, len) \in Seq(C)
         /\ Len(CompressibleString(raw_data, len)) = len
<1>1. Len(raw_data) \in Nat /\ Len(raw_data) > 0 BY SMT
<1>2. \A i \in 1 .. len : ((i - 1) % Len(raw_data)) + 1 \in 1 .. Len(raw_data)
  BY SMT, <1>1
<1>3. \A i \in 1 .. len : raw_data[((i - 1) % Len(raw_data)) + 1] \in C
  BY SMT, <1>2
<1> QED BY SMT, <1>3 DEF CompressibleString

-----------------------------------------------------------------------------
(* PosixLogger::Logv                                                       *)

\* One attempt: the bytes written fit the buffer (assert(p <= limit)), end in a
\* newline, and begin with the text, all of it when it fits.
LEMMA LineExact ==
  ASSUME NEW C, Newline \in C, NEW text \in Seq(C), NEW bufsize \in Nat, bufsize > 0
  PROVE  LET line == Line(text, bufsize)
             kept == Kept(text, bufsize)
         IN /\ line \in Seq(C)
            /\ Len(line) \in {kept, kept + 1} /\ Len(line) <= bufsize /\ Len(line) > 0
            /\ line[Len(line)] = Newline
            /\ \A i \in 1 .. kept : line[i] = text[i]
<1> DEFINE kept == Kept(text, bufsize)
           base == SubSeq(text, 1, kept)
<1>1. kept \in Nat /\ kept <= Len(text) /\ kept <= bufsize - 1 BY SMT DEF Kept, Fits
<1>2. base \in Seq(C) /\ Len(base) = kept /\ \A i \in 1 .. kept : base[i] = text[i]
  BY SMT, <1>1
<1>3. CASE kept = 0 \/ base[kept] # Newline
  <2>1. Line(text, bufsize) = Append(base, Newline) BY <1>3 DEF Line
  <2> HIDE DEF kept, base
  <2> QED BY SMT, <1>1, <1>2, <2>1 DEF kept
<1>4. CASE ~ (kept = 0 \/ base[kept] # Newline)
  <2>1. Line(text, bufsize) = base BY <1>4 DEF Line
  <2> HIDE DEF kept, base
  <2> QED BY SMT, <1>1, <1>2, <1>4, <2>1 DEF kept
<1> QED BY <1>3, <1>4

\* Logv writes one line that ends in a newline and never overruns a buffer; a message
\* is cut only when the larger buffer cannot hold it, and then after 29999 bytes.
THEOREM LogvExact ==
  ASSUME NEW C, Newline \in C, NEW first \in Seq(C), NEW second \in Seq(C)
  PROVE  LET line == Logv(first, second)
             text == IF Len(first) < Stack THEN first ELSE second
             kept == IF Len(text) < Heap THEN Len(text) ELSE Heap - 1
         IN /\ Len(line) > 0 /\ line[Len(line)] = Newline
            /\ Len(line) <= IF Len(first) < Stack THEN Stack ELSE Heap
            /\ Len(line) \in {kept, kept + 1}
            /\ \A i \in 1 .. kept : line[i] = text[i]
<1>1. Stack \in Nat /\ Heap \in Nat /\ 0 < Stack /\ Stack < Heap BY SMT DEF Stack, Heap
<1>2. CASE Len(first) < Stack
  <2>1. Logv(first, second) = Line(first, Stack) BY <1>2 DEF Logv, Fits
  <2>2. Kept(first, Stack) = Len(first) BY <1>2 DEF Kept, Fits
  <2>3. Len(first) < Heap BY SMT, <1>1, <1>2
  <2> QED BY SMT, <1>1, <1>2, <2>1, <2>2, <2>3, LineExact
<1>3. CASE ~ (Len(first) < Stack)
  <2>1. Logv(first, second) = Line(second, Heap) BY <1>3 DEF Logv, Fits
  <2>2. Kept(second, Heap) = IF Len(second) < Heap THEN Len(second) ELSE Heap - 1
    BY DEF Kept, Fits
  <2> QED BY SMT, <1>1, <1>3, <2>1, <2>2, LineExact
<1> QED BY <1>2, <1>3

-----------------------------------------------------------------------------
(* slice.h                                                                 *)

LEMMA Trichotomy ==
  \A p, q \in Byte : /\ p < q \/ p > q \/ p = q
                     /\ p > q <=> q < p
                     /\ p < q => p # q /\ ~(p > q)
BY DEF Byte

LEMMA ByteTransitive == \A p, q, r \in Byte : p < q /\ q < r => p < r
BY DEF Byte

\* The least element of a set of naturals, which memcmp's first difference is.
LEMMA Least ==
  ASSUME NEW D, D \subseteq Nat, D # {}
  PROVE  First(D) \in D /\ \A j \in D : First(D) <= j
<1>1. IsWellFoundedOn(OpToRel(<, Nat), Nat) BY NatLessThanWellFounded
<1>2. \E x \in D : \A y \in D : ~ (<<y, x>> \in OpToRel(<, Nat)) BY <1>1, WFMin
<1>3. PICK x \in D : \A y \in D : ~ (<<y, x>> \in OpToRel(<, Nat)) BY <1>2
<1>4. \A y \in D : ~ (y < x) BY <1>3 DEF OpToRel
<1>5. \A y \in D : x <= y BY <1>4, SMT
<1> QED BY <1>5 DEF First

\* What memcmp returns: 0 when the first n bytes agree, else the order of the bytes at
\* some position i before which they do.
LEMMA MemcmpIs ==
  ASSUME NEW a \in Seq(Byte), NEW b \in Seq(Byte), NEW n \in Nat, n <= Len(a), n <= Len(b)
  PROVE  \/ Memcmp(a, b, n) = 0 /\ \A j \in 1 .. n : a[j] = b[j]
         \/ \E i \in 1 .. n : /\ \A j \in 1 .. i - 1 : a[j] = b[j]
                              /\ \/ a[i] < b[i] /\ Memcmp(a, b, n) = -1
                                 \/ a[i] > b[i] /\ Memcmp(a, b, n) = 1
<1> DEFINE D == Differ(a, b, n)
<1>1. CASE D = {}
  BY <1>1 DEF Memcmp, Differ
<1>2. CASE D # {}
  <2>1. D \subseteq Nat BY DEF Differ
  <2>2. PICK i \in D : i = First(D) /\ \A j \in D : i <= j BY <1>2, <2>1, Least
  <2>3. i \in 1 .. n /\ a[i] # b[i] BY <2>2 DEF Differ
  <2>4. \A j \in 1 .. i - 1 : a[j] = b[j]
    <3> SUFFICES ASSUME NEW j \in 1 .. i - 1 PROVE a[j] = b[j] OBVIOUS
    <3>1. j \in 1 .. n /\ ~(i <= j) BY <2>3
    <3> QED BY <3>1, <2>2 DEF Differ
  <2>5. a[i] \in Byte /\ b[i] \in Byte BY <2>3
  <2>6. Memcmp(a, b, n) = IF a[i] < b[i] THEN -1 ELSE 1 BY <1>2, <2>2 DEF Memcmp
  <2>7. a[i] < b[i] \/ a[i] > b[i] BY <2>3, <2>5, Trichotomy
  <2>8. a[i] > b[i] => ~(a[i] < b[i]) BY <2>5, Trichotomy
  <2> QED BY <2>3, <2>4, <2>6, <2>7, <2>8
<1> QED BY <1>1, <1>2

\* a and b agree up to i, where a ends or has the smaller byte.
DiffersAt(a, b, i) ==
  /\ \A j \in 1 .. i - 1 : j <= Len(a) /\ a[j] = b[j]
  /\ i = Len(a) + 1 \/ (i <= Len(a) /\ a[i] < b[i])

\* a comes before b in the order of the bytes.
Before(a, b) == \E i \in 1 .. Len(b) : DiffersAt(a, b, i)

\* Each result of compare and what it says.
LEMMA CompareIs ==
  ASSUME NEW a \in Seq(Byte), NEW b \in Seq(Byte)
  PROVE  \/ Compare(a, b) = 0 /\ a = b
         \/ Compare(a, b) = -1 /\ Before(a, b)
         \/ Compare(a, b) = 1 /\ Before(b, a)
<1> DEFINE n == MinLen(a, b)
<1>1. n \in Nat /\ n <= Len(a) /\ n <= Len(b) /\ n = MinLen(b, a) BY DEF MinLen
<1>2. CASE Memcmp(a, b, n) = 0
  <2>1. \A j \in 1 .. n : a[j] = b[j] BY <1>1, <1>2, MemcmpIs
  <2>2. CASE Len(a) < Len(b)
    <3>1. n = Len(a) BY <2>2 DEF MinLen
    <3>2. DiffersAt(a, b, Len(a) + 1) BY <2>1, <3>1 DEF DiffersAt
    <3>3. Compare(a, b) = -1 BY <1>2, <2>2 DEF Compare
    <3> QED BY <2>2, <3>2, <3>3 DEF Before
  <2>3. CASE Len(a) > Len(b)
    <3>1. n = Len(b) BY <2>3 DEF MinLen
    <3>2. DiffersAt(b, a, Len(b) + 1) BY <2>1, <3>1 DEF DiffersAt
    <3>3. Compare(a, b) = 1 BY <1>2, <2>3 DEF Compare
    <3> QED BY <2>3, <3>2, <3>3 DEF Before
  <2>4. CASE Len(a) = Len(b)
    <3>1. n = Len(a) BY <2>4 DEF MinLen
    <3>2. a = b BY <2>1, <2>4, <3>1
    <3>3. Compare(a, b) = 0 BY <1>2, <2>4 DEF Compare
    <3> QED BY <3>2, <3>3
  <2> QED BY <2>2, <2>3, <2>4
<1>3. CASE Memcmp(a, b, n) # 0
  <2>1. PICK i \in 1 .. n : /\ \A j \in 1 .. i - 1 : a[j] = b[j]
                            /\ \/ a[i] < b[i] /\ Memcmp(a, b, n) = -1
                               \/ a[i] > b[i] /\ Memcmp(a, b, n) = 1
    BY <1>1, <1>3, MemcmpIs
  <2>2. Compare(a, b) = Memcmp(a, b, n) BY <1>3 DEF Compare
  <2>3. CASE a[i] < b[i] /\ Memcmp(a, b, n) = -1
    <3>1. DiffersAt(a, b, i) BY <1>1, <2>1, <2>3 DEF DiffersAt
    <3> QED BY <1>1, <2>2, <2>3, <3>1 DEF Before
  <2>4. CASE a[i] > b[i] /\ Memcmp(a, b, n) = 1
    <3>1. a[i] \in Byte /\ b[i] \in Byte BY <1>1
    <3>2. b[i] < a[i] BY <2>4, <3>1, Trichotomy
    <3>3. DiffersAt(b, a, i) BY <1>1, <2>1, <3>2 DEF DiffersAt
    <3> QED BY <1>1, <2>2, <2>4, <3>3 DEF Before
  <2> QED BY <2>1, <2>3, <2>4
<1> QED BY <1>2, <1>3

LEMMA BeforeTransitive ==
  ASSUME NEW a \in Seq(Byte), NEW b \in Seq(Byte), NEW c \in Seq(Byte),
         Before(a, b), Before(b, c)
  PROVE  Before(a, c)
<1>1. PICK i \in 1 .. Len(b) : DiffersAt(a, b, i) BY DEF Before
<1>2. PICK k \in 1 .. Len(c) : DiffersAt(b, c, k) BY DEF Before
<1>3. CASE i < k
  <2>1. i \in 1 .. k - 1 BY <1>3
  <2>2. b[i] = c[i] BY <1>2, <2>1 DEF DiffersAt
  <2>3. DiffersAt(a, c, i) BY <1>1, <1>2, <2>1, <2>2 DEF DiffersAt
  <2>4. i \in 1 .. Len(c) BY <1>3
  <2> QED BY <2>3, <2>4 DEF Before
<1>4. CASE i = k
  <2>1. k <= Len(b) /\ b[k] < c[k] BY <1>2, <1>4 DEF DiffersAt
  <2>2. \A j \in 1 .. k - 1 : j <= Len(a) /\ a[j] = c[j] BY <1>1, <1>2, <1>4 DEF DiffersAt
  <2>3. CASE k = Len(a) + 1 BY <2>2, <2>3 DEF DiffersAt, Before
  <2>4. CASE k <= Len(a) /\ a[k] < b[k]
    <3>1. a[k] \in Byte /\ b[k] \in Byte /\ c[k] \in Byte BY <2>1, <2>4
    <3>2. a[k] < c[k] BY <2>1, <2>4, <3>1, ByteTransitive
    <3> QED BY <2>2, <2>4, <3>2 DEF DiffersAt, Before
  <2> QED BY <1>1, <1>4, <2>3, <2>4 DEF DiffersAt
<1>5. CASE i > k
  <2>1. k \in 1 .. i - 1 BY <1>5
  <2>2. k <= Len(a) /\ a[k] = b[k] BY <1>1, <2>1 DEF DiffersAt
  <2>3. k <= Len(b) BY <1>5
  <2>4. b[k] < c[k] BY <1>2, <2>3 DEF DiffersAt
  <2>5. \A j \in 1 .. k - 1 : j <= Len(a) /\ a[j] = c[j] BY <1>1, <1>2, <2>1 DEF DiffersAt
  <2> QED BY <2>2, <2>4, <2>5 DEF DiffersAt, Before
<1> QED BY <1>3, <1>4, <1>5

LEMMA BeforeIrreflexive == \A a \in Seq(Byte) : ~Before(a, a)
<1> SUFFICES ASSUME NEW a \in Seq(Byte), NEW i \in 1 .. Len(a), DiffersAt(a, a, i) PROVE FALSE
  BY DEF Before
<1>1. a[i] < a[i] BY DEF DiffersAt
<1>2. a[i] \in Byte OBVIOUS
<1> QED BY <1>1, <1>2, Trichotomy

\* Slice::compare is a total order, the lexicographic one, and 0 only for equal slices.
THEOREM CompareOrders ==
  ASSUME NEW a \in Seq(Byte), NEW b \in Seq(Byte), NEW c \in Seq(Byte)
  PROVE  /\ Compare(a, b) = 0 <=> a = b
         /\ Compare(a, b) < 0 <=> Compare(b, a) > 0
         /\ Compare(a, b) < 0 /\ Compare(b, c) < 0 => Compare(a, c) < 0
<1>1. \A p, q \in Seq(Byte) : Before(p, q) => p # q /\ ~Before(q, p)
  BY BeforeIrreflexive, BeforeTransitive
<1>2. \A p, q \in Seq(Byte) : /\ Compare(p, q) = 0 <=> p = q
                              /\ Compare(p, q) < 0 <=> Before(p, q)
                              /\ Compare(p, q) > 0 <=> Before(q, p)
  <2> SUFFICES ASSUME NEW p \in Seq(Byte), NEW q \in Seq(Byte)
               PROVE  /\ Compare(p, q) = 0 <=> p = q
                      /\ Compare(p, q) < 0 <=> Before(p, q)
                      /\ Compare(p, q) > 0 <=> Before(q, p)
    OBVIOUS
  <2>1. CASE Compare(p, q) = 0 /\ p = q BY <2>1, BeforeIrreflexive
  <2>2. CASE Compare(p, q) = -1 /\ Before(p, q) BY <1>1, <2>2
  <2>3. CASE Compare(p, q) = 1 /\ Before(q, p) BY <1>1, <2>3
  <2> QED BY <2>1, <2>2, <2>3, CompareIs
<1> QED BY <1>2, BeforeTransitive

\* operator== is equality, and starts_with finds exactly the prefixes.
THEOREM PrefixExact ==
  ASSUME NEW a \in Seq(Byte), NEW x \in Seq(Byte)
  PROVE  /\ Equal(a, x) <=> a = x
         /\ StartsWith(a, x) <=> \E t \in Seq(Byte) : a = x \o t
<1>1. Len(a) >= Len(x) => (Memcmp(a, x, Len(x)) = 0 <=> \A j \in 1 .. Len(x) : a[j] = x[j])
  <2> SUFFICES ASSUME Len(a) >= Len(x)
               PROVE  Memcmp(a, x, Len(x)) = 0 <=> \A j \in 1 .. Len(x) : a[j] = x[j]
    OBVIOUS
  <2>0. Len(x) \in Nat /\ Len(x) <= Len(a) /\ Len(x) <= Len(x) OBVIOUS
  <2>1. \A j \in 1 .. Len(x) : a[j] \in Byte /\ x[j] \in Byte BY <2>0
  <2>2. \A j \in 1 .. Len(x) : a[j] < x[j] \/ a[j] > x[j] => a[j] # x[j] BY <2>1, Trichotomy
  <2> QED BY <2>0, <2>2, MemcmpIs
<1>2. Equal(a, x) <=> a = x
  <2>1. Equal(a, x) => a = x BY <1>1 DEF Equal
  <2>2. a = x => Equal(a, x) BY <1>1 DEF Equal
  <2> QED BY <2>1, <2>2
<1>3. StartsWith(a, x) => \E t \in Seq(Byte) : a = x \o t
  <2> SUFFICES ASSUME StartsWith(a, x) PROVE \E t \in Seq(Byte) : a = x \o t OBVIOUS
  <2>1. Len(a) >= Len(x) /\ \A j \in 1 .. Len(x) : a[j] = x[j] BY <1>1 DEF StartsWith
  <2> DEFINE t == SubSeq(a, Len(x) + 1, Len(a))
  <2>2. t \in Seq(Byte) BY <2>1
  <2>3. a = x \o t BY <2>1, SMTT(30)
  <2> QED BY <2>2, <2>3
<1>4. (\E t \in Seq(Byte) : a = x \o t) => StartsWith(a, x)
  <2> SUFFICES ASSUME NEW t \in Seq(Byte), a = x \o t PROVE StartsWith(a, x) OBVIOUS
  <2>1. Len(a) >= Len(x) /\ \A j \in 1 .. Len(x) : a[j] = x[j] OBVIOUS
  <2> QED BY <1>1, <2>1 DEF StartsWith
<1> QED BY <1>2, <1>3, <1>4

-----------------------------------------------------------------------------
(* status.cc                                                               *)

\* A Status keeps its two messages whole, separated by ": ": every byte of the array it
\* allocates is written, and ToString reads what the constructor wrote.
THEOREM StatusExact ==
  ASSUME NEW msg \in Seq(Byte), NEW msg2 \in Seq(Byte), NEW code \in Codes,
         Len(msg) + Len(msg2) + 2 < Word32
  PROVE  Text(Error(code, msg, msg2)) = IF msg2 = <<>> THEN msg ELSE (msg \o <<58, 32>>) \o msg2
<1>0. PICK l \in Nat, l2 \in Nat : l = Len(msg) /\ l2 = Len(msg2) /\ l + l2 + 2 < 4294967296
  BY SMT DEF Word32
<1>1. CASE msg2 = <<>>
  <2>1. l2 = 0 BY SMT, <1>0, <1>1
  <2>0. Second(l2) = 0 BY SMT, <2>1 DEF Second
  <2>2. StatusSize(msg, msg2) = l % 4294967296 BY SMT, <1>0, <2>0 DEF StatusSize, Word32
  <2>3. StatusSize(msg, msg2) = l BY SMT, <1>0, <2>2, SmallWord
  <2> DEFINE e == Error(code, msg, msg2)
  <2>4. e.length = l /\ e.message = [k \in 1 .. l |-> msg[k]] BY SMT, <1>0, <2>1, <2>3 DEF Error
  <2>5. e.message = msg BY SMT, <1>0, <2>4
  <2>6. Text(e) = SubSeq(msg, 1, Len(msg)) BY SMT, <1>0, <2>4, <2>5 DEF Text
  <2> QED BY SMT, <1>1, <2>6
<1>2. CASE msg2 # <<>>
  <2>1. l2 > 0 BY SMT, <1>0, <1>2
  <2>0. Second(l2) = 2 + l2 BY SMT, <2>1 DEF Second
  <2>2. StatusSize(msg, msg2) = (l + (2 + l2)) % 4294967296 BY SMT, <1>0, <2>0 DEF StatusSize, Word32
  <2>3. StatusSize(msg, msg2) = l + 2 + l2 BY SMT, <1>0, <2>2, SmallWord
  <2> DEFINE e == Error(code, msg, msg2)
             r == (msg \o <<58, 32>>) \o msg2
             f == [k \in 1 .. l + 2 + l2 |->
                     IF k <= l THEN msg[k] ELSE IF k = l + 1 THEN 58
                     ELSE IF k = l + 2 THEN 32 ELSE msg2[k - l - 2]]
  <2>4. e.length = l + 2 + l2 /\ e.message = f BY SMT, <1>0, <2>1, <2>3 DEF Error
  <2>5. r \in Seq(Byte) /\ Len(r) = l + 2 + l2
    <3>1. <<58, 32>> \in Seq(Byte) /\ Len(<<58, 32>>) = 2 BY SMT DEF Byte
    <3>2. msg \o <<58, 32>> \in Seq(Byte) /\ Len(msg \o <<58, 32>>) = l + 2 BY SMT, <1>0, <3>1
    <3> QED BY SMT, <1>0, <3>2
  <2>6. \A k \in 1 .. l + 2 + l2 : r[k] = f[k] BY SMT, <1>0
  <2>7. f = r
    <3> HIDE DEF r
    <3> QED BY SMT, <2>5, <2>6
  <2>8. Text(e) = SubSeq(r, 1, Len(r))
    <3> HIDE DEF r, f
    <3> QED BY SMT, <2>4, <2>5, <2>7 DEF Text
  <2>9. SubSeq(r, 1, Len(r)) = r
    <3> HIDE DEF r
    <3> QED BY SMT, <2>5
  <2> QED BY SMT, <1>2, <2>8, <2>9
<1> QED BY SMT, <1>1, <1>2

-----------------------------------------------------------------------------
(* logging.cc and env_posix.cc                                             *)

\* ConsumeDecimalNumber refuses a digit exactly when the number would not fit 64 bits,
\* and otherwise no step of its arithmetic wraps.
THEOREM ConsumeExact ==
  ASSUME NEW v \in Nat, v <= kMaxUint64, NEW delta \in 0 .. 9
  PROVE  /\ Overflow(v, delta) <=> v * 10 + delta > kMaxUint64
         /\ ~Overflow(v, delta) => Accumulate(v, delta) = v * 10 + delta
BY SMT DEF Overflow, Accumulate, kMaxUint64, Word64

\* A read of a mapped file that succeeds lies inside the mapping, as long as offset + n
\* does not wrap; nothing in Read excludes that it does.
THEOREM MmapReadInBounds ==
  ASSUME NEW offset \in Nat, NEW n \in Nat, NEW length \in Nat, offset + n < Word64,
         MmapRead(offset, n, length).status = "OK"
  PROVE  LET r == MmapRead(offset, n, length) IN r.size = n /\ r.from + r.size <= length
BY SMT DEF MmapRead, Word64

-----------------------------------------------------------------------------
(* The keys of bench.cc                                                    *)

\* Two integers agree in their low k bytes when they agree in k - 1 and in the next.

LEMMA Byte1 == \A v, w \in Nat : v % 256 = w % 256 <=> (v \div 1) % 256 = (w \div 1) % 256
BY SMT

LEMMA Byte2 ==
  \A v, w \in Nat : v % 65536 = w % 65536 <=>
    v % 256 = w % 256 /\ (v \div 256) % 256 = (w \div 256) % 256
BY SMT

LEMMA Byte3 ==
  \A v, w \in Nat : v % 16777216 = w % 16777216 <=>
    v % 65536 = w % 65536 /\ (v \div 65536) % 256 = (w \div 65536) % 256
BY SMT

LEMMA Byte4 ==
  \A v, w \in Nat : v % 4294967296 = w % 4294967296 <=>
    v % 16777216 = w % 16777216 /\ (v \div 16777216) % 256 = (w \div 16777216) % 256
BY SMT

LEMMA Byte5 ==
  \A v, w \in Nat : v % 1099511627776 = w % 1099511627776 <=>
    v % 4294967296 = w % 4294967296 /\ (v \div 4294967296) % 256 = (w \div 4294967296) % 256
BY SMT

LEMMA Byte6 ==
  \A v, w \in Nat : v % 281474976710656 = w % 281474976710656 <=>
    v % 1099511627776 = w % 1099511627776 /\ (v \div 1099511627776) % 256 = (w \div 1099511627776) % 256
BY SMT

LEMMA Byte7 ==
  \A v, w \in Nat : v % 72057594037927936 = w % 72057594037927936 <=>
    v % 281474976710656 = w % 281474976710656 /\ (v \div 281474976710656) % 256 = (w \div 281474976710656) % 256
BY SMT

LEMMA Byte8 ==
  \A v, w \in Nat : v % 18446744073709551616 = w % 18446744073709551616 <=>
    v % 72057594037927936 = w % 72057594037927936 /\ (v \div 72057594037927936) % 256 = (w \div 72057594037927936) % 256
BY SMT

LEMMA Powers ==
  /\ Pow256[1] = 1 /\ Pow256[2] = 256 /\ Pow256[3] = 65536 /\ Pow256[4] = 16777216
  /\ Pow256[5] = 4294967296 /\ Pow256[6] = 1099511627776 /\ Pow256[7] = 281474976710656
  /\ Pow256[8] = 72057594037927936 /\ Pow256[9] = 18446744073709551616
BY SMT DEF Pow256, Word64

\* GenerateKeyFromInt gives two integers the same key exactly when they agree modulo
\* 256 to the number of bytes that fit, and never more than 8: BenchRun's KeyOf.
THEOREM KeyExact ==
  ASSUME NEW v \in Nat, NEW w \in Nat, NEW key_size \in Nat, key_size > 0
  PROVE  LET m == Pow256[BytesToFill(key_size) + 1]
         IN GenerateKeyFromInt(v, key_size) = GenerateKeyFromInt(w, key_size) <=> v % m = w % m
<1> DEFINE b == BytesToFill(key_size)
           Same(i) == (v \div Pow256[i]) % 256 = (w \div Pow256[i]) % 256
<1>1. b \in 1 .. 8 /\ b <= key_size BY SMT DEF BytesToFill
<1>2. GenerateKeyFromInt(v, key_size) = GenerateKeyFromInt(w, key_size) <=> \A i \in 1 .. b : Same(i)
  <2>1. ASSUME GenerateKeyFromInt(v, key_size) = GenerateKeyFromInt(w, key_size), NEW i \in 1 .. b
        PROVE  Same(i)
    <3>1. i \in 1 .. key_size /\ i <= b BY SMT, <1>1
    <3>2. GenerateKeyFromInt(v, key_size)[i] = (v \div Pow256[i]) % 256
      BY SMT, <3>1 DEF GenerateKeyFromInt
    <3>3. GenerateKeyFromInt(w, key_size)[i] = (w \div Pow256[i]) % 256
      BY SMT, <3>1 DEF GenerateKeyFromInt
    <3> QED BY SMT, <2>1, <3>2, <3>3
  <2>2. ASSUME \A i \in 1 .. b : Same(i)
        PROVE  GenerateKeyFromInt(v, key_size) = GenerateKeyFromInt(w, key_size)
    BY SMT, <1>1, <2>2 DEF GenerateKeyFromInt
  <2> QED BY SMT, <2>1, <2>2
<1> DEFINE Agree(k) == \A i \in 1 .. k : Same(i)
           Low(k) == v % Pow256[k + 1] = w % Pow256[k + 1]
<1>3. \A k \in 1 .. 8 : Agree(k) <=> (k = 1 \/ Agree(k - 1)) /\ Same(k)
  <2> HIDE DEF Same
  <2> QED BY SMT
<1>4. Low(1) <=> Same(1) BY SMT, Powers, Byte1
<1>5. Low(2) <=> Low(1) /\ Same(2) BY SMT, Powers, Byte2
<1>6. Low(3) <=> Low(2) /\ Same(3) BY SMT, Powers, Byte3
<1>7. Low(4) <=> Low(3) /\ Same(4) BY SMT, Powers, Byte4
<1>8. Low(5) <=> Low(4) /\ Same(5) BY SMT, Powers, Byte5
<1>9. Low(6) <=> Low(5) /\ Same(6) BY SMT, Powers, Byte6
<1>10. Low(7) <=> Low(6) /\ Same(7) BY SMT, Powers, Byte7
<1>11. Low(8) <=> Low(7) /\ Same(8) BY SMT, Powers, Byte8
<1>12. Agree(b) <=> Low(b)
  <2> HIDE DEF b, Agree, Low, Same
  <2>1. Agree(1) <=> Low(1) BY SMT, <1>3, <1>4
  <2>2. Agree(2) <=> Low(2) BY SMT, <1>3, <1>5, <2>1
  <2>3. Agree(3) <=> Low(3) BY SMT, <1>3, <1>6, <2>2
  <2>4. Agree(4) <=> Low(4) BY SMT, <1>3, <1>7, <2>3
  <2>5. Agree(5) <=> Low(5) BY SMT, <1>3, <1>8, <2>4
  <2>6. Agree(6) <=> Low(6) BY SMT, <1>3, <1>9, <2>5
  <2>7. Agree(7) <=> Low(7) BY SMT, <1>3, <1>10, <2>6
  <2>8. Agree(8) <=> Low(8) BY SMT, <1>3, <1>11, <2>7
  <2> QED BY SMT, <1>1, <2>1, <2>2, <2>3, <2>4, <2>5, <2>6, <2>7, <2>8
<1> QED BY SMT, <1>2, <1>12
=============================================================================
