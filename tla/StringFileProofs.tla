-------------------------- MODULE StringFileProofs --------------------------
(***************************************************************************)
(* Proofs about WritableFile and StringFile, for every buffer size, string  *)
(* length and read size.  The invariant says that the file and what is      *)
(* still to be written are together what was given (Whole), which needs     *)
(* what is left to write at each step of each function (Shape); that what   *)
(* was promised is on the medium (Kept); what the writer knows of the file  *)
(* at each point of its call (Stages); and what the reader has (Undisturbed).*)
(***************************************************************************)
EXTENDS StringFile, TLAPS

\* q is increasing and has numbers up to n only; q is the numbers up to n.
Increasing(q, n) ==
  /\ \A i \in 1 .. Len(q) : q[i] <= n
  /\ \A i, j \in 1 .. Len(q) : i < j => q[i] < q[j]
Exactly(q, n) == Len(q) = n /\ \A i \in 1 .. Len(q) : q[i] = i

Cat(p, q) == p \o q

(* Nothing put before or behind a sequence leaves it as it is. *)
LEMMA EmptyEnds ==
  \A q \in Seq(Int) : Cat(q, <<>>) = q /\ Cat(<<>>, q) = q
BY DEF Cat

(* The empty sequence. *)
LEMMA Empty == <<>> \in Seq(Int) /\ Len(<<>>) = 0 /\ Cat(<<>>, <<>>) = <<>>
<1>1. <<>> \in Seq(Int) /\ Len(<<>>) = 0 OBVIOUS
<1> QED BY <1>1, EmptyEnds

(* The parts of a concatenation. *)
LEMMA Concatenated ==
  \A p, q \in Seq(Int) :
    /\ Cat(p, q) \in Seq(Int) /\ Len(Cat(p, q)) = Len(p) + Len(q)
    /\ \A i \in 1 .. Len(p) : Cat(p, q)[i] = p[i]
    /\ \A i \in 1 .. Len(q) : Cat(p, q)[Len(p) + i] = q[i]
BY DEF Cat

(* Sequences are equal if their elements are. *)
LEMMA SameSequence ==
  \A p, q \in Seq(Int) : Len(p) = Len(q) /\ (\A i \in 1 .. Len(p) : p[i] = q[i]) => p = q
OBVIOUS

(* Concatenation is associative. *)
LEMMA Associative ==
  \A p, q, r \in Seq(Int) : Cat(Cat(p, q), r) = Cat(p, Cat(q, r))
<1> SUFFICES ASSUME NEW p \in Seq(Int), NEW q \in Seq(Int), NEW r \in Seq(Int)
             PROVE  Cat(Cat(p, q), r) = Cat(p, Cat(q, r))
  OBVIOUS
<1>1. PICK a \in Seq(Int) : a = Cat(p, q) BY Concatenated
<1>2. PICK b \in Seq(Int) : b = Cat(q, r) BY Concatenated
<1>3. PICK l \in Seq(Int) : l = Cat(a, r) BY Concatenated
<1>4. PICK m \in Seq(Int) : m = Cat(p, b) BY Concatenated
<1>5. PICK x \in Nat, y \in Nat, z \in Nat : x = Len(p) /\ y = Len(q) /\ z = Len(r) OBVIOUS
<1>6. Len(a) = x + y /\ Len(b) = y + z /\ Len(l) = x + y + z /\ Len(m) = x + y + z
  BY <1>1, <1>2, <1>3, <1>4, <1>5 DEF Cat
<1>7. \A i \in 1 .. x + y + z : l[i] = m[i]
  <2> SUFFICES ASSUME NEW i \in 1 .. x + y + z PROVE l[i] = m[i] OBVIOUS
  <2>1. CASE i <= x
    <3>1. i \in 1 .. Len(a) /\ i \in 1 .. Len(p) BY <1>5, <1>6, <2>1
    <3> QED BY <1>1, <1>3, <1>4, <3>1 DEF Cat
  <2>2. CASE i > x /\ i <= x + y
    <3>1. PICK k \in 1 .. y : i = x + k BY <2>2
    <3>2. i \in 1 .. Len(a) /\ k \in 1 .. Len(q) /\ k \in 1 .. Len(b) BY <1>5, <1>6, <2>2, <3>1
    <3>3. l[i] = a[x + k] BY <1>3, <3>1, <3>2 DEF Cat
    <3>4. a[x + k] = q[k] BY <1>1, <1>5, <3>2 DEF Cat
    <3>5. m[x + k] = b[k] BY <1>4, <1>5, <3>2 DEF Cat
    <3>6. b[k] = q[k] BY <1>2, <3>2 DEF Cat
    <3> QED BY <3>1, <3>3, <3>4, <3>5, <3>6
  <2>3. CASE i > x + y
    <3>1. PICK k \in 1 .. z : i = x + y + k BY <2>3
    <3>2. k \in 1 .. Len(r) /\ y + k \in 1 .. Len(b) BY <1>5, <1>6, <3>1
    <3>7. \A u, v \in Seq(Int) : \A h \in 1 .. Len(v) : Cat(u, v)[Len(u) + h] = v[h]
      BY DEF Cat
    <3>3. l[Len(a) + k] = r[k] BY <1>3, <3>2, <3>7
    <3>4. m[Len(p) + (y + k)] = b[y + k] BY <1>4, <3>2 DEF Cat
    <3>5. b[Len(q) + k] = r[k] BY <1>2, <3>2 DEF Cat
    <3>6. Len(a) + k = i /\ Len(p) + (y + k) = i /\ Len(q) + k = y + k BY <1>5, <1>6, <3>1
    <3> QED BY <3>3, <3>4, <3>5, <3>6
  <2> QED BY <2>1, <2>2, <2>3
<1>8. l = m BY <1>6, <1>7, SameSequence
<1> QED BY <1>1, <1>2, <1>3, <1>4, <1>8

(* The two parts that write(2) makes of what it is given. *)
LEMMA Split ==
  \A w \in Seq(Int), r \in Nat : r <= Len(w) =>
    /\ SubSeq(w, 1, r) \in Seq(Int) /\ SubSeq(w, r + 1, Len(w)) \in Seq(Int)
    /\ Len(SubSeq(w, 1, r)) = r /\ Len(SubSeq(w, r + 1, Len(w))) = Len(w) - r
    /\ \A i \in 1 .. r : SubSeq(w, 1, r)[i] = w[i]
    /\ \A i \in 1 .. Len(w) - r : SubSeq(w, r + 1, Len(w))[i] = w[r + i]
OBVIOUS

(* The two parts together. *)
LEMMA Rejoined ==
  \A w \in Seq(Int), r \in Nat : r <= Len(w) =>
    Cat(SubSeq(w, 1, r), SubSeq(w, r + 1, Len(w))) = w
<1> SUFFICES ASSUME NEW w \in Seq(Int), NEW r \in Nat, r <= Len(w)
             PROVE  Cat(SubSeq(w, 1, r), SubSeq(w, r + 1, Len(w))) = w
  OBVIOUS
<1>1. PICK a \in Seq(Int) : a = SubSeq(w, 1, r) BY Split
<1>2. PICK b \in Seq(Int) : b = SubSeq(w, r + 1, Len(w)) BY Split
<1>3. PICK z \in Seq(Int) : z = Cat(a, b) BY Concatenated
<1>4. Len(a) = r /\ Len(b) = Len(w) - r BY <1>1, <1>2, Split
<1>8. Len(z) = Len(a) + Len(b) BY <1>3, Concatenated
<1>5. Len(z) = Len(w) BY <1>4, <1>8
<1>6. ASSUME NEW i \in 1 .. Len(z) PROVE z[i] = w[i]
  <2>1. CASE i <= r
    <3>1. i \in 1 .. Len(a) /\ i \in 1 .. r BY <1>4, <2>1
    <3>2. z[i] = a[i] BY <1>3, <3>1 DEF Cat
    <3>3. a[i] = w[i] BY <1>1, <3>1, Split
    <3> QED BY <3>2, <3>3
  <2>2. CASE i > r
    <3>1. PICK k \in Int : k = i - r OBVIOUS
    <3>2. k \in 1 .. Len(w) - r /\ i = r + k BY <1>5, <2>2, <3>1
    <3>5. k \in 1 .. Len(b) BY <1>4, <3>2
    <3>3. z[Len(a) + k] = b[k] BY <1>3, <3>5 DEF Cat
    <3>4. b[k] = w[r + k] BY <1>2, <3>2, Split
    <3> QED BY <1>4, <3>2, <3>3, <3>4
  <2> QED BY <2>1, <2>2
<1>7. z = w BY <1>5, <1>6, SameSequence
<1> QED BY <1>1, <1>2, <1>3, <1>7

(* A partial write moves bytes to the file and changes nothing else. *)
LEMMA Written ==
  \A d, w, q \in Seq(Int), r \in Nat : r <= Len(w) =>
    Cat(Cat(d, SubSeq(w, 1, r)), Cat(SubSeq(w, r + 1, Len(w)), q)) = Cat(d, Cat(w, q))
<1> SUFFICES ASSUME NEW d \in Seq(Int), NEW w \in Seq(Int), NEW q \in Seq(Int), NEW r \in Nat,
                    r <= Len(w)
             PROVE  Cat(Cat(d, SubSeq(w, 1, r)), Cat(SubSeq(w, r + 1, Len(w)), q))
                      = Cat(d, Cat(w, q))
  OBVIOUS
<1>1. PICK a \in Seq(Int) : a = SubSeq(w, 1, r) BY Split
<1>2. PICK b \in Seq(Int) : b = SubSeq(w, r + 1, Len(w)) BY Split
<1>3. PICK z \in Seq(Int) : z = Cat(b, q) BY Concatenated
<1>4. Cat(Cat(d, a), z) = Cat(d, Cat(a, z)) BY Associative
<1>5. Cat(a, z) = Cat(Cat(a, b), q) BY <1>3, Associative
<1>6. Cat(a, b) = w BY <1>1, <1>2, Rejoined
<1> QED BY <1>1, <1>2, <1>3, <1>4, <1>5, <1>6

(* What is in order stays so when its end is lost, *)
LEMMA PrefixIncreasing ==
  \A q, p \in Seq(Int), n \in Int : Increasing(Cat(q, p), n) => Increasing(q, n)
<1> SUFFICES ASSUME NEW q \in Seq(Int), NEW p \in Seq(Int), NEW n \in Int, Increasing(Cat(q, p), n)
             PROVE  Increasing(q, n)
  OBVIOUS
<1>1. \A i \in 1 .. Len(q) : i \in 1 .. Len(Cat(q, p)) /\ Cat(q, p)[i] = q[i] BY Concatenated
<1> QED BY <1>1 DEF Increasing

(* or cut off. *)
LEMMA CutIncreasing ==
  \A q \in Seq(Int), n \in Int, k \in Nat :
    k <= Len(q) /\ Increasing(q, n) => Increasing(SubSeq(q, 1, k), n)
BY DEF Increasing

\* Append's n bytes behind q.
LEMMA MoreIncreasing ==
  \A q, t \in Seq(Int), g, n \in Nat :
    /\ Increasing(q, g) /\ Len(t) = n /\ \A i \in 1 .. n : t[i] = g + i
    => Increasing(Cat(q, t), g + n)
<1> SUFFICES ASSUME NEW q \in Seq(Int), NEW t \in Seq(Int), NEW g \in Nat, NEW n \in Nat,
                    Increasing(q, g), Len(t) = n, \A i \in 1 .. n : t[i] = g + i
             PROVE  Increasing(Cat(q, t), g + n)
  OBVIOUS
<1> DEFINE z == Cat(q, t)
<1>1. z \in Seq(Int) /\ Len(z) = Len(q) + n BY Concatenated
<1>0. PICK l \in Nat : l = Len(q) OBVIOUS
<1>2. /\ \A i \in 1 .. l : z[i] = q[i] /\ q[i] \in Int
      /\ \A k \in 1 .. n : z[l + k] = g + k
  BY <1>0 DEF Cat
<1> HIDE DEF z
<1>3. \A i \in 1 .. l : q[i] <= g BY <1>0 DEF Increasing
<1>4. ASSUME NEW i \in 1 .. Len(z) PROVE z[i] <= g + n
  <2>1. CASE i <= l BY <1>2, <1>3, <2>1
  <2>2. CASE i > l
    <3>0. PICK k \in Int : k = i - l OBVIOUS
    <3>1. k \in 1 .. n /\ i = l + k BY <1>0, <1>1, <2>2, <3>0
    <3>2. z[i] = g + k BY <1>2, <3>1
    <3> QED BY <3>1, <3>2
  <2> QED BY <1>0, <2>1, <2>2
<1>5. ASSUME NEW i \in 1 .. Len(z), NEW j \in 1 .. Len(z), i < j PROVE z[i] < z[j]
  <2>1. CASE j <= l BY <1>0, <1>2, <1>5, <2>1 DEF Increasing
  <2>2. CASE j > l
    <3>0. PICK k \in Int : k = j - l OBVIOUS
    <3>1. k \in 1 .. n /\ j = l + k BY <1>0, <1>1, <2>2, <3>0
    <3>2. z[j] = g + k BY <1>2, <3>1
    <3>3. CASE i <= l
      <4>0. i \in 1 .. l BY <1>0, <3>3
      <4>1. z[i] <= g /\ z[i] \in Int BY <1>2, <1>3, <4>0
      <4> QED BY <3>1, <3>2, <4>1
    <3>4. CASE i > l
      <4>0. PICK m \in Int : m = i - l OBVIOUS
      <4>1. m \in 1 .. n /\ i = l + m BY <1>0, <1>1, <3>4, <4>0
      <4>2. z[i] = g + m /\ m < k BY <1>2, <1>5, <3>1, <4>1
      <4> QED BY <3>2, <4>2
    <3> QED BY <1>0, <3>3, <3>4
  <2> QED BY <1>0, <2>1, <2>2
<1>6. Increasing(z, g + n) BY <1>1, <1>4, <1>5 DEF Increasing
<1> QED BY <1>6 DEF z

LEMMA MoreExactly ==
  \A q, t \in Seq(Int), g, n \in Nat :
    /\ Exactly(q, g) /\ Len(t) = n /\ \A i \in 1 .. n : t[i] = g + i
    => Exactly(Cat(q, t), g + n)
<1> SUFFICES ASSUME NEW q \in Seq(Int), NEW t \in Seq(Int), NEW g \in Nat, NEW n \in Nat,
                    Exactly(q, g), Len(t) = n, \A i \in 1 .. n : t[i] = g + i
             PROVE  Exactly(Cat(q, t), g + n)
  OBVIOUS
<1>1. PICK z \in Seq(Int) : z = Cat(q, t) BY Concatenated
<1>2. Len(z) = g + n BY <1>1, Concatenated DEF Exactly
<1>3. ASSUME NEW i \in 1 .. g + n PROVE z[i] = i
  <2>1. CASE i <= g BY <1>1, <2>1 DEF Exactly, Cat
  <2>2. CASE i > g
    <3>1. PICK k \in 1 .. n : i = g + k BY <2>2
    <3>2. z[g + k] = t[k] BY <1>1 DEF Exactly, Cat
    <3> QED BY <3>1, <3>2
  <2> QED BY <2>1, <2>2
<1>4. Exactly(z, g + n) BY <1>2, <1>3 DEF Exactly
<1> QED BY <1>1, <1>4

-----------------------------------------------------------------------------
(* The invariant of WritableFile. *)

Types ==
  /\ manifest \in BOOLEAN /\ fd \in BOOLEAN /\ entry \in BOOLEAN /\ failed \in BOOLEAN
  /\ buf \in Seq(Int) /\ out \in Seq(Int) /\ rest \in Seq(Int) /\ disk \in Seq(Int)
  /\ Len(buf) <= kBufSize
  /\ given \in Nat /\ promised \in Nat /\ synced \in Nat /\ synced <= Len(disk)
  /\ op \in {"none", "append", "flush", "sync", "close"}
  /\ pc \in {"idle", "syncdir", "flush", "raw", "fdatasync", "close"}
  /\ status \in {"ok", "error"}

(* What is left to write, at each step of each function. *)
Shape ==
  /\ op = "none" <=> pc = "idle"
  /\ ~fd => op = "none" /\ buf = <<>>
  /\ pc \in {"raw", "fdatasync", "close"} => buf = <<>>
  /\ pc \in {"raw", "syncdir", "fdatasync", "close"} => rest = <<>>
  /\ pc \in {"fdatasync", "close"} => out = <<>>
  /\ pc = "raw" => op = "append"
  /\ pc = "fdatasync" => op = "sync"
  /\ pc = "close" => op = "close"
  /\ pc = "syncdir" => op = "sync" /\ manifest /\ out = buf
  /\ op \in {"flush", "sync", "close"} => rest = <<>>
  /\ op = "sync" /\ manifest /\ pc # "syncdir" => entry

(* The file and what is left to write, together. *)
Whole ==
  /\ op = "none" => /\ Increasing(Cat(disk, buf), given)
                    /\ ~failed => Exactly(Cat(disk, buf), given)
  /\ op # "none" => /\ Increasing(Cat(disk, Cat(out, rest)), given)
                    /\ ~failed => Exactly(Cat(disk, Cat(out, rest)), given)

Numbered(q, n) == \A i \in 1 .. n : q[i] = i

Kept ==
  /\ entry => promised <= synced /\ Numbered(disk, promised)
  /\ manifest /\ promised > 0 => entry

IInv == Types /\ Shape /\ Whole /\ Kept

(* What was promised is there in a longer file, *)
LEMMA NumberedGrows ==
  \A d, a \in Seq(Int), k \in Nat : k <= Len(d) /\ Numbered(d, k) => Numbered(Cat(d, a), k)
BY DEF Numbered, Cat

(* and in one that is cut behind it. *)
LEMMA NumberedCut ==
  \A d \in Seq(Int), k, p \in Nat :
    p <= k /\ k <= Len(d) /\ Numbered(d, p) => Numbered(SubSeq(d, 1, k), p)
BY DEF Numbered

(* The invariant of WritableFile holds at the start. *)
LEMMA StartsRight == Init => IInv
<1> SUFFICES ASSUME Init PROVE IInv OBVIOUS
<1>1. Types
  <2>1. kBufSize \in Nat BY WritableFileAssumption
  <2>2. buf \in Seq(Int) /\ out \in Seq(Int) /\ rest \in Seq(Int) /\ disk \in Seq(Int)
    BY Empty DEF Init
  <2>3. Len(buf) <= kBufSize /\ synced <= Len(disk) BY <2>1, Empty DEF Init
  <2>4. given \in Nat /\ promised \in Nat /\ synced \in Nat BY DEF Init
  <2> QED BY <2>2, <2>3, <2>4 DEF Init, Types
<1>2. Shape BY DEF Init, Shape
<1>3. Cat(<<>>, <<>>) = <<>> BY Empty
<1>4. Increasing(<<>>, 0) /\ Exactly(<<>>, 0) BY DEF Increasing, Exactly
<1>5. Whole BY <1>3, <1>4 DEF Init, Whole
<1>6. Kept BY DEF Init, Kept, Numbered
<1> QED BY <1>1, <1>2, <1>5, <1>6 DEF IInv

(* Each step of WritableFile keeps it. *)
LEMMA NewWritableFileKeeps == IInv /\ NewWritableFile => IInv'
<1> SUFFICES ASSUME IInv, NewWritableFile PROVE IInv' OBVIOUS
<1>1. Types'
  <2>1. (disk \in Seq(Int) /\ synced <= Len(disk) /\ synced \in Nat)' BY Empty DEF NewWritableFile
  <2>2. (given \in Nat /\ promised \in Nat)' BY DEF NewWritableFile
  <2> QED BY <2>1, <2>2 DEF IInv, Types, NewWritableFile, call
<1>2. Shape' BY DEF IInv, Shape, NewWritableFile, call
<1>3. op' = "none" /\ buf' = <<>> /\ disk' = <<>> /\ given' = 0
  BY DEF IInv, Shape, NewWritableFile, call
<1>4. Cat(<<>>, <<>>) = <<>> BY Empty
<1>5. Increasing(<<>>, 0) /\ Exactly(<<>>, 0) BY DEF Increasing, Exactly
<1>6. Whole' BY <1>3, <1>4, <1>5 DEF Whole
<1>7. Kept' BY DEF NewWritableFile, Kept, Numbered
<1> QED BY <1>1, <1>2, <1>6, <1>7 DEF IInv

LEMMA NewAppendableFileKeeps == IInv /\ NewAppendableFile => IInv'
BY DEF IInv, Types, Shape, Whole, Kept, NewAppendableFile, call, kernel, history

LEMMA EnterKeeps == IInv /\ (Flush \/ Sync \/ Close) => IInv'
<1> SUFFICES ASSUME IInv, Flush \/ Sync \/ Close PROVE IInv' OBVIOUS
<1>1. /\ op = "none" /\ op' # "none" /\ out' = buf /\ rest' = <<>>
      /\ UNCHANGED <<manifest, fd, buf, disk, synced, entry, given, promised, status, failed>>
  BY DEF Flush, Sync, Close, Idle, Enter, kernel
<1>2. Types' BY <1>1 DEF IInv, Types, Flush, Sync, Close, Enter
<1>3. Shape' BY <1>1 DEF IInv, Types, Shape, Flush, Sync, Close, Enter, Idle
<1>4. Cat(out', rest') = buf BY <1>1, EmptyEnds DEF IInv, Types
<1>5. Whole' BY <1>1, <1>4 DEF IInv, Whole
<1>6. Kept' BY <1>1 DEF IInv, Kept
<1> QED BY <1>2, <1>3, <1>5, <1>6 DEF IInv

LEMMA SyncDirKeeps == IInv /\ SyncDirIfManifest => IInv'
<1> SUFFICES ASSUME IInv, SyncDirIfManifest PROVE IInv' OBVIOUS
<1>1. Types' BY Empty DEF IInv, Types, SyncDirIfManifest, Return
<1>2. Shape' BY DEF IInv, Types, Shape, SyncDirIfManifest, Return
<1>3. Kept'
  <2>1. manifest BY DEF IInv, Shape, SyncDirIfManifest
  <2>2. promised = 0 \/ entry BY <2>1 DEF IInv, Types, Kept
  <2>3. Numbered(disk, 0) BY DEF Numbered
  <2> QED BY <2>2, <2>3 DEF IInv, Types, Kept, SyncDirIfManifest
<1>4. op # "none" /\ Cat(out, rest) = buf
  BY EmptyEnds DEF IInv, Types, Shape, SyncDirIfManifest
<1>5. Whole' BY <1>4 DEF IInv, Types, Whole, SyncDirIfManifest, Return
<1> QED BY <1>1, <1>2, <1>3, <1>5 DEF IInv

LEMMA WriteRawKeeps == IInv /\ WriteRaw => IInv'
<1> SUFFICES ASSUME IInv, WriteRaw PROVE IInv' OBVIOUS
<1>1. PICK r \in 1 .. Len(out) :
        /\ disk' = Cat(disk, SubSeq(out, 1, r))
        /\ out' = SubSeq(out, r + 1, Len(out))
  BY DEF WriteRaw, Drop, Cat
<1>2. /\ pc \in {"flush", "raw"} /\ op # "none"
      /\ UNCHANGED <<manifest, fd, buf, op, pc, rest, status, synced, entry>>
      /\ UNCHANGED <<given, failed, promised>>
  BY DEF IInv, Shape, WriteRaw, history
<1>3. disk \in Seq(Int) /\ out \in Seq(Int) /\ rest \in Seq(Int) /\ r \in Nat /\ r <= Len(out)
  BY DEF IInv, Types
<1>4. /\ SubSeq(out, 1, r) \in Seq(Int) /\ out' \in Seq(Int) /\ Len(SubSeq(out, 1, r)) = r
  BY <1>1, <1>3, Split
<1>0. PICK d \in Seq(Int), a \in Seq(Int) : d = disk /\ a = SubSeq(out, 1, r) BY <1>3, <1>4
<1>5. disk' \in Seq(Int) /\ Len(disk') = Len(disk) + r
  <2>1. Cat(d, a) \in Seq(Int) /\ Len(Cat(d, a)) = Len(d) + Len(a) BY Concatenated
  <2> QED BY <1>0, <1>1, <1>4, <2>1
<1>7. Types' BY <1>2, <1>3, <1>4, <1>5 DEF IInv, Types
<1>8. Shape' BY <1>2 DEF IInv, Shape
<1>9. Cat(disk', Cat(out', rest)) = Cat(disk, Cat(out, rest)) BY <1>1, <1>3, Written
<1>10. Whole' BY <1>2, <1>9 DEF IInv, Whole
<1>11. entry => Numbered(disk', promised)
  <2>1. entry => promised <= Len(d) /\ promised \in Nat /\ Numbered(d, promised)
    BY <1>0 DEF IInv, Types, Kept
  <2>2. entry => Numbered(Cat(d, a), promised) BY <2>1, NumberedGrows
  <2> QED BY <1>0, <1>1, <2>2
<1>12. Kept' BY <1>2, <1>11 DEF IInv, Kept
<1> QED BY <1>7, <1>8, <1>10, <1>12 DEF IInv

LEMMA FailedWriteKeeps == IInv /\ WriteFails => IInv'
<1> SUFFICES ASSUME IInv, WriteFails PROVE IInv' OBVIOUS
<1>1. op # "none" /\ (op = "close" => rest = <<>>) BY DEF IInv, Shape, WriteFails
<1>2. /\ buf' = <<>> /\ failed' = TRUE /\ out' = <<>>
      /\ UNCHANGED <<manifest, fd, disk, synced, entry, given, promised>>
  BY DEF WriteFails, Return, kernel
<1>3. \/ op' = "close" /\ op = "close" /\ pc' = "close" /\ rest' = <<>> /\ status' = "error"
      \/ op' = "none" /\ pc' = "idle" /\ rest' = <<>> /\ status' = "error"
  BY <1>1 DEF WriteFails, Return
<1>4. Types'
  <2>1. Len(buf') <= kBufSize BY <1>2, Empty, WritableFileAssumption
  <2> QED BY <1>2, <1>3, <2>1, Empty DEF IInv, Types
<1>5. Shape' BY <1>1, <1>2, <1>3 DEF IInv, Shape
<1>6. Increasing(disk, given)
  <2>1. Cat(out, rest) \in Seq(Int) BY Concatenated DEF IInv, Types
  <2>2. Increasing(Cat(disk, Cat(out, rest)), given) BY <1>1 DEF IInv, Whole
  <2> QED BY <2>1, <2>2, PrefixIncreasing DEF IInv, Types
<1>7. Cat(disk, <<>>) = disk /\ Cat(<<>>, <<>>) = <<>> BY EmptyEnds, Empty DEF IInv, Types
<1>8. Whole' BY <1>2, <1>3, <1>6, <1>7 DEF Whole
<1>9. Kept' BY <1>2 DEF IInv, Kept
<1> QED BY <1>4, <1>5, <1>8, <1>9 DEF IInv

LEMMA AppendRestKeeps == IInv /\ AppendRest => IInv'
<1> SUFFICES ASSUME IInv, AppendRest PROVE IInv' OBVIOUS
<1>1. /\ op = "append" /\ pc = "flush" /\ out = <<>>
      /\ UNCHANGED <<manifest, fd, disk, synced, entry, given, promised>>
  BY DEF AppendRest, kernel
<1>2. \/ /\ buf' = rest /\ Len(rest) < kBufSize /\ op' = "none" /\ pc' = "idle" /\ out' = <<>>
         /\ rest' = <<>> /\ status' = "ok"
      \/ /\ buf' = <<>> /\ op' = "append" /\ pc' = "raw" /\ out' = rest /\ rest' = <<>>
         /\ status' = status
  BY DEF AppendRest, Return, Enter
<1>3. failed' = failed BY DEF AppendRest, Return, Enter, IInv, Types
<1>4. Types'
  <2>1. Len(buf') <= kBufSize BY <1>2, Empty, WritableFileAssumption DEF IInv, Types
  <2> QED BY <1>1, <1>2, <1>3, <2>1, Empty DEF IInv, Types
<1>5. Shape' BY <1>1, <1>2 DEF IInv, Shape
<1>6. Cat(rest, <<>>) = rest /\ Cat(<<>>, rest) = rest BY EmptyEnds DEF IInv, Types
<1>7. Whole' BY <1>1, <1>2, <1>3, <1>6 DEF IInv, Whole
<1>8. Kept' BY <1>1 DEF IInv, Kept
<1> QED BY <1>4, <1>5, <1>7, <1>8 DEF IInv

LEMMA AppendRawKeeps == IInv /\ AppendRaw => IInv'
<1> SUFFICES ASSUME IInv, AppendRaw PROVE IInv' OBVIOUS
<1>1. /\ op # "none" /\ out = <<>> /\ rest = <<>> /\ buf = <<>>
      /\ UNCHANGED <<manifest, fd, buf, disk, synced, entry, given, promised>>
      /\ op' = "none" /\ pc' = "idle" /\ out' = <<>> /\ rest' = <<>> /\ status' = "ok"
  BY DEF IInv, Shape, AppendRaw, Return, kernel
<1>2. failed' = failed BY DEF AppendRaw, Return, IInv, Types
<1>3. Types' BY <1>1, <1>2, Empty DEF IInv, Types
<1>4. Shape' BY <1>1 DEF IInv, Shape
<1>5. Whole' BY <1>1, <1>2, Empty DEF IInv, Whole
<1>6. Kept' BY <1>1 DEF IInv, Kept
<1> QED BY <1>3, <1>4, <1>5, <1>6 DEF IInv

LEMMA FlushedKeeps == IInv /\ Flushed => IInv'
<1> SUFFICES ASSUME IInv, Flushed PROVE IInv' OBVIOUS
<1>1. /\ op \in {"flush", "sync", "close"} /\ pc = "flush" /\ out = <<>> /\ rest = <<>>
      /\ buf' = <<>> /\ out' = <<>> /\ rest' = <<>>
      /\ UNCHANGED <<manifest, fd, disk, synced, entry, given, promised>>
  BY DEF IInv, Shape, Flushed, Return, Enter, kernel
<1>2. \/ op = "flush" /\ op' = "none" /\ pc' = "idle" /\ status' = "ok"
      \/ op = "sync" /\ op' = "sync" /\ pc' = "fdatasync" /\ status' = status
      \/ op = "close" /\ op' = "close" /\ pc' = "close" /\ status' = "ok"
  BY DEF Flushed, Return, Enter
<1>3. failed' = failed BY DEF Flushed, Return, Enter, IInv, Types
<1>4. Types'
  <2>1. Len(buf') <= kBufSize BY <1>1, Empty, WritableFileAssumption
  <2> QED BY <1>1, <1>2, <1>3, <2>1, Empty DEF IInv, Types
<1>5. Shape' BY <1>1, <1>2 DEF IInv, Shape
<1>6. Whole' BY <1>1, <1>2, <1>3, Empty DEF IInv, Whole
<1>7. Kept' BY <1>1 DEF IInv, Kept
<1> QED BY <1>4, <1>5, <1>6, <1>7 DEF IInv

LEMMA FdatasyncKeeps == IInv /\ Fdatasync => IInv'
<1> SUFFICES ASSUME IInv, Fdatasync PROVE IInv' OBVIOUS
<1>1. /\ op = "sync" /\ pc = "fdatasync" /\ out = <<>> /\ rest = <<>> /\ buf = <<>>
      /\ UNCHANGED <<manifest, fd, buf, disk, entry, given>>
      /\ op' = "none" /\ pc' = "idle" /\ out' = <<>> /\ rest' = <<>> /\ status' \in {"ok", "error"}
  BY DEF IInv, Shape, Fdatasync, Return
<1>2. failed' \in BOOLEAN /\ (~failed' => ~failed) BY DEF Fdatasync, Return, IInv, Types
<1>3. \/ synced' = Len(disk) /\ promised' = (IF failed THEN promised ELSE given)
      \/ synced' = synced /\ promised' = promised
  BY DEF Fdatasync
<1>4. Types'
  <2>1. (synced \in Nat /\ synced <= Len(disk))' BY <1>1, <1>3 DEF IInv, Types
  <2>2. promised' \in Nat BY <1>3 DEF IInv, Types
  <2> QED BY <1>1, <1>2, <2>1, <2>2, Empty DEF IInv, Types
<1>5. Shape' BY <1>1 DEF IInv, Shape
<1>6. Whole' BY <1>1, <1>2, Empty DEF IInv, Whole
<1>7. Cat(disk, <<>>) = disk BY EmptyEnds DEF IInv, Types
<1>8. ~failed => Exactly(disk, given) BY <1>1, <1>7, Empty DEF IInv, Whole
<1>9. ~failed => Len(disk) = given /\ Numbered(disk, given) BY <1>8 DEF Exactly, Numbered
<1>10. manifest => entry BY <1>1 DEF IInv, Shape
<1>11. Kept'
  <2>1. CASE synced' = synced /\ promised' = promised BY <1>1, <2>1 DEF IInv, Kept
  <2>2. CASE synced' = Len(disk) /\ promised' = promised
    BY <1>1, <2>2 DEF IInv, Types, Kept
  <2>3. CASE synced' = Len(disk) /\ ~failed /\ promised' = given
    BY <1>1, <1>9, <1>10, <2>3 DEF IInv, Types, Kept
  <2> QED BY <1>3, <2>1, <2>2, <2>3
<1> QED BY <1>4, <1>5, <1>6, <1>11 DEF IInv

LEMMA CloseFdKeeps == IInv /\ CloseFd => IInv'
<1> SUFFICES ASSUME IInv, CloseFd PROVE IInv' OBVIOUS
<1>1. /\ op # "none" /\ out = <<>> /\ rest = <<>> /\ buf = <<>> /\ fd' = FALSE
      /\ UNCHANGED <<manifest, buf, disk, synced, entry, given, promised>>
      /\ op' = "none" /\ pc' = "idle" /\ out' = <<>> /\ rest' = <<>>
      /\ status' \in {status, "error"}
  BY DEF IInv, Shape, CloseFd, Return, kernel
<1>2. failed' \in BOOLEAN /\ (~failed' => ~failed) BY DEF CloseFd, Return, IInv, Types
<1>3. Types' BY <1>1, <1>2, Empty DEF IInv, Types
<1>4. Shape' BY <1>1 DEF IInv, Shape
<1>5. Whole' BY <1>1, <1>2, Empty DEF IInv, Whole
<1>6. Kept' BY <1>1 DEF IInv, Kept
<1> QED BY <1>3, <1>4, <1>5, <1>6 DEF IInv

(* What has reached the file is in order. *)
LEMMA DiskIncreasing == IInv => Increasing(disk, given)
<1> SUFFICES ASSUME IInv PROVE Increasing(disk, given) OBVIOUS
<1>1. disk \in Seq(Int) /\ buf \in Seq(Int) /\ given \in Int BY DEF IInv, Types
<1>2. Cat(out, rest) \in Seq(Int) BY Concatenated DEF IInv, Types
<1>3. \/ Increasing(Cat(disk, buf), given)
      \/ Increasing(Cat(disk, Cat(out, rest)), given)
  BY DEF IInv, Whole
<1> QED BY <1>1, <1>2, <1>3, PrefixIncreasing

LEMMA KillKeeps == IInv /\ Kill => IInv'
<1> SUFFICES ASSUME IInv, Kill PROVE IInv' OBVIOUS
<1>1. /\ fd' = FALSE /\ buf' = <<>> /\ out' = <<>> /\ rest' = <<>> /\ op' = "none" /\ pc' = "idle"
      /\ failed' = TRUE
      /\ UNCHANGED <<manifest, status, given, promised, disk, synced, entry>>
  BY DEF Kill, Gone, kernel
<1>2. Types'
  <2>1. Len(buf') <= kBufSize BY <1>1, Empty, WritableFileAssumption
  <2> QED BY <1>1, <2>1, Empty DEF IInv, Types
<1>3. Shape' BY <1>1 DEF IInv, Shape
<1>4. Cat(disk, <<>>) = disk BY EmptyEnds DEF IInv, Types
<1>5. Whole' BY <1>1, <1>4, DiskIncreasing DEF Whole
<1>6. Kept' BY <1>1 DEF IInv, Kept
<1> QED BY <1>2, <1>3, <1>5, <1>6 DEF IInv

LEMMA PowerFailureKeeps == IInv /\ PowerFailure => IInv'
<1> SUFFICES ASSUME IInv, PowerFailure PROVE IInv' OBVIOUS
<1>1. /\ fd' = FALSE /\ buf' = <<>> /\ out' = <<>> /\ rest' = <<>> /\ op' = "none" /\ pc' = "idle"
      /\ failed' = TRUE /\ synced' = Len(disk')
      /\ UNCHANGED <<manifest, status, given, promised, entry>>
  BY DEF PowerFailure, Gone
<1>2. /\ disk' \in Seq(Int) /\ Increasing(disk', given)
      /\ entry => promised <= Len(disk') /\ Numbered(disk', promised)
  <2>1. CASE ~entry /\ disk' = <<>>
    <3>1. Increasing(<<>>, given) BY DEF Increasing
    <3> QED BY <2>1, <3>1, Empty
  <2>2. ASSUME NEW k \in synced .. Len(disk), disk' = SubSeq(disk, 1, k)
        PROVE  entry => promised <= Len(disk') /\ Numbered(disk', promised)
    <3>1. k \in Nat /\ k <= Len(disk) /\ synced <= k /\ disk \in Seq(Int) BY DEF IInv, Types
    <3>2. disk' \in Seq(Int) /\ Len(disk') = k BY <2>2, <3>1, Split
    <3>3. entry => promised \in Nat /\ promised <= k /\ Numbered(disk, promised)
      BY <3>1 DEF IInv, Types, Kept
    <3>4. entry => promised <= k /\ Numbered(disk', promised) BY <2>2, <3>1, <3>3, NumberedCut
    <3> QED BY <3>2, <3>4
  <2>3. ASSUME NEW k \in synced .. Len(disk), disk' = SubSeq(disk, 1, k)
        PROVE  disk' \in Seq(Int) /\ Increasing(disk', given)
    <3>1. k \in Nat /\ k <= Len(disk) /\ disk \in Seq(Int) /\ given \in Int BY DEF IInv, Types
    <3>2. disk' \in Seq(Int) BY <2>3, <3>1, Split
    <3> QED BY <2>3, <3>1, <3>2, DiskIncreasing, CutIncreasing
  <2> QED BY <2>1, <2>2, <2>3 DEF PowerFailure
<1>3. Types'
  <2>1. Len(buf') <= kBufSize BY <1>1, Empty, WritableFileAssumption
  <2>2. (synced \in Nat /\ synced <= Len(disk))' BY <1>1, <1>2
  <2> QED BY <1>1, <1>2, <2>1, <2>2, Empty DEF IInv, Types
<1>4. Shape' BY <1>1 DEF IInv, Shape
<1>5. Cat(disk', <<>>) = disk' BY <1>2, EmptyEnds
<1>6. Whole' BY <1>1, <1>2, <1>5 DEF Whole
<1>7. Kept' BY <1>1, <1>2 DEF IInv, Kept
<1> QED BY <1>3, <1>4, <1>6, <1>7 DEF IInv

LEMMA Append1Keeps == \A n \in Nat : IInv /\ Append1(n) => IInv'
<1> SUFFICES ASSUME NEW n \in Nat, IInv, Append1(n) PROVE IInv' OBVIOUS
<1> DEFINE room == kBufSize - Len(buf)
           copy == IF n < room THEN n ELSE room
           bytes == [i \in 1 .. n |-> given + i]
<1>1. /\ op = "none" /\ fd /\ given' = given + n
      /\ UNCHANGED <<manifest, fd, disk, synced, entry, promised>>
      /\ buf' = Cat(buf, SubSeq(bytes, 1, copy))
  BY DEF Append1, Idle, Cat, kernel
<1>0. IF copy = n THEN Return("ok")
      ELSE Enter("append", "flush", buf', SubSeq(bytes, copy + 1, Len(bytes)))
  BY DEF Append1, Drop
<1>2. /\ disk \in Seq(Int) /\ buf \in Seq(Int) /\ given \in Nat /\ Len(buf) <= kBufSize
      /\ Len(buf) \in Nat /\ kBufSize \in Nat /\ failed \in BOOLEAN
  BY WritableFileAssumption DEF IInv, Types
<1>3. copy \in Nat /\ copy <= n /\ Len(buf) + copy <= kBufSize BY <1>2
<1>4. bytes \in Seq(Int) /\ Len(bytes) = n /\ \A i \in 1 .. n : bytes[i] = given + i BY <1>2
<1> HIDE DEF bytes, copy
<1>5. PICK a \in Seq(Int), b \in Seq(Int) :
        /\ a = SubSeq(bytes, 1, copy) /\ b = SubSeq(bytes, copy + 1, Len(bytes))
        /\ Len(a) = copy /\ Len(b) = n - copy
  BY <1>3, <1>4, Split
<1>6. Cat(a, b) = bytes BY <1>3, <1>4, <1>5, Rejoined
<1>7. buf' = Cat(buf, a) /\ buf' \in Seq(Int) /\ Len(buf') <= kBufSize
  <2>1. Cat(buf, a) \in Seq(Int) /\ Len(Cat(buf, a)) = Len(buf) + Len(a) BY <1>2, Concatenated
  <2> QED BY <1>1, <1>3, <1>5, <2>1
<1>8. failed' = failed BY <1>0, <1>2 DEF Return, Enter
<1>9. \/ /\ copy = n /\ op' = "none" /\ pc' = "idle" /\ out' = <<>> /\ rest' = <<>>
         /\ status' = "ok"
      \/ /\ op' = "append" /\ pc' = "flush" /\ out' = buf' /\ rest' = b /\ status' = status
  BY <1>0, <1>5 DEF Return, Enter
<1>10. Types'
  <2>1. given' \in Nat BY <1>1, <1>2
  <2> QED BY <1>1, <1>2, <1>7, <1>8, <1>9, <2>1, Empty DEF IInv, Types
<1>11. Shape' BY <1>1, <1>9 DEF IInv, Shape
<1>12. Kept' BY <1>1 DEF IInv, Kept
<1>13. PICK all \in Seq(Int) : all = Cat(disk, buf) BY <1>2, Concatenated
<1>14. /\ Increasing(Cat(all, bytes), given + n)
       /\ ~failed => Exactly(Cat(all, bytes), given + n)
  <2>1. Increasing(all, given) /\ (~failed => Exactly(all, given))
    BY <1>1, <1>13 DEF IInv, Whole
  <2> QED BY <1>2, <1>4, <2>1, MoreIncreasing, MoreExactly
<1>15. Cat(disk, Cat(Cat(buf, a), b)) = Cat(all, bytes)
  <2>3. Cat(Cat(buf, a), b) = Cat(buf, Cat(a, b)) BY <1>2, Associative
  <2>1. Cat(Cat(buf, a), b) = Cat(buf, bytes) BY <1>6, <2>3
  <2>2. Cat(disk, Cat(buf, bytes)) = Cat(Cat(disk, buf), bytes) BY <1>2, <1>4, Associative
  <2> QED BY <1>13, <2>1, <2>2
<1>16. CASE copy = n /\ op' = "none"
  <2>1. b = <<>> BY <1>5, <1>16
  <2>2. Cat(Cat(buf, a), b) = Cat(buf, a) BY <1>7, <2>1, EmptyEnds
  <2>3. Whole' BY <1>1, <1>7, <1>8, <1>14, <1>15, <1>16, <2>2 DEF Whole
  <2> QED BY <1>10, <1>11, <1>12, <2>3 DEF IInv
<1>17. CASE op' = "append" /\ out' = buf' /\ rest' = b
  <2>1. Whole' BY <1>1, <1>7, <1>8, <1>14, <1>15, <1>17 DEF Whole
  <2> QED BY <1>10, <1>11, <1>12, <2>1 DEF IInv
<1> QED BY <1>9, <1>16, <1>17

(* So every step keeps it, *)
LEMMA NextKeeps == IInv /\ [Next]_vars => IInv'
<1> SUFFICES ASSUME IInv, [Next]_vars PROVE IInv' OBVIOUS
<1>1. CASE UNCHANGED vars
  BY <1>1 DEF IInv, Types, Shape, Whole, Kept, vars, call, kernel, history
<1>2. ASSUME NEW n \in 0 .. MaxBytes, Append1(n) PROVE IInv'
  BY <1>2, Append1Keeps, WritableFileAssumption
<1> QED
  BY <1>1, <1>2, NewWritableFileKeeps, NewAppendableFileKeeps, EnterKeeps, SyncDirKeeps,
     WriteRawKeeps, FailedWriteKeeps, AppendRestKeeps, AppendRawKeeps, FlushedKeeps,
     FdatasyncKeeps, CloseFdKeeps, KillKeeps, PowerFailureKeeps
     DEF Next, Functions, SystemCall

(* and it implies the properties of the file. *)
LEMMA Implied == IInv => NothingLost /\ InOrder /\ SyncKept
<1> SUFFICES ASSUME IInv PROVE NothingLost /\ InOrder /\ SyncKept OBVIOUS
<1>0. /\ disk \in Seq(Int) /\ buf \in Seq(Int) /\ given \in Nat
      /\ Cat(out, rest) \in Seq(Int)
  BY Concatenated DEF IInv, Types
<1>1. PICK all \in Seq(Int) :
        all = Cat(disk, IF op = "none" THEN buf ELSE Cat(out, rest))
  BY <1>0, Concatenated
<1>2. all = disk \o Pending BY <1>1 DEF Cat, Pending
<1>3. Increasing(all, given) /\ (~failed => Exactly(all, given)) BY <1>1 DEF IInv, Whole
<1>4. NothingLost
  <2>1. Exactly(all, given) => all = Bytes BY <1>0 DEF Exactly, Bytes
  <2> QED BY <1>2, <1>3, <2>1 DEF NothingLost
<1>5. InOrder BY <1>2, <1>3 DEF Increasing, InOrder
<1>6. SyncKept BY <1>0 DEF IInv, Types, Kept, Numbered, SyncKept
<1> QED BY <1>4, <1>5, <1>6

-----------------------------------------------------------------------------
(* DoWriteStringToFile. *)

WriterTypes ==
  /\ wpc \in {"idle", "direct", "append", "appended", "synced", "closed", "deleted"}
  /\ should_sync \in BOOLEAN /\ exists \in BOOLEAN /\ undeleted \in BOOLEAN
  /\ length \in 0 .. MaxBytes /\ version \in Nat
  /\ s \in {"ok", "error"}

(* What the writer knows of the file at each point of the call. *)
Stages ==
  /\ wpc = "idle" => op = "none" /\ WriteOutcome
  /\ wpc = "append" => fd /\ op = "none" /\ given = 0 /\ ~failed /\ exists
  /\ wpc \in {"appended", "synced", "closed", "deleted"} => given = length /\ exists
  /\ wpc = "appended" => op \in {"none", "append"}
  /\ wpc = "synced" => op \in {"none", "sync"}
  /\ wpc \in {"closed", "deleted"} => op \in {"none", "close"}
  /\ wpc \in {"appended", "synced"} =>
       IF op = "none" THEN fd /\ (failed <=> status = "error") ELSE ~failed
  /\ wpc = "closed" /\ op = "none" => ~fd
  /\ wpc = "closed" => IF pc \in {"idle", "close"} THEN failed <=> status = "error" ELSE ~failed
  /\ wpc = "synced" /\ op = "none" /\ ~failed => synced = length
  /\ wpc = "closed" /\ should_sync /\ ~failed => synced = length
  /\ wpc = "deleted" /\ op = "none" => ~fd
  /\ wpc = "deleted" /\ s = "ok" =>
       op = "none" /\ ~failed /\ (should_sync => synced = length)

(* A system call of the writer keeps what it knows. *)
LEMMA SystemCallStages ==
  /\ IInv /\ WriterTypes /\ Stages /\ wpc # "direct" /\ SystemCall /\ UNCHANGED writer
  => Stages'
<1> SUFFICES ASSUME IInv, WriterTypes, Stages, wpc # "direct", SystemCall, UNCHANGED writer
             PROVE  Stages'
  OBVIOUS
<1>1. UNCHANGED <<wpc, should_sync, length, s, exists>> BY DEF writer
<1>2. op # "none"
  BY DEF IInv, Shape, SystemCall, SyncDirIfManifest, WriteRaw, WriteFails, AppendRest, AppendRaw,
         Flushed, Fdatasync, CloseFd
<1>3. wpc \in {"appended", "synced", "closed", "deleted"} BY <1>2 DEF WriterTypes, Stages
<1>4. fd BY <1>2 DEF IInv, Shape, Types
<1>5. CASE SyncDirIfManifest
  <2>1. op = "sync" /\ wpc = "synced" /\ given' = given /\ fd' = fd
    BY <1>3, <1>5 DEF IInv, Shape, Stages, SyncDirIfManifest
  <2>2. \/ op' = op /\ failed' = failed
        \/ op' = "none" /\ failed' = TRUE /\ status' = "error"
    BY <1>5 DEF SyncDirIfManifest, Return
  <2> QED BY <1>1, <1>4, <2>1, <2>2 DEF Stages
<1>6. CASE WriteRaw
  BY <1>1, <1>2, <1>3, <1>4, <1>6 DEF IInv, Types, Shape, Stages, WriteRaw, history
<1>7. CASE WriteFails
  BY <1>1, <1>2, <1>3, <1>4, <1>7 DEF IInv, Types, Shape, Stages, WriteFails, Return, kernel
<1>8. CASE AppendRest
  BY <1>1, <1>2, <1>3, <1>4, <1>8 DEF IInv, Types, Shape, Stages, AppendRest, Return, Enter, kernel
<1>9. CASE AppendRaw
  BY <1>1, <1>2, <1>3, <1>4, <1>9 DEF IInv, Types, Shape, Stages, AppendRaw, Return, kernel
<1>10. CASE Flushed
  BY <1>1, <1>2, <1>3, <1>4, <1>10 DEF IInv, Types, Shape, Stages, Flushed, Return, Enter, kernel
<1>11. CASE Fdatasync
  <2>1. Cat(disk, Cat(out, rest)) = disk
    BY <1>11, Empty, EmptyEnds DEF IInv, Types, Shape, Fdatasync
  <2>2. ~failed => Len(disk) = given BY <1>2, <2>1 DEF IInv, Whole, Exactly
  <2> QED BY <1>1, <1>2, <1>3, <1>4, <1>11, <2>2 DEF IInv, Types, Shape, Stages, Fdatasync, Return
<1>12. CASE CloseFd
  BY <1>1, <1>2, <1>3, <1>4, <1>12 DEF IInv, Types, Shape, Stages, CloseFd, Return, kernel
<1> QED BY <1>5, <1>6, <1>7, <1>8, <1>9, <1>10, <1>11, <1>12 DEF SystemCall

(* A file that has been closed without an error has every byte. *)
LEMMA ClosedComplete ==
  IInv /\ ~fd /\ ~failed /\ given = length => Complete
<1> SUFFICES ASSUME IInv, ~fd, ~failed, given = length PROVE Complete OBVIOUS
<1>1. disk \in Seq(Int) BY DEF IInv, Types
<1>2. op = "none" /\ buf = <<>> BY DEF IInv, Shape
<1>3. Exactly(disk, length) BY <1>1, <1>2, EmptyEnds DEF IInv, Whole
<1> QED BY <1>1, <1>3 DEF Exactly, Complete

(* Every step of the writer does. *)
LEMMA WriterStages == IInv /\ WriterTypes /\ Stages /\ Writer => WriterTypes' /\ Stages'
<1> SUFFICES ASSUME IInv, WriterTypes, Stages, Writer PROVE WriterTypes' /\ Stages' OBVIOUS
<1>1. ASSUME NEW n \in Lengths, NEW sync \in BOOLEAN, DoWriteStringToFile(n, sync)
      PROVE  WriterTypes' /\ Stages'
  <2>1. CASE wpc' = "append"
    <3>1. /\ wpc = "idle" /\ NewWritableFile /\ should_sync' = sync /\ length' = n
          /\ version' = version + 1 /\ exists' = TRUE /\ UNCHANGED <<s, undeleted>>
      BY <1>1, <2>1 DEF DoWriteStringToFile
    <3>2. n \in 0 .. MaxBytes BY StringFileAssumption
    <3>3. version' \in Nat BY <3>1 DEF WriterTypes
    <3>4. WriterTypes' BY <2>1, <3>1, <3>2, <3>3 DEF WriterTypes
    <3>5. Stages' BY <2>1, <3>1 DEF Stages, NewWritableFile, call
    <3> QED BY <3>4, <3>5
  <2>2. CASE wpc' # "append"
    <3>1. /\ s' = "error" /\ wpc = "idle"
          /\ UNCHANGED <<vars, wpc, should_sync, length, version, exists, undeleted>>
      BY <1>1, <2>2 DEF DoWriteStringToFile
    <3>2. UNCHANGED <<fd, op, disk, synced>> BY <3>1 DEF vars, call, kernel
    <3>3. WriterTypes' BY <3>1 DEF WriterTypes
    <3>4. Stages' BY <3>1, <3>2 DEF Stages, WriteOutcome, Complete
    <3> QED BY <3>3, <3>4
  <2> QED BY <2>1, <2>2
<1>2. CASE AppendString
  <2>1. WriterTypes' BY <1>2 DEF AppendString, WriterTypes
  <2>2. Stages'
    BY <1>2 DEF AppendString, Append1, Idle, Return, Enter, kernel, Stages, IInv, Types, WriterTypes
  <2> QED BY <2>1, <2>2
<1>3. CASE SyncString
  <2>1. WriterTypes' BY <1>3 DEF SyncString, WriterTypes
  <2>2. Stages' BY <1>3 DEF SyncString, Sync, Idle, Enter, kernel, Stages, IInv, Types
  <2> QED BY <2>1, <2>2
<1>4. CASE CloseString
  <2>1. WriterTypes' BY <1>4 DEF CloseString, WriterTypes
  <2>2. Stages' BY <1>4 DEF CloseString, Close, Idle, Enter, kernel, Stages, IInv, Types
  <2> QED BY <2>1, <2>2
<1>5. CASE DeleteObject
  <2>1. WriterTypes' BY <1>5 DEF DeleteObject, WriterTypes, IInv, Types
  <2>2. /\ op = "none" /\ wpc' = "deleted" /\ s' = status
        /\ wpc = "closed" \/ (wpc \in {"appended", "synced"} /\ status = "error")
        /\ UNCHANGED <<should_sync, length, exists>>
    BY <1>5 DEF DeleteObject
  <2>3. ASSUME fd PROVE Stages'
    <3>1. op' = "close" /\ UNCHANGED <<given, synced>>
      BY <1>5, <2>3 DEF DeleteObject, Close, Enter, kernel
    <3>2. status = "error" BY <2>2, <2>3 DEF Stages
    <3> QED BY <2>2, <3>1, <3>2 DEF Stages
  <2>4. ASSUME ~fd PROVE Stages'
    <3>1. UNCHANGED <<fd, op, given, failed, synced>>
      BY <1>5, <2>4 DEF DeleteObject, vars, call, kernel, history
    <3>2. wpc = "closed" /\ pc = "idle" BY <2>2, <2>4 DEF Stages, IInv, Shape
    <3> QED BY <2>2, <2>4, <3>1, <3>2 DEF Stages
  <2> QED BY <2>1, <2>3, <2>4
<1>6. CASE Cleanup
  <2>1. /\ wpc = "deleted" /\ op = "none" /\ wpc' = "idle"
        /\ exists' \in (IF s = "error" THEN BOOLEAN ELSE {TRUE})
        /\ undeleted' = (s = "error" /\ exists')
        /\ UNCHANGED <<vars, should_sync, length, s, version>>
    BY <1>6 DEF Cleanup
  <2>2. UNCHANGED <<fd, op, disk, synced>> BY <2>1 DEF vars, call, kernel
  <2>3. WriterTypes' BY <2>1 DEF WriterTypes
  <2>4. s = "ok" => Complete BY <2>1, ClosedComplete DEF Stages
  <2>5. Complete' = Complete BY <2>1, <2>2 DEF Complete
  <2>6. WriteOutcome' BY <2>1, <2>2, <2>4, <2>5 DEF WriteOutcome, Stages, WriterTypes
  <2>7. Stages' BY <2>1, <2>2, <2>6 DEF Stages
  <2> QED BY <2>3, <2>7
<1>7. CASE wpc # "direct" /\ SystemCall /\ UNCHANGED <<writer, reader>>
  BY <1>7, SystemCallStages DEF writer, WriterTypes
<1> QED BY <1>1, <1>2, <1>3, <1>4, <1>5, <1>6, <1>7 DEF Writer

-----------------------------------------------------------------------------
(* ReadFileToString. *)

Image(v, d) == [i \in 1 .. Len(d) |-> <<v, d[i]>>]

(* What a reader that no writer disturbs has read. *)
Undisturbed ==
  /\ quiet => wpc = "idle" /\ orphan = <<>>
  /\ quiet /\ rpc = "read" => \E n \in 0 .. Len(disk) : data = SubSeq(Image(version, disk), 1, n)
  /\ quiet /\ rpc = "ok" => data = Image(version, disk)

(* The file as the reader sees it. *)
LEMMA ImageIs ==
  \A v \in Nat, d \in Seq(Int) : Image(v, d) \in Seq(Nat \X Int) /\ Len(Image(v, d)) = Len(d)
BY DEF Image

(* One more fragment. *)
LEMMA Further ==
  ASSUME NEW T, NEW c \in Seq(T), NEW n \in Nat, NEW r \in Nat, n + r <= Len(c)
  PROVE  /\ Cat(SubSeq(c, 1, n), SubSeq(c, n + 1, n + r)) = SubSeq(c, 1, n + r)
         /\ Len(SubSeq(c, 1, n)) = n
BY DEF Cat

(* All of it. *)
LEMMA WholeCut == ASSUME NEW T, NEW c \in Seq(T) PROVE SubSeq(c, 1, Len(c)) = c
OBVIOUS

(* A step of the reader reads on where it was, *)
LEMMA ReaderUndisturbed ==
  IInv /\ WriterTypes /\ Undisturbed /\ Reader => Undisturbed'
<1> SUFFICES ASSUME IInv, WriterTypes, Undisturbed, Reader PROVE Undisturbed' OBVIOUS
<1>1. UNCHANGED <<wpc, version, disk>>
  BY DEF Reader, NewSequentialFile, Read, ReadFails, vars, kernel, writer
<1>2. PICK c \in Seq(Nat \X Int) : c = Image(version, disk) /\ Len(c) = Len(disk)
  BY ImageIs DEF IInv, Types, WriterTypes
<1>3. CASE NewSequentialFile
  <2>1. data' = <<>> /\ orphan' = <<>> BY <1>3 DEF NewSequentialFile
  <2>2. \/ rpc' = "read" /\ (quiet' => wpc = "idle")
        \/ rpc' = "error" /\ (quiet' => quiet)
    BY <1>3, Zenon DEF NewSequentialFile
  <2>3. SubSeq(c, 1, 0) = <<>> OBVIOUS
  <2>4. 0 \in 0 .. Len(disk) BY DEF IInv, Types
  <2> QED BY <1>1, <1>2, <2>1, <2>2, <2>3, <2>4 DEF Undisturbed
<1>4. CASE ReadFails BY <1>1, <1>4 DEF ReadFails, Undisturbed
<1>5. CASE Read
  <2>1. rpc = "read" /\ UNCHANGED <<quiet, orphan>> BY <1>5 DEF Read
  <2>2. CASE ~quiet BY <2>1, <2>2 DEF Undisturbed
  <2>3. CASE quiet
    <3>1. View = c BY <1>2, <2>3 DEF Undisturbed, View, Contents, Image
    <3>2. PICK n \in 0 .. Len(disk) : data = SubSeq(c, 1, n)
      BY <1>2, <2>1, <2>3 DEF Undisturbed
    <3>3. n \in Nat /\ n <= Len(c) /\ Len(data) = n BY <1>2, <3>2, Further
    <3>4. CASE Len(data) >= Len(View) /\ rpc' = "ok" /\ data' = data
      <4>1. n = Len(c) BY <3>1, <3>3, <3>4
      <4>2. data = c BY <3>2, <4>1, WholeCut
      <4> QED BY <1>1, <1>2, <2>1, <3>4, <4>2 DEF Undisturbed
    <3>5. ASSUME NEW r \in 1 .. kBufferSize, Len(data) + r <= Len(View), rpc' = rpc,
                 data' = data \o SubSeq(View, Len(data) + 1, Len(data) + r)
          PROVE  Undisturbed'
      <4>1. r \in Nat /\ n + r <= Len(c) /\ n + r \in 0 .. Len(disk)
        BY <1>2, <3>1, <3>3, <3>5, StringFileAssumption
      <4>3. data' = Cat(data, SubSeq(c, n + 1, n + r)) BY <3>1, <3>3, <3>5 DEF Cat
      <4>2. data' = SubSeq(c, 1, n + r) BY <3>2, <3>3, <4>1, <4>3, Further
      <4> QED BY <1>1, <1>2, <2>1, <3>5, <4>1, <4>2 DEF Undisturbed
    <3> QED BY <1>5, <3>4, <3>5 DEF Read
  <2> QED BY <2>2, <2>3 DEF Undisturbed
<1> QED BY <1>3, <1>4, <1>5 DEF Reader

(* and no step of the writer changes the file under a quiet reader. *)
LEMMA WriterUndisturbed ==
  IInv /\ WriterTypes /\ Stages /\ Undisturbed /\ Writer => Undisturbed'
<1> SUFFICES ASSUME IInv, WriterTypes, Stages, Undisturbed, Writer PROVE Undisturbed' OBVIOUS
<1>1. CASE ~quiet'
  BY <1>1 DEF Undisturbed
<1>2. CASE quiet'
  <2>1. UNCHANGED <<wpc, version, disk, rpc, quiet, orphan, data>>
    <3>1. ASSUME NEW n \in Lengths, NEW sync \in BOOLEAN, DoWriteStringToFile(n, sync)
          PROVE  <2>1
      BY <1>2, <3>1 DEF DoWriteStringToFile, vars, kernel, reader
    <3>2. CASE \/ AppendString \/ SyncString \/ CloseString \/ DeleteObject \/ Cleanup
               \/ SystemCall /\ UNCHANGED <<writer, reader>>
      <4>1. quiet
        BY <1>2, <3>2 DEF AppendString, SyncString, CloseString, DeleteObject, Cleanup, reader
      <4>2. wpc = "idle" /\ op = "none" BY <4>1 DEF Undisturbed, Stages
      <4> QED BY <3>2, <4>2 DEF AppendString, SyncString, CloseString, DeleteObject, Cleanup,
           IInv, Shape, SystemCall, SyncDirIfManifest, WriteRaw, WriteFails, AppendRest,
           AppendRaw, Flushed, Fdatasync, CloseFd
    <3> QED BY <3>1, <3>2 DEF Writer
  <2> QED BY <2>1 DEF Undisturbed
<1> QED BY <1>1, <1>2

(* Every step of StringFile is one of WritableFile, or leaves the file alone. *)
LEMMA StringStep == IInv /\ WriterTypes /\ [StringNext]_allvars => [Next]_vars
<1> SUFFICES ASSUME IInv, WriterTypes, [StringNext]_allvars PROVE [Next]_vars OBVIOUS
<1>1. CASE UNCHANGED allvars BY <1>1 DEF allvars
<1>2. CASE Reader BY <1>2 DEF Reader, NewSequentialFile, Read, ReadFails
<1>3. CASE Direct BY <1>3 DEF Direct
<1>4. CASE Writer
  <2>1. CASE AppendString
    <3>1. length \in 0 .. MaxBytes /\ Append1(length) BY <2>1 DEF AppendString, WriterTypes
    <3> QED BY <3>1 DEF Next, Functions
  <2>2. CASE SyncString \/ CloseString \/ DeleteObject
    <3>1. Sync \/ Close \/ UNCHANGED vars BY <2>2 DEF SyncString, CloseString, DeleteObject
    <3> QED BY <3>1 DEF Next, Functions
  <2>3. ASSUME NEW n \in Lengths, NEW sync \in BOOLEAN, DoWriteStringToFile(n, sync)
        PROVE  NewWritableFile \/ UNCHANGED vars
    BY <2>3 DEF DoWriteStringToFile
  <2>4. CASE Cleanup BY <2>4 DEF Cleanup
  <2>5. CASE SystemCall BY <2>5 DEF Next
  <2>6. NewWritableFile => Next BY DEF Next
  <2> QED BY <1>4, <2>1, <2>2, <2>3, <2>4, <2>5, <2>6 DEF Writer
<1> QED BY <1>1, <1>2, <1>3, <1>4 DEF StringNext

SInv == IInv /\ WriterTypes /\ Stages /\ Undisturbed

(* The invariant of StringFile. *)
LEMMA SInvHolds == StringSpec => []SInv
<1>1. StringInit => SInv
  <2> SUFFICES ASSUME StringInit PROVE SInv OBVIOUS
  <2>1. IInv BY StartsRight DEF StringInit
  <2>2. WriterTypes
    <3>1. length \in 0 .. MaxBytes BY WritableFileAssumption DEF StringInit
    <3>2. version \in Nat BY DEF StringInit
    <3> QED BY <3>1, <3>2 DEF StringInit, WriterTypes
  <2>3. Stages BY DEF StringInit, Init, Stages, WriteOutcome
  <2>4. Undisturbed BY DEF StringInit, Undisturbed
  <2> QED BY <2>1, <2>2, <2>3, <2>4 DEF SInv
<1>2. SInv /\ [StringNext]_allvars => SInv'
  <2> SUFFICES ASSUME SInv, [StringNext]_allvars PROVE SInv' OBVIOUS
  <2>1. IInv' BY StringStep, NextKeeps DEF SInv
  <2>2. CASE Writer BY <2>1, <2>2, WriterStages, WriterUndisturbed DEF SInv
  <2>3. CASE Reader
    <3>1. UNCHANGED <<vars, writer>> BY <2>3 DEF Reader, NewSequentialFile, Read, ReadFails
    <3>2. WriterTypes' BY <3>1 DEF SInv, WriterTypes, writer
    <3>3. Stages'
      BY <3>1 DEF SInv, Stages, WriteOutcome, Complete, writer, vars, call, kernel, history
    <3> QED BY <2>1, <2>3, <3>2, <3>3, ReaderUndisturbed DEF SInv
  <2>4. CASE Direct
    <3>1. wpc = "direct" /\ UNCHANGED <<writer, reader>> BY <2>4 DEF Direct
    <3>2. WriterTypes' BY <3>1 DEF SInv, WriterTypes, writer
    <3>3. Stages' BY <3>1 DEF Stages, writer
    <3>4. Undisturbed' BY <3>1 DEF SInv, Undisturbed, writer, reader
    <3> QED BY <2>1, <3>2, <3>3, <3>4 DEF SInv
  <2>5. CASE UNCHANGED allvars
    <3>1. WriterTypes' BY <2>5 DEF SInv, WriterTypes, allvars, writer
    <3>2. Stages'
      BY <2>5 DEF SInv, Stages, WriteOutcome, Complete, allvars, writer, vars, call, kernel, history
    <3>3. Undisturbed' BY <2>5 DEF SInv, Undisturbed, allvars, writer, reader, vars, kernel
    <3> QED BY <2>1, <3>1, <3>2, <3>3 DEF SInv
  <2> QED BY <2>2, <2>3, <2>4, <2>5 DEF StringNext
<1> QED BY <1>1, <1>2, PTL DEF StringSpec

-----------------------------------------------------------------------------
(* Theorems. *)

(* The calls of env.cc, by the writer and the reader together, use the file  *)
(* only in ways that PosixWritableFile allows: every step of StringFile is a *)
(* step of WritableFile or leaves the file alone.                            *)
THEOREM ImplementsWritableFile == StringSpec => Spec
<1>1. StringInit => Init BY DEF StringInit
<1>2. SInv /\ [StringNext]_allvars => [Next]_vars BY StringStep DEF SInv
<1> QED BY <1>1, <1>2, SInvHolds, PTL DEF StringSpec, Spec

(* For every buffer size, every order of Append, Flush, Sync and Close,      *)
(* every partial write, failure and crash: until an error is reported no     *)
(* byte given to Append is missing, repeated or moved.                       *)
THEOREM NothingIsLost == StringSpec => []NothingLost
<1>1. SInv => NothingLost BY Implied DEF SInv
<1> QED BY <1>1, SInvHolds, PTL

(* And after an error or a crash there may be a gap, but no repetition and   *)
(* no byte that overtakes another.                                           *)
THEOREM AlwaysInOrder == StringSpec => []InOrder
<1>1. SInv => InOrder BY Implied DEF SInv
<1> QED BY <1>1, SInvHolds, PTL

(* What a Sync that succeeded has covered is still in the file after every   *)
(* later failure, kill and power failure, while the file's name is there.    *)
THEOREM SyncIsKept == StringSpec => []SyncKept
<1>1. SInv => SyncKept BY Implied DEF SInv
<1> QED BY <1>1, SInvHolds, PTL

(* For every string and buffer size: DoWriteStringToFile leaves no           *)
(* descriptor open, an OK means a whole and, if asked for, synced file, and  *)
(* a file in part written stays only if it could not be deleted.             *)
THEOREM WriteOutcomeHolds == StringSpec => []WriteOutcome
<1>1. SInv => WriteOutcome BY DEF SInv, Stages, WriteOutcome
<1> QED BY <1>1, SInvHolds, PTL

(* For every file and read size: a ReadFileToString that no writer disturbs  *)
(* returns the whole file, whatever parts read(2) gives.                     *)
THEOREM ReadsWhole == StringSpec => []ReadWhole
<1>1. SInv => ReadWhole BY DEF SInv, Undisturbed, ReadWhole, Contents, Image
<1> QED BY <1>1, SInvHolds, PTL
=============================================================================
