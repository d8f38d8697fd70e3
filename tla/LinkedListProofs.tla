-------------------------- MODULE LinkedListProofs --------------------------
(***************************************************************************)
(* Crash consistency of the linked list, for every pool size and every     *)
(* number of runs.                                                         *)
(***************************************************************************)
EXTENDS LinkedList, TLAPS

(* The elements of the list are distinct and are what the allocator handed out. *)
ListShape ==
  /\ alloc = {list[i] : i \in 1 .. Len(list)}
  /\ \A i, j \in 1 .. Len(list) : i # j => list[i] # list[j]

(* What the log would restore holds the committed list, and what it would   *)
(* leave alone is on the medium already.                                    *)
Recoverable ==
  /\ IF undoRoot = NoLog
     THEN RootHolds(mem.root, list) /\ RootHolds(media.root, list)
     ELSE RootHolds(undoRoot, list)
  /\ \A i \in 1 .. Len(list) :
       IF list[i] = undoNode
       THEN undoElem = ElemAt(list, i)
       ELSE mem.elem[list[i]] = ElemAt(list, i) /\ media.elem[list[i]] = ElemAt(list, i)

AfterAddRoot == {"branch", "link_tail", "set_tail", "count", "flush", "commit"}
AfterLink == {"set_tail", "count", "flush", "commit"}
AfterAlloc == {"set_val", "add_root"} \cup AfterAddRoot

(* How far the append has got. *)
Progress ==
  /\ pc # "off" => (undoRoot # NoLog <=> pc \in AfterAddRoot)
  /\ pc \notin {"off", "link_tail"} \cup AfterLink => undoNode = NoLog
  /\ pc \in AfterAlloc \cup {"alloc"} =>
       tail = IF list = <<>> THEN Null ELSE list[Len(list)]
  /\ pc \in AfterAlloc => node \in Nodes \ alloc
  /\ pc = "set_val" => mem.elem[node] = ZeroElem
  /\ pc \in AfterAlloc \ {"set_val"} => mem.elem[node] = [val |-> 100, next |-> Null]
  /\ pc \in {"branch", "link_tail"} => RootHolds(mem.root, list)
  /\ pc = "link_tail" => undoNode = tail /\ tail # Null /\ mem.elem[tail] = ElemAt(list, Len(list))
  /\ pc \in AfterLink =>
       /\ mem.root.head = IF list = <<>> THEN node ELSE list[1]
       /\ undoNode = IF list = <<>> THEN NoLog ELSE tail
       /\ list # <<>> => mem.elem[tail] = [val |-> 100, next |-> node]
  /\ pc \in {"count", "flush", "commit"} => mem.root.tail = node
  /\ pc \in {"set_tail", "count"} => mem.root.num_elements = Len(list)
  /\ pc \in {"flush", "commit"} => mem.root.num_elements = Len(list) + 1
  /\ pc = "commit" =>
       /\ media.root = mem.root
       /\ media.elem[node] = mem.elem[node]
       /\ list # <<>> => media.elem[tail] = mem.elem[tail]

(* The inductive invariant. *)
IInv == TypeOK /\ ListShape /\ Recoverable /\ Progress

-----------------------------------------------------------------------------
(* A pool that was never opened holds the empty list. *)
LEMMA InitIInv == Init => IInv
<1> SUFFICES ASSUME Init PROVE IInv
  OBVIOUS
<1>1. Zero \in Images
  BY DEF Zero, Images, Roots, Elems, ZeroElem
<1>2. TypeOK
  BY <1>1, LinkedListAssumption DEF Init, TypeOK, Steps, ZeroElem, Elems
<1>3. ListShape
  BY DEF Init, ListShape
<1>4. Recoverable
  BY LinkedListAssumption DEF Init, Recoverable, RootHolds, Zero
<1>5. Progress
  BY DEF Init, Progress, AfterAlloc, AfterAddRoot, AfterLink
<1> QED BY <1>2, <1>3, <1>4, <1>5 DEF IInv

(* POBJ_ROOT finds the zeroed root or the one there is. *)
LEMMA GetRootStep ==
  ASSUME IInv, GetRoot
  PROVE  IInv'
<1> USE LinkedListAssumption DEF GetRoot, Goto, log, pool, IInv
<1>1. TypeOK'
  BY DEF TypeOK, Steps
<1>2. ListShape'
  BY DEF ListShape
<1>3. Recoverable'
  BY DEF Recoverable
<1>4. Progress'
  BY DEF Progress, AfterAlloc, AfterAddRoot, AfterLink
<1> QED BY <1>1, <1>2, <1>3, <1>4

(* pmemobj_mutex_lock writes only the lock word, which no part of the list is. *)
LEMMA LockStep ==
  ASSUME IInv, Lock
  PROVE  IInv'
<1> USE LinkedListAssumption DEF Lock, Goto, log, pool, IInv
<1>1. TypeOK'
  <2>1. mem.root \in Roots /\ run \in Nat
    BY DEF TypeOK, Images
  <2>2. [mem.root EXCEPT !.lock = run] \in Roots
    BY <2>1 DEF Roots
  <2>3. mem' \in Images
    BY <2>2 DEF TypeOK, Images
  <2> QED BY <2>3 DEF TypeOK, Steps
<1>2. ListShape'
  BY DEF ListShape
<1>3. Recoverable'
  <2>1. /\ mem'.root.num_elements = mem.root.num_elements /\ mem'.root.head = mem.root.head
        /\ mem'.root.tail = mem.root.tail /\ mem'.elem = mem.elem
    BY DEF TypeOK, Images, Roots
  <2> QED BY <2>1 DEF Recoverable, RootHolds
<1>4. Progress'
  BY DEF Progress, AfterAlloc, AfterAddRoot, AfterLink
<1> QED BY <1>1, <1>2, <1>3, <1>4

(* main() reads the tail of a list that no append is changing. *)
LEMMA ReadTailStep ==
  ASSUME IInv, ReadTail
  PROVE  IInv'
<1> USE LinkedListAssumption DEF ReadTail, Goto, log, pool, IInv
<1>1. TypeOK'
  BY DEF TypeOK, Steps, Images, Roots
<1>2. ListShape'
  BY DEF ListShape
<1>3. Recoverable'
  BY DEF Recoverable
<1>4. Progress'
  <2>1. tail' = IF list = <<>> THEN Null ELSE list[Len(list)]
    BY DEF Recoverable, RootHolds, Progress, AfterAddRoot
  <2> QED BY <2>1 DEF Progress, AfterAlloc, AfterAddRoot, AfterLink
<1> QED BY <1>1, <1>2, <1>3, <1>4

(* TX_ZNEW takes an element that is not in the list. *)
LEMMA NewNodeStep ==
  ASSUME IInv, NewNode
  PROVE  IInv'
<1> USE LinkedListAssumption DEF Goto, log, pool, IInv
<1>0. PICK n \in Nodes \ alloc : node' = n /\ mem' = [mem EXCEPT !.elem[n] = ZeroElem]
  BY DEF NewNode
<1>a. mem.elem \in [Nodes -> Elems] /\ ZeroElem \in Elems
  BY DEF TypeOK, Images, ZeroElem, Elems
<1>b. mem' \in Images
  BY <1>0, <1>a DEF TypeOK, Images
<1>c. /\ mem'.root = mem.root /\ mem'.elem[n] = ZeroElem
      /\ \A m \in Nodes : m # n => mem'.elem[m] = mem.elem[m]
  BY <1>0, <1>a DEF TypeOK, Images
<1>1. TypeOK'
  BY <1>0, <1>b DEF TypeOK, NewNode, Steps
<1>2. ListShape'
  BY DEF NewNode, ListShape
<1>3. Recoverable'
  <2>1. \A i \in 1 .. Len(list) : list[i] \in Nodes /\ list[i] # n
    BY <1>0 DEF TypeOK, ListShape
  <2> QED BY <1>c, <2>1 DEF NewNode, Recoverable
<1>4. Progress'
  BY <1>0, <1>c DEF NewNode, Progress, AfterAlloc, AfterAddRoot, AfterLink
<1> QED BY <1>1, <1>2, <1>3, <1>4

(* Writing the value of an element that nothing links to yet. *)
LEMMA SetValStep ==
  ASSUME IInv, SetVal
  PROVE  IInv'
<1> USE LinkedListAssumption DEF SetVal, Goto, log, pool, IInv
<1>0. node \in Nodes \ alloc /\ mem.elem[node] = ZeroElem /\ mem.elem \in [Nodes -> Elems]
  BY DEF TypeOK, Images, Progress, AfterAlloc
<1>a. [mem.elem[node] EXCEPT !.val = 100] = [val |-> 100, next |-> Null]
  BY <1>0 DEF ZeroElem
<1>b. [val |-> 100, next |-> Null] \in Elems
  BY DEF Elems
<1>c. /\ mem'.root = mem.root /\ mem'.elem[node] = [val |-> 100, next |-> Null]
      /\ \A m \in Nodes : m # node => mem'.elem[m] = mem.elem[m]
  BY <1>0, <1>a DEF TypeOK, Images
<1>1. TypeOK'
  <2>1. mem' \in Images
    BY <1>0, <1>a, <1>b DEF TypeOK, Images
  <2> QED BY <2>1 DEF TypeOK, Steps
<1>2. ListShape'
  BY DEF ListShape
<1>3. Recoverable'
  <2>1. \A i \in 1 .. Len(list) : list[i] \in Nodes /\ list[i] # node
    BY <1>0 DEF TypeOK, ListShape
  <2> QED BY <1>c, <2>1 DEF Recoverable
<1>4. Progress'
  BY <1>c DEF Progress, AfterAlloc, AfterAddRoot, AfterLink
<1> QED BY <1>1, <1>2, <1>3, <1>4

(* TX_ADD(root) saves the root of the committed list. *)
LEMMA AddRootStep ==
  ASSUME IInv, AddRoot
  PROVE  IInv'
<1> USE LinkedListAssumption DEF AddRoot, Goto, log, pool, IInv
<1>1. TypeOK'
  BY DEF TypeOK, Steps, Images
<1>2. ListShape'
  BY DEF ListShape
<1>3. Recoverable'
  <2>1. undoRoot' # NoLog /\ RootHolds(undoRoot', list)
    BY DEF TypeOK, Images, Recoverable, Progress, AfterAddRoot
  <2> QED BY <2>1 DEF Recoverable
<1>4. Progress'
  <2>1. undoRoot' # NoLog /\ RootHolds(mem.root, list)
    BY DEF TypeOK, Images, Recoverable, Progress, AfterAddRoot
  <2> QED BY <2>1 DEF Progress, AfterAlloc, AfterAddRoot, AfterLink
<1> QED BY <1>1, <1>2, <1>3, <1>4

(* TX_ADD(tail) saves the last element of the committed list. *)
LEMMA AddTailStep ==
  ASSUME IInv, AddTail
  PROVE  IInv'
<1> USE LinkedListAssumption DEF AddTail, Goto, log, pool, IInv
<1>0. /\ list # <<>> /\ Len(list) \in 1 .. Len(list) /\ tail = list[Len(list)]
      /\ undoNode = NoLog /\ \A i \in 1 .. Len(list) : list[i] \in Nodes
  BY DEF TypeOK, Progress, AfterAlloc, AfterAddRoot, AfterLink
<1>a. mem.elem[tail] = ElemAt(list, Len(list))
  BY <1>0 DEF Recoverable
<1>1. TypeOK'
  BY DEF TypeOK, Steps, Images
<1>2. ListShape'
  BY DEF ListShape
<1>3. Recoverable'
  <2>1. ASSUME NEW i \in 1 .. Len(list), list[i] = tail
        PROVE  i = Len(list)
    BY <1>0, <2>1 DEF ListShape
  <2> QED BY <1>0, <1>a, <2>1 DEF Recoverable
<1>4. Progress'
  BY <1>a DEF Progress, AfterAlloc, AfterAddRoot, AfterLink
<1> QED BY <1>1, <1>2, <1>3, <1>4

(* Linking the new element changes only an element that is in the log. *)
LEMMA LinkTailStep ==
  ASSUME IInv, LinkTail
  PROVE  IInv'
<1> USE LinkedListAssumption DEF LinkTail, Goto, log, pool, IInv
<1>0. /\ tail \in Nodes /\ node \in Nodes \ alloc /\ undoNode = tail /\ list # <<>>
      /\ tail = list[Len(list)] /\ mem.elem[tail] = ElemAt(list, Len(list))
      /\ mem.elem \in [Nodes -> Elems]
  BY DEF TypeOK, Images, Progress, AfterAlloc, AfterAddRoot
<1>a. [mem.elem[tail] EXCEPT !.next = node] = [val |-> 100, next |-> node]
  BY <1>0 DEF ElemAt
<1>b. [val |-> 100, next |-> node] \in Elems
  BY <1>0 DEF Elems
<1>c. /\ mem'.root = mem.root /\ mem'.elem[tail] = [val |-> 100, next |-> node]
      /\ \A m \in Nodes : m # tail => mem'.elem[m] = mem.elem[m]
  BY <1>0, <1>a DEF TypeOK, Images
<1>1. TypeOK'
  <2>1. mem' \in Images
    BY <1>0, <1>a, <1>b DEF TypeOK, Images
  <2> QED BY <2>1 DEF TypeOK, Steps
<1>2. ListShape'
  BY DEF ListShape
<1>3. Recoverable'
  <2>1. \A i \in 1 .. Len(list) : list[i] \in Nodes
    BY DEF TypeOK
  <2> QED BY <1>0, <1>c, <2>1 DEF Recoverable
<1>4. Progress'
  <2>1. node # tail /\ mem.root.head = list[1] /\ mem.root.num_elements = Len(list)
    <3>1. tail \in alloc
      BY <1>0 DEF TypeOK, ListShape
    <3> QED BY <1>0, <3>1 DEF Progress, RootHolds
  <2> QED BY <1>0, <1>c, <2>1 DEF Progress, AfterAlloc, AfterAddRoot, AfterLink
<1> QED BY <1>1, <1>2, <1>3, <1>4

(* The head changes only with the root in the log. *)
LEMMA SetHeadStep ==
  ASSUME IInv, SetHead
  PROVE  IInv'
<1> USE LinkedListAssumption DEF SetHead, Goto, log, pool, IInv
<1>0. mem.root \in Roots /\ undoRoot # NoLog /\ node \in Nodes
  BY DEF TypeOK, Images, Progress, AfterAlloc, AfterAddRoot
<1>a. [mem.root EXCEPT !.head = node] \in Roots
  BY <1>0 DEF Roots
<1>b. mem' = [mem EXCEPT !.root = [mem.root EXCEPT !.head = node]]
  OBVIOUS
<1>c. /\ mem' \in Images /\ mem'.elem = mem.elem
      /\ mem'.root = [mem.root EXCEPT !.head = node]
  BY <1>a, <1>b DEF TypeOK, Images
<1>d. /\ mem'.root.head = node /\ mem'.root.tail = mem.root.tail
      /\ mem'.root.num_elements = mem.root.num_elements
  BY <1>0, <1>c DEF Roots
<1>1. TypeOK'
  BY <1>c DEF TypeOK, Steps
<1>2. ListShape'
  BY DEF ListShape
<1>3. Recoverable'
  BY <1>0, <1>c DEF Recoverable
<1>4. Progress'
  <2>1. list = <<>> /\ mem.root.num_elements = Len(list) /\ undoNode = NoLog
    BY DEF TypeOK, Progress, RootHolds, AfterAlloc, AfterAddRoot, AfterLink
  <2> QED BY <1>c, <1>d, <2>1 DEF Progress, AfterAlloc, AfterAddRoot, AfterLink
<1> QED BY <1>1, <1>2, <1>3, <1>4

(* The tail changes only with the root in the log. *)
LEMMA SetTailStep ==
  ASSUME IInv, SetTail
  PROVE  IInv'
<1> USE LinkedListAssumption DEF SetTail, Goto, log, pool, IInv
<1>0. mem.root \in Roots /\ undoRoot # NoLog /\ node \in Nodes
  BY DEF TypeOK, Images, Progress, AfterAlloc, AfterAddRoot
<1>a. [mem.root EXCEPT !.tail = node] \in Roots
  BY <1>0 DEF Roots
<1>b. mem' = [mem EXCEPT !.root = [mem.root EXCEPT !.tail = node]]
  OBVIOUS
<1>c. /\ mem' \in Images /\ mem'.elem = mem.elem
      /\ mem'.root = [mem.root EXCEPT !.tail = node]
  BY <1>a, <1>b DEF TypeOK, Images
<1>d. /\ mem'.root.tail = node /\ mem'.root.head = mem.root.head
      /\ mem'.root.num_elements = mem.root.num_elements
  BY <1>0, <1>c DEF Roots
<1>1. TypeOK'
  BY <1>c DEF TypeOK, Steps
<1>2. ListShape'
  BY DEF ListShape
<1>3. Recoverable'
  BY <1>0, <1>c DEF Recoverable
<1>4. Progress'
  BY <1>c, <1>d DEF Progress, AfterAlloc, AfterAddRoot, AfterLink
<1> QED BY <1>1, <1>2, <1>3, <1>4

(* The count changes only with the root in the log. *)
LEMMA CountElementStep ==
  ASSUME IInv, CountElement
  PROVE  IInv'
<1> USE LinkedListAssumption DEF CountElement, Goto, log, pool, IInv
<1>0. mem.root \in Roots /\ undoRoot # NoLog
  BY DEF TypeOK, Images, Progress, AfterAddRoot
<1>a. [mem.root EXCEPT !.num_elements = @ + 1] \in Roots
  BY <1>0 DEF Roots
<1>b. mem' = [mem EXCEPT !.root = [mem.root EXCEPT !.num_elements = @ + 1]]
  OBVIOUS
<1>c. /\ mem' \in Images /\ mem'.elem = mem.elem
      /\ mem'.root = [mem.root EXCEPT !.num_elements = @ + 1]
  BY <1>a, <1>b DEF TypeOK, Images
<1>d. /\ mem'.root.tail = mem.root.tail /\ mem'.root.head = mem.root.head
      /\ mem'.root.num_elements = mem.root.num_elements + 1
  BY <1>0, <1>c DEF Roots
<1>1. TypeOK'
  BY <1>c DEF TypeOK, Steps
<1>2. ListShape'
  BY DEF ListShape
<1>3. Recoverable'
  BY <1>0, <1>c DEF Recoverable
<1>4. Progress'
  BY <1>c, <1>d DEF Progress, AfterAlloc, AfterAddRoot, AfterLink
<1> QED BY <1>1, <1>2, <1>3, <1>4

(* After the flush the medium holds the new list, and the log still the old one. *)
LEMMA CommitFlushStep ==
  ASSUME IInv, CommitFlush
  PROVE  IInv'
<1> USE LinkedListAssumption DEF CommitFlush, Goto, log, pool, IInv
<1>0. /\ node \in Nodes \ alloc /\ undoRoot # NoLog /\ mem \in Images /\ media \in Images
      /\ list # <<>> => undoNode = tail /\ tail \in Nodes
  BY DEF TypeOK, Progress, AfterAlloc, AfterAddRoot, AfterLink
<1>a. /\ media'.root = mem.root
      /\ \A n \in Nodes :
           media'.elem[n] = IF n \in {node, undoNode} THEN mem.elem[n] ELSE media.elem[n]
  BY <1>0
<1>1. TypeOK'
  <2>1. media' \in Images
    BY <1>0 DEF Images
  <2> QED BY <2>1 DEF TypeOK, Steps
<1>2. ListShape'
  BY DEF ListShape
<1>3. Recoverable'
  <2>1. \A i \in 1 .. Len(list) : list[i] \in Nodes /\ list[i] # node
    BY <1>0 DEF TypeOK, ListShape
  <2> QED BY <1>0, <1>a, <2>1 DEF Recoverable
<1>4. Progress'
  BY <1>0, <1>a DEF Progress, AfterAlloc, AfterAddRoot, AfterLink
<1> QED BY <1>1, <1>2, <1>3, <1>4

(* Dropping the log makes the new list the committed one. *)
LEMMA CommitPointStep ==
  ASSUME IInv, CommitPoint
  PROVE  IInv'
<1> USE LinkedListAssumption DEF CommitPoint, ClearLog, Goto, log, pool, IInv
<1>1. TypeOK'
  <2>1. node \in Nodes
    BY DEF TypeOK, Progress, AfterAlloc, AfterAddRoot
  <2> QED BY <2>1 DEF TypeOK, Steps
<1>0. node \in Nodes \ alloc /\ list \in Seq(Nodes) /\ Len(list) \in Nat
  BY DEF TypeOK, Progress, AfterAlloc, AfterAddRoot
<1>a. /\ Len(list') = Len(list) + 1 /\ list' # <<>>
      /\ list'[Len(list) + 1] = node
      /\ \A i \in 1 .. Len(list) : list'[i] = list[i]
  BY <1>0
<1>2. ListShape'
  <2>1. \A i \in 1 .. Len(list) : list[i] \in alloc
    BY DEF ListShape
  <2>2. \A i, j \in 1 .. Len(list') : i # j => list'[i] # list'[j]
    BY <1>0, <1>a, <2>1 DEF ListShape
  <2>3. alloc' = {list'[i] : i \in 1 .. Len(list')}
    BY <1>0, <1>a DEF ListShape
  <2> QED BY <2>2, <2>3 DEF ListShape
<1>3. Recoverable'
  <2>1. RootHolds(mem'.root, list') /\ RootHolds(media'.root, list')
    BY <1>0, <1>a DEF TypeOK, Progress, RootHolds, AfterLink
  <2>2. ASSUME NEW i \in 1 .. Len(list')
        PROVE  mem.elem[list'[i]] = ElemAt(list', i) /\ media.elem[list'[i]] = ElemAt(list', i)
    <3>1. CASE i = Len(list) + 1
      BY <1>0, <1>a, <3>1 DEF Progress, ElemAt, AfterAlloc, AfterAddRoot
    <3>2. CASE i = Len(list) /\ i > 0
      <4>1. list # <<>> /\ list'[i] = tail
        BY <1>0, <1>a, <3>2 DEF Progress, AfterAlloc, AfterAddRoot
      <4>2. mem.elem[tail] = [val |-> 100, next |-> node] /\ media.elem[tail] = mem.elem[tail]
        BY <4>1 DEF Progress, AfterLink
      <4> QED BY <1>0, <1>a, <3>2, <4>1, <4>2 DEF ElemAt
    <3>3. CASE i < Len(list)
      <4>1. i \in 1 .. Len(list) /\ list'[i] = list[i] /\ list # <<>>
        BY <1>0, <1>a, <3>3
      <4>2. list[i] # undoNode
        BY <1>0, <3>3, <4>1 DEF Progress, AfterLink, AfterAlloc, AfterAddRoot, ListShape
      <4>3. ElemAt(list', i) = ElemAt(list, i)
        BY <1>0, <1>a, <3>3, <4>1 DEF ElemAt
      <4> QED BY <4>1, <4>2, <4>3 DEF Recoverable
    <3> QED BY <1>0, <1>a, <3>1, <3>2, <3>3
  <2> QED BY <1>1, <2>1, <2>2 DEF TypeOK, Recoverable
<1>4. Progress'
  BY DEF TypeOK, Progress, AfterAlloc, AfterAddRoot, AfterLink
<1> QED BY <1>1, <1>2, <1>3, <1>4

(* An abort applies the log: the committed list is back. *)
LEMMA AbortTxStep ==
  ASSUME IInv, AbortTx
  PROVE  IInv'
<1> USE LinkedListAssumption DEF AbortTx, ClearLog, RolledBack, Goto, IInv
<1>1. TypeOK'
  <2>1. mem' \in Images /\ media' \in Images
    BY DEF TypeOK, Images
  <2> QED BY <2>1 DEF TypeOK, Steps
<1>2. ListShape'
  BY DEF ListShape
<1>3. Recoverable'
  BY DEF TypeOK, Recoverable
<1>4. Progress'
  BY DEF TypeOK, Progress, AfterAlloc, AfterAddRoot, AfterLink
<1> QED BY <1>1, <1>2, <1>3, <1>4

(* pmemobj_mutex_unlock writes only the lock word. *)
LEMMA UnlockStep ==
  ASSUME IInv, Unlock
  PROVE  IInv'
<1> USE LinkedListAssumption DEF Unlock, Goto, log, pool, IInv
<1>1. TypeOK'
  <2>1. mem.root \in Roots
    BY DEF TypeOK, Images
  <2>2. [mem.root EXCEPT !.lock = 0] \in Roots
    BY <2>1 DEF Roots
  <2>3. mem' \in Images
    BY <2>2 DEF TypeOK, Images
  <2> QED BY <2>1, <2>3 DEF TypeOK, Steps, Roots
<1>2. ListShape'
  BY DEF ListShape
<1>3. Recoverable'
  <2>1. /\ mem'.root.num_elements = mem.root.num_elements /\ mem'.root.head = mem.root.head
        /\ mem'.root.tail = mem.root.tail /\ mem'.elem = mem.elem
    BY DEF TypeOK, Images, Roots
  <2> QED BY <2>1 DEF Recoverable, RootHolds
<1>4. Progress'
  BY DEF Progress, AfterAlloc, AfterAddRoot, AfterLink
<1> QED BY <1>1, <1>2, <1>3, <1>4

(* The scan changes nothing in the pool. *)
LEMMA ScanNextStep ==
  ASSUME IInv, ScanNext
  PROVE  IInv'
<1> USE LinkedListAssumption DEF ScanNext, Goto, log, pool, IInv
<1>1. TypeOK'
  BY DEF TypeOK, Images, Elems
<1>2. ListShape'
  BY DEF ListShape
<1>3. Recoverable'
  BY DEF Recoverable
<1>4. Progress'
  BY DEF Progress, AfterAlloc, AfterAddRoot, AfterLink
<1> QED BY <1>1, <1>2, <1>3, <1>4

(* Nor does its end. *)
LEMMA ScanEndStep ==
  ASSUME IInv, ScanEnd
  PROVE  IInv'
<1> USE LinkedListAssumption DEF ScanEnd, Goto, log, pool, IInv
<1>1. TypeOK'
  BY DEF TypeOK, Steps
<1>2. ListShape'
  BY DEF ListShape
<1>3. Recoverable'
  BY DEF Recoverable
<1>4. Progress'
  BY DEF Progress, AfterAlloc, AfterAddRoot, AfterLink
<1> QED BY <1>1, <1>2, <1>3, <1>4

(* Closing leaves the pool and the cache as they are. *)
LEMMA CloseAndCheckStep ==
  ASSUME IInv, CloseAndCheck
  PROVE  IInv'
<1> USE LinkedListAssumption DEF CloseAndCheck, Goto, log, pool, IInv
<1>1. TypeOK'
  BY DEF TypeOK, Steps
<1>2. ListShape'
  BY DEF ListShape
<1>3. Recoverable'
  BY DEF Recoverable
<1>4. Progress'
  BY DEF Progress, AfterAlloc, AfterAddRoot, AfterLink
<1> QED BY <1>1, <1>2, <1>3, <1>4

(* A killed program leaves its log, if it has one, for the next open. *)
LEMMA KillStep ==
  ASSUME IInv, Kill
  PROVE  IInv'
<1> USE LinkedListAssumption DEF Kill, Goto, log, pool, IInv
<1>1. TypeOK'
  BY DEF TypeOK, Steps
<1>2. ListShape'
  BY DEF ListShape
<1>3. Recoverable'
  BY DEF Recoverable
<1>4. Progress'
  BY DEF Progress, AfterAlloc, AfterAddRoot, AfterLink
<1> QED BY <1>1, <1>2, <1>3, <1>4

(* pmemobj_open applies the log it finds. *)
LEMMA OpenStep ==
  ASSUME IInv, Open
  PROVE  IInv'
<1> USE LinkedListAssumption DEF Open, RolledBack, ClearLog, Goto, IInv
<1>1. TypeOK'
  <2>1. mem' \in Images /\ media' \in Images
    BY DEF TypeOK, Images
  <2> QED BY <2>1 DEF TypeOK, Steps
<1>2. ListShape'
  BY DEF ListShape
<1>3. Recoverable'
  BY DEF TypeOK, Recoverable
<1>4. Progress'
  BY DEF TypeOK, Progress, AfterAlloc, AfterAddRoot, AfterLink
<1> QED BY <1>1, <1>2, <1>3, <1>4

(* A word of a torn image is the cached or the stored one. *)
LEMMA TornWords ==
  ASSUME NEW a \in Images, NEW b \in Images, NEW image \in Torn(a, b)
  PROVE  /\ image \in Images
         /\ image.root.num_elements \in {a.root.num_elements, b.root.num_elements}
         /\ image.root.head \in {a.root.head, b.root.head}
         /\ image.root.tail \in {a.root.tail, b.root.tail}
         /\ \A n \in Nodes : a.elem[n] = b.elem[n] => image.elem[n] = a.elem[n]
<1>1. PICK r \in TornRoots(a, b), v \in SUBSET Nodes, x \in SUBSET Nodes :
        image = [root |-> r, elem |-> TornElem(a, b, v, x)]
  BY DEF Torn
<1>2. r \in Roots
  BY <1>1 DEF TornRoots, Images, Roots
<1>3. image.elem \in [Nodes -> Elems]
  BY <1>1 DEF TornElem, Images, Elems
<1>4. \A n \in Nodes : a.elem[n] = b.elem[n] => image.elem[n] = a.elem[n]
  BY <1>1 DEF TornElem, Images, Elems
<1> QED BY <1>1, <1>2, <1>3, <1>4 DEF TornRoots, Images

(* Any mixture of old and new words is covered by the log. *)
LEMMA PowerFailureStep ==
  ASSUME IInv, PowerFailure
  PROVE  IInv'
<1> USE LinkedListAssumption DEF PowerFailure, log, IInv
<1>0. mem \in Images /\ media \in Images
  BY DEF TypeOK
<1>1. TypeOK'
  BY <1>0, TornWords DEF TypeOK, Steps
<1>2. ListShape'
  BY DEF ListShape
<1>3. Recoverable'
  <2>1. undoRoot = NoLog => RootHolds(media'.root, list)
    BY <1>0, TornWords DEF Recoverable, RootHolds
  <2>2. \A i \in 1 .. Len(list) : list[i] # undoNode => media'.elem[list[i]] = ElemAt(list, i)
    BY <1>0, TornWords DEF TypeOK, Recoverable
  <2> QED BY <2>1, <2>2 DEF Recoverable
<1>4. Progress'
  BY DEF Progress, AfterAlloc, AfterAddRoot, AfterLink
<1> QED BY <1>1, <1>2, <1>3, <1>4

(* Every step of the program, every kill and every power failure keeps the invariant. *)
LEMMA NextIInv == IInv /\ [Next]_vars => IInv'
<1> SUFFICES ASSUME IInv, [Next]_vars PROVE IInv'
  OBVIOUS
<1>1. CASE Append1
  BY <1>1, NewNodeStep, SetValStep, AddRootStep, AddTailStep, LinkTailStep, SetHeadStep,
     SetTailStep, CountElementStep, CommitFlushStep, CommitPointStep, AbortTxStep DEF Append1
<1>2. CASE Main
  BY <1>1, <1>2, GetRootStep, LockStep, ReadTailStep, UnlockStep, ScanNextStep, ScanEndStep,
     CloseAndCheckStep DEF Main
<1>3. CASE Open \/ Kill \/ PowerFailure
  BY <1>3, OpenStep, KillStep, PowerFailureStep
<1>4. CASE UNCHANGED vars
  BY <1>4 DEF vars, pool, log, IInv, TypeOK, ListShape, Recoverable, Progress
<1> QED BY <1>2, <1>3, <1>4 DEF Next

(* The invariant holds throughout. *)
THEOREM Invariance == Spec => []IInv
BY InitIInv, NextIInv, PTL DEF Spec

(* Type correctness of the pool, the log and main()'s variables. *)
THEOREM TypeCorrect == Spec => []TypeOK
<1>1. IInv => TypeOK
  BY DEF IInv
<1> QED BY <1>1, Invariance, PTL

(* Outside an append the list is exactly the committed one. *)
THEOREM Consistency == Spec => []ListConsistent
<1>1. IInv => ListConsistent
  BY LinkedListAssumption DEF IInv, TypeOK, ListConsistent, ListShape, Recoverable, Progress,
     Holds, Quiescent, AfterAddRoot, AfterLink
<1> QED BY <1>1, Invariance, PTL

(* A power failure at any step recovers to the committed list. *)
THEOREM CrashSafety == Spec => []CrashSafe
<1>1. IInv => CrashSafe
  <2> SUFFICES ASSUME IInv, NEW image \in Torn(mem, media)
               PROVE  Holds(RolledBack(image), list)
    BY DEF CrashSafe
  <2>1. mem \in Images /\ media \in Images
    BY DEF IInv, TypeOK
  <2>2. RootHolds(RolledBack(image).root, list)
    BY <2>1, TornWords DEF IInv, Recoverable, RolledBack, RootHolds
  <2>3. ASSUME NEW i \in 1 .. Len(list)
        PROVE  RolledBack(image).elem[list[i]] = ElemAt(list, i)
    <3>1. list[i] \in Nodes
      BY DEF IInv, TypeOK
    <3> QED BY <2>1, <3>1, TornWords DEF IInv, Recoverable, RolledBack
  <2> QED BY <2>2, <2>3 DEF Holds
<1> QED BY <1>1, Invariance, PTL
=============================================================================
