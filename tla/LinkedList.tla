----------------------------- MODULE LinkedList -----------------------------
(***************************************************************************)
(* example/linked_list.c: a program that opens (or creates) a persistent   *)
(* pool, appends one node to the list it holds in a libpmemobj             *)
(* transaction, prints the list and closes the pool; run again and again,  *)
(* with a power failure possible between any two steps.                    *)
(*                                                                         *)
(* A store to persistent memory lands in the cache (mem) and reaches the   *)
(* medium (media) at any later time unless something flushes it, so after  *)
(* a failure every word that was not flushed holds its old or its new      *)
(* value.  TX_ADD saves an object in the undo log on the medium; commit    *)
(* flushes the objects added and the objects allocated, then drops the     *)
(* log; the next pmemobj_open applies a log it finds.  libpmemobj is       *)
(* modelled from what the program asks of it.                              *)
(***************************************************************************)
EXTENDS Integers, Sequences

CONSTANTS
  Nodes,     \* the list_elem objects the pool has room for
  Null,      \* the null TOID
  NoLog,     \* "not in the undo log"
  MaxRuns    \* bound: how often the program is run

Roots == [lock : Nat, num_elements : Nat,
          head : Nodes \cup {Null}, tail : Nodes \cup {Null}]
Elems == [val : {0, 100}, next : Nodes \cup {Null}]
Images == [root : Roots, elem : [Nodes -> Elems]]

ASSUME LinkedListAssumption ==
  Null \notin Nodes /\ NoLog \notin Roots /\ NoLog \notin Nodes /\ MaxRuns \in Nat

VARIABLES
  pc,          \* where main() is; "off" when the program is not running
  run,         \* the pool's run id, renewed by each open
  mem, media,  \* the pool as the program sees it, and as the medium holds it
  undoRoot,    \* the undo log: the saved list_head, or NoLog
  undoNode, undoElem,  \* the saved list_elem (NoLog if none) and its contents
  alloc,       \* the elements the pool's allocator has handed out for good
  tail, node,  \* main()'s local variables
  tmp,         \* the scan's cursor
  list         \* history: the elements whose append has committed, in order

log == <<undoRoot, undoNode, undoElem>>
pool == <<mem, media, log, alloc, list>>
vars == <<pc, run, pool, tail, node, tmp>>

ZeroElem == [val |-> 0, next |-> Null]
Zero == [root |-> [lock |-> 0, num_elements |-> 0, head |-> Null, tail |-> Null],
         elem |-> [n \in Nodes |-> ZeroElem]]

Steps == {"off", "root", "lock", "begin", "alloc", "set_val", "add_root", "branch",
          "link_tail", "set_head", "set_tail", "count", "flush", "commit",
          "unlock", "scan", "close"}

TypeOK ==
  /\ pc \in Steps
  /\ run \in 0 .. MaxRuns
  /\ mem \in Images
  /\ media \in Images
  /\ undoRoot \in Roots \cup {NoLog}
  /\ undoNode \in Nodes \cup {NoLog}
  /\ undoElem \in Elems
  /\ alloc \subseteq Nodes
  /\ tail \in Nodes \cup {Null}
  /\ node \in Nodes \cup {Null}
  /\ tmp \in Nodes \cup {Null}
  /\ list \in Seq(Nodes)

Init ==
  /\ pc = "off"
  /\ run = 0
  /\ mem = Zero
  /\ media = Zero
  /\ undoRoot = NoLog
  /\ undoNode = NoLog
  /\ undoElem = ZeroElem
  /\ alloc = {}
  /\ tail = Null
  /\ node = Null
  /\ tmp = Null
  /\ list = <<>>

-----------------------------------------------------------------------------
(* The undo log applied to a pool image. *)
RolledBack(image) ==
  [root |-> IF undoRoot = NoLog THEN image.root ELSE undoRoot,
   elem |-> [n \in Nodes |-> IF n = undoNode THEN undoElem ELSE image.elem[n]]]

ClearLog == undoRoot' = NoLog /\ undoNode' = NoLog /\ UNCHANGED undoElem

Goto(from, to) == pc = from /\ pc' = to

(* pmemobj_open recovers; a missing pool is created with zeroed contents. *)
Open ==
  /\ Goto("off", "root")
  /\ run < MaxRuns
  /\ run' = run + 1
  /\ mem' = RolledBack(mem)
  /\ media' = RolledBack(media)
  /\ ClearLog
  /\ UNCHANGED <<alloc, tail, node, tmp, list>>

(* POBJ_ROOT: the zeroed root is allocated atomically on first use. *)
GetRoot ==
  /\ Goto("root", "lock")
  /\ UNCHANGED <<run, pool, tail, node, tmp>>

(* A PMEMmutex locked under another run id counts as free. *)
Lock ==
  /\ Goto("lock", "begin")
  /\ mem.root.lock # run
  /\ mem' = [mem EXCEPT !.root.lock = run]
  /\ UNCHANGED <<run, media, log, alloc, list, tail, node, tmp>>

ReadTail ==
  /\ Goto("begin", "alloc")
  /\ tail' = mem.root.tail
  /\ UNCHANGED <<run, pool, node, tmp>>

(* TX_ZNEW: the element is reserved; it is handed out for good at commit. *)
NewNode ==
  /\ Goto("alloc", "set_val")
  /\ \E n \in Nodes \ alloc :
       /\ node' = n
       /\ mem' = [mem EXCEPT !.elem[n] = ZeroElem]
  /\ UNCHANGED <<run, media, log, alloc, list, tail, tmp>>

SetVal ==
  /\ Goto("set_val", "add_root")
  /\ mem' = [mem EXCEPT !.elem[node].val = 100]
  /\ UNCHANGED <<run, media, log, alloc, list, tail, node, tmp>>

AddRoot ==
  /\ Goto("add_root", "branch")
  /\ undoRoot' = mem.root
  /\ UNCHANGED <<run, mem, media, undoNode, undoElem, alloc, list, tail, node, tmp>>

(* Bug: TX_ADD(tail) is forgotten. *)
AddTailForgotten ==
  /\ Goto("branch", "link_tail")
  /\ tail # Null
  /\ UNCHANGED <<run, pool, tail, node, tmp>>

(* The branch taken when the list is not empty: TX_ADD(tail), link. *)
AddTail ==
  /\ Goto("branch", "link_tail")
  /\ tail # Null
  /\ undoNode' = tail
  /\ undoElem' = mem.elem[tail]
  /\ UNCHANGED <<run, mem, media, undoRoot, alloc, list, tail, node, tmp>>

LinkTail ==
  /\ Goto("link_tail", "set_tail")
  /\ mem' = [mem EXCEPT !.elem[tail].next = node]
  /\ UNCHANGED <<run, media, log, alloc, list, tail, node, tmp>>

SetHead ==
  /\ Goto("branch", "set_tail")
  /\ tail = Null
  /\ mem' = [mem EXCEPT !.root.head = node]
  /\ UNCHANGED <<run, media, log, alloc, list, tail, node, tmp>>

(* Bug: the root's tail is left behind. *)
SetTailForgotten ==
  /\ Goto("set_tail", "count")
  /\ UNCHANGED <<run, pool, tail, node, tmp>>

SetTail ==
  /\ Goto("set_tail", "count")
  /\ mem' = [mem EXCEPT !.root.tail = node]
  /\ UNCHANGED <<run, media, log, alloc, list, tail, node, tmp>>

CountElement ==
  /\ Goto("count", "flush")
  /\ mem' = [mem EXCEPT !.root.num_elements = @ + 1]
  /\ UNCHANGED <<run, media, log, alloc, list, tail, node, tmp>>

(* TX_END, first half: everything the transaction covers is flushed. *)
CommitFlush ==
  /\ Goto("flush", "commit")
  /\ media' = [root |-> IF undoRoot = NoLog THEN media.root ELSE mem.root,
               elem |-> [n \in Nodes |->
                 IF n \in {node, undoNode} THEN mem.elem[n] ELSE media.elem[n]]]
  /\ UNCHANGED <<run, mem, log, alloc, list, tail, node, tmp>>

(* TX_END, second half: the log is dropped and the allocation published. *)
CommitPoint ==
  /\ Goto("commit", "unlock")
  /\ ClearLog
  /\ alloc' = alloc \cup {node}
  /\ list' = Append(list, node)
  /\ UNCHANGED <<run, mem, media, tail, node, tmp>>

(* TX_ZNEW or TX_ADD fails for want of space: the log is applied, the       *)
(* element given back, and main() goes on behind TX_END.                    *)
AbortTx ==
  /\ pc \in {"alloc", "add_root", "branch"}
  /\ pc' = "unlock"
  /\ mem' = RolledBack(mem)
  /\ media' = RolledBack(media)
  /\ ClearLog
  /\ UNCHANGED <<run, alloc, list, tail, node, tmp>>

Unlock ==
  /\ Goto("unlock", "scan")
  /\ mem' = [mem EXCEPT !.root.lock = 0]
  /\ tmp' = mem.root.head
  /\ UNCHANGED <<run, media, log, alloc, list, tail, node>>

ScanNext ==
  /\ pc = "scan"
  /\ tmp # Null
  /\ tmp' = mem.elem[tmp].next
  /\ UNCHANGED <<pc, run, pool, tail, node>>

ScanEnd ==
  /\ Goto("scan", "close")
  /\ tmp = Null
  /\ UNCHANGED <<run, pool, tail, node, tmp>>

(* pmemobj_close and pmemobj_check: what was not flushed stays in the cache. *)
CloseAndCheck ==
  /\ Goto("close", "off")
  /\ UNCHANGED <<run, pool, tail, node, tmp>>

(* The images a failure can leave: each word is the cached (a) or the       *)
(* stored (b) one.                                                          *)
TornRoots(a, b) ==
  [lock : {a.root.lock, b.root.lock},
   num_elements : {a.root.num_elements, b.root.num_elements},
   head : {a.root.head, b.root.head}, tail : {a.root.tail, b.root.tail}]

TornElem(a, b, v, x) ==
  [n \in Nodes |-> [val |-> IF n \in v THEN a.elem[n].val ELSE b.elem[n].val,
                    next |-> IF n \in x THEN a.elem[n].next ELSE b.elem[n].next]]

Torn(a, b) ==
  {[root |-> r, elem |-> TornElem(a, b, v, x)] :
     r \in TornRoots(a, b), v \in SUBSET Nodes, x \in SUBSET Nodes}

(* The program is killed: the cache survives. *)
Kill ==
  /\ pc # "off"
  /\ pc' = "off"
  /\ UNCHANGED <<run, pool, tail, node, tmp>>

PowerFailure ==
  /\ pc' = "off"
  /\ media' \in Torn(mem, media)
  /\ mem' = media'
  /\ UNCHANGED <<run, log, alloc, list, tail, node, tmp>>

Append1 ==
  \/ NewNode \/ SetVal \/ AddRoot \/ AddTail \/ LinkTail \/ SetHead \/ SetTail
  \/ CountElement \/ CommitFlush \/ CommitPoint \/ AbortTx

Main ==
  \/ GetRoot \/ Lock \/ ReadTail \/ Append1
  \/ Unlock \/ ScanNext \/ ScanEnd \/ CloseAndCheck

Next == Open \/ Main \/ Kill \/ PowerFailure

Spec == Init /\ [][Next]_vars

-----------------------------------------------------------------------------
(* Properties. *)

(* The root of a list l, the contents of its i-th element, and an image     *)
(* that holds exactly the elements of l, linked in order.                   *)
RootHolds(root, l) ==
  /\ root.num_elements = Len(l)
  /\ root.head = IF l = <<>> THEN Null ELSE l[1]
  /\ root.tail = IF l = <<>> THEN Null ELSE l[Len(l)]

ElemAt(l, i) == [val |-> 100, next |-> IF i = Len(l) THEN Null ELSE l[i + 1]]

Holds(image, l) ==
  /\ RootHolds(image.root, l)
  /\ \A i \in 1 .. Len(l) : image.elem[l[i]] = ElemAt(l, i)

Quiescent == {"root", "lock", "begin", "unlock", "scan", "close"}

(* Whenever no append is under way, after a normal end, an abort or a       *)
(* recovery, the list holds every committed element, once, in order, its    *)
(* count and its tail agree with the chain, and no element is leaked.       *)
ListConsistent ==
  pc \in Quiescent =>
    /\ Holds(mem, list)
    /\ alloc = {list[i] : i \in 1 .. Len(list)}
    /\ \A i, j \in 1 .. Len(list) : i # j => list[i] # list[j]

(* A power failure right now, the program running or not, loses no committed *)
(* element and shows no part of an uncommitted one, whatever part of the     *)
(* cache had reached the medium.                                             *)
CrashSafe ==
  \A image \in Torn(mem, media) : Holds(RolledBack(image), list)
=============================================================================
