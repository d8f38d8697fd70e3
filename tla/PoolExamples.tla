---------------------------- MODULE PoolExamples ----------------------------
(***************************************************************************)
(* The small programs of example/ (create_pool, declare_toid,              *)
(* alloc_root_object, alloc_by_pmemoid, alloc_by_toid), run one after      *)
(* another, in any order, on one pool file: they all use the layout        *)
(* "linkedlist".  A program is the sequence of libpmemobj calls its main() *)
(* makes; it can be killed, or the power can fail, between any two of      *)
(* them and inside the constructor of an allocation.                       *)
(*                                                                         *)
(* libpmemobj is modelled from what the programs ask of it.  An allocation *)
(* runs the constructor on a block that is only reserved and publishes it  *)
(* afterwards; a call that fails leaves its handle as it was; freeing the  *)
(* root does not make the pool forget where the root is; what freeing a    *)
(* block twice, or through an uninitialised handle, does to a pool is not  *)
(* defined.                                                                *)
(***************************************************************************)
EXTENDS Integers, Sequences, FiniteSets

CONSTANTS
  Objs,        \* the blocks the pool has room for
  Null,        \* OID_NULL
  Garbage,     \* what an uninitialised handle holds
  MaxRuns,     \* bound: how many programs are started
  MaxCrashes   \* bound: how many of them are killed or lose power

ASSUME PoolAssumption ==
  Null \notin Objs /\ Garbage \notin Objs /\ Null # Garbage /\ MaxRuns \in Nat /\ MaxCrashes \in Nat

VARIABLES
  todo,        \* the calls main() has still to make; <<>> when nothing runs
  exists,      \* whether there is a pool at the path
  heap,        \* what each block is: "free", "root" or "elem"
  mem, media,  \* the content of each block in the cache and on the medium
  rootOff,     \* where the pool's header says the root is
  root, elem,  \* main()'s two handles
  damaged,     \* whether a handle was freed that is not its object's any more
  runs, crashes,  \* the programs started, and those cut short by a crash
  lost,        \* history: the elements whose owner was cut short
  rootFrees, failedNew  \* history: POBJ_FREE(&root) calls; a POBJ_NEW that failed

handles == <<root, elem>>
content == <<mem, media>>
history == <<runs, crashes, lost, rootFrees, failedNew>>
vars == <<todo, exists, heap, content, rootOff, handles, damaged, history>>

create_pool == <<"open", "close", "check">>
declare_toid == <<"open", "close", "check">>
alloc_root_object == <<"open", "root", "free_root", "close", "check">>
alloc_by_pmemoid == <<"open", "alloc", "free_elem", "close", "check">>
alloc_by_toid == <<"open", "root", "new", "free_elem", "free_root", "close", "check">>
Programs == {create_pool, declare_toid, alloc_root_object, alloc_by_pmemoid, alloc_by_toid}
elem_constructor == <<"memset", "persist", "publish">>
Calls == {"open", "root", "alloc", "new", "memset", "persist", "publish",
          "free_elem", "free_root", "close", "check"}

PoolTypeOK ==
  /\ todo \in Seq(Calls)
  /\ exists \in BOOLEAN /\ damaged \in BOOLEAN /\ failedNew \in BOOLEAN
  /\ heap \in [Objs -> {"free", "root", "elem"}]
  /\ mem \in [Objs -> {"junk", "zero"}] /\ media \in [Objs -> {"junk", "zero"}]
  /\ rootOff \in Objs \cup {Null} /\ root \in Objs \cup {Null}
  /\ elem \in Objs \cup {Null, Garbage}
  /\ runs \in Nat /\ crashes \in Nat /\ rootFrees \in Nat /\ lost \in SUBSET Objs

Init ==
  /\ todo = <<>> /\ exists = FALSE /\ damaged = FALSE
  /\ heap = [o \in Objs |-> "free"]
  /\ mem = [o \in Objs |-> "junk"] /\ media = mem
  /\ rootOff = Null /\ root = Null /\ elem = Garbage
  /\ runs = 0 /\ crashes = 0 /\ lost = {} /\ rootFrees = 0 /\ failedNew = FALSE

\* main() is about to make the call c; it goes on, or exit() or abort() ends it.
Call(c) == todo # <<>> /\ Head(todo) = c
GoOn == todo' = Tail(todo)
End == todo' = <<>>

(***************************************************************************)
(* main(): a program is started with the path of the pool.  Its handles    *)
(* are not initialised.                                                    *)
(***************************************************************************)
Main(p) ==
  /\ todo = <<>> /\ runs < MaxRuns
  /\ todo' = p
  /\ root' = Null /\ elem' = Garbage
  /\ runs' = runs + 1
  /\ UNCHANGED <<exists, heap, content, rootOff, damaged, crashes, lost, rootFrees, failedNew>>

\* pmemobj_open, and pmemobj_create when it fails: a pool that is there cannot be
\* created again, and creation may fail for want of space.
OpenOrCreate ==
  /\ Call("open")
  /\ \/ GoOn /\ exists' = TRUE
     \/ End /\ UNCHANGED exists
  /\ UNCHANGED <<heap, content, rootOff, handles, damaged, history>>

\* POBJ_ROOT: the root of the pool, allocated and zeroed if it has none.
PobjRoot ==
  /\ Call("root") /\ GoOn
  /\ \/ /\ rootOff # Null
        /\ root' = rootOff
        /\ UNCHANGED <<heap, content, rootOff>>
     \/ /\ rootOff = Null
        /\ \E o \in Objs :
             /\ heap[o] = "free"
             /\ heap' = [heap EXCEPT ![o] = "root"]
             /\ mem' = [mem EXCEPT ![o] = "zero"] /\ media' = [media EXCEPT ![o] = "zero"]
             /\ rootOff' = o /\ root' = o
     \/ /\ rootOff = Null
        /\ root' = Null
        /\ UNCHANGED <<heap, content, rootOff>>
  /\ UNCHANGED <<exists, elem, damaged, history>>

\* An allocation reserves a block, whose content is what its last use left there,
\* and runs the constructor on it.
Reserve(o) ==
  /\ heap[o] = "free"
  /\ elem' = o
  /\ \E c \in {"junk", "zero"} :
       mem' = [mem EXCEPT ![o] = c] /\ media' = [media EXCEPT ![o] = c]
  /\ todo' = elem_constructor \o Tail(todo)

\* pmemobj_alloc: assert(ret == 0) aborts the program when it fails.
PmemobjAlloc ==
  /\ Call("alloc")
  /\ \/ \E o \in Objs : Reserve(o)
     \/ End /\ UNCHANGED <<elem, content>>
  /\ UNCHANGED <<exists, heap, rootOff, root, damaged, history>>

\* POBJ_NEW: its result is not tested, and elem stays uninitialised when it fails.
PobjNew ==
  /\ Call("new")
  /\ \/ (\E o \in Objs : Reserve(o)) /\ UNCHANGED failedNew
     \/ GoOn /\ failedNew' = TRUE /\ UNCHANGED <<elem, content>>
  /\ UNCHANGED <<exists, heap, rootOff, root, damaged, runs, crashes, lost, rootFrees>>

\* elem_constructor: memset, then pmemobj_persist.
Memset ==
  /\ Call("memset") /\ GoOn
  /\ mem' = [mem EXCEPT ![elem] = "zero"]
  /\ UNCHANGED <<exists, heap, media, rootOff, handles, damaged, history>>

PersistNothing ==
  /\ Call("persist") /\ GoOn
  /\ UNCHANGED <<exists, heap, content, rootOff, handles, damaged, history>>
Persist ==
  /\ Call("persist") /\ GoOn
  /\ media' = [media EXCEPT ![elem] = mem[elem]]
  /\ UNCHANGED <<exists, heap, mem, rootOff, handles, damaged, history>>

\* The library publishes the block the constructor returned 0 for.
Publish ==
  /\ Call("publish") /\ GoOn
  /\ heap' = [heap EXCEPT ![elem] = "elem"]
  /\ UNCHANGED <<exists, content, rootOff, handles, damaged, history>>

\* Freeing an element: a null handle is ignored, an uninitialised one may happen to
\* be null, may end the program, or may do anything to the pool.
FreeElemNever ==
  /\ Call("free_elem") /\ GoOn
  /\ UNCHANGED <<exists, heap, content, rootOff, handles, damaged, history>>
FreeElemOfRoot ==
  /\ Call("free_elem") /\ GoOn
  /\ heap' = [o \in Objs |-> IF o = root THEN "free" ELSE heap[o]]
  /\ UNCHANGED <<exists, content, rootOff, handles, damaged, history>>
FreeElem ==
  /\ Call("free_elem")
  /\ \/ /\ elem \in Objs
        /\ heap' = [heap EXCEPT ![elem] = "free"]
        /\ elem' = Null
        /\ GoOn /\ UNCHANGED damaged
     \/ /\ elem = Garbage
        /\ \/ GoOn /\ UNCHANGED damaged
           \/ End /\ UNCHANGED damaged
           \/ GoOn /\ damaged' = TRUE
        /\ UNCHANGED <<heap, elem>>
  /\ UNCHANGED <<exists, content, rootOff, root, history>>

\* POBJ_FREE(&root): the header goes on naming the block.
FreeRoot ==
  /\ Call("free_root") /\ GoOn
  /\ root' = Null
  /\ damaged' = (damaged \/ (root # Null /\ heap[root] # "root"))
  /\ heap' = [o \in Objs |-> IF o = root THEN "free" ELSE heap[o]]
  /\ rootFrees' = IF root = Null THEN rootFrees ELSE rootFrees + 1
  /\ UNCHANGED <<exists, content, rootOff, elem, runs, crashes, lost, failedNew>>

Close ==
  /\ Call("close") /\ GoOn
  /\ UNCHANGED <<exists, heap, content, rootOff, handles, damaged, history>>

\* pmemobj_check, and the exit status that follows from it: the program ends anyway.
Check ==
  /\ Call("check") /\ End
  /\ UNCHANGED <<exists, heap, content, rootOff, handles, damaged, history>>

(***************************************************************************)
(* The program is killed, or the power fails: what was not flushed is on   *)
(* the medium or not.  A reserved block was never taken from the pool; an  *)
(* element that was published is lost to everybody.                        *)
(***************************************************************************)
Cut ==
  /\ todo # <<>> /\ crashes < MaxCrashes
  /\ End
  /\ crashes' = crashes + 1
  /\ lost' = IF elem \in Objs /\ heap[elem] = "elem" THEN lost \cup {elem} ELSE lost
  /\ UNCHANGED <<exists, heap, rootOff, handles, damaged, runs, rootFrees, failedNew>>

Kill == Cut /\ UNCHANGED content

PowerFailure ==
  /\ Cut
  /\ media' \in {f \in [Objs -> {"junk", "zero"}] : \A o \in Objs : f[o] \in {mem[o], media[o]}}
  /\ mem' = media'

Next ==
  \/ \E p \in Programs : Main(p)
  \/ OpenOrCreate \/ PobjRoot \/ PmemobjAlloc \/ PobjNew
  \/ Memset \/ Persist \/ Publish \/ FreeElem \/ FreeRoot \/ Close \/ Check
  \/ Kill \/ PowerFailure

Spec == Init /\ [][Next]_vars

-----------------------------------------------------------------------------
Elements == {o \in Objs : heap[o] = "elem"}
Held == IF todo # <<>> /\ elem \in Elements THEN {elem} ELSE {}

\* An element that is in the pool is zeroed on the medium, whatever crash came between:
\* elem_constructor persists what it wrote before the block is published.
Constructed == \A o \in Elements : media[o] = "zero"

\* On a pool that nothing undefined was done to, the elements are exactly the one the
\* running program holds and those whose owner was cut short between the allocation and
\* the free, one at most for each crash: a program that ends by itself leaves nothing.
NothingLeft ==
  ~damaged => /\ Elements = lost \cup Held
              /\ Cardinality(lost) <= crashes

\* A pool stays sound as long as no POBJ_NEW failed and its root was freed at most
\* once: it takes two runs of alloc_root_object or alloc_by_toid to free a block twice.
SoundUntilFreedAgain == rootFrees <= 1 /\ ~failedNew => ~damaged
=============================================================================
