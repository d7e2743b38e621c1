-------------------------------- MODULE Heap --------------------------------
(***************************************************************************)
(* The kernel heap (kernel/mem/heap.cpp) and the C++ allocation operators  *)
(* on top of it (kernel/algo/new.hpp).                                     *)
(*                                                                         *)
(* The heap is a doubly linked list of headers laid out in the memory it   *)
(* manages.  Memory is modelled by the header fields stored at each        *)
(* address: flags[a], length[a], prev[a], next[a] are what a HeapHeader*   *)
(* with value a reads.  Payload bytes are not modelled; an address that    *)
(* holds no header reads flags {} (payload is assumed not to contain the   *)
(* magic by accident).                                                     *)
(*                                                                         *)
(* Every loop of the code is unrolled into steps, one iteration each, so   *)
(* that a call that never returns is a behaviour of the model.  There is   *)
(* one CPU and interrupts are off (entry.s), so a call is not interleaved  *)
(* with another one: the next call starts when pc is back to "idle".       *)
(***************************************************************************)
EXTENDS Integers

CONSTANTS
  HeaderSize,   \* sizeof(HeapHeader)
  WordSize,     \* 2^64: the modulus of size_t arithmetic
  Regions,      \* the [base, size] pairs reset() may be called with
  Sizes,        \* the sizes clients ask for
  Aligns        \* the alignments clients ask for (powers of two)

NULL == 0

(***************************************************************************)
(* Every address at which a header can be.                                 *)
(***************************************************************************)
Addr == UNION {r.base .. (r.base + r.size - 1) : r \in Regions}

ASSUME HeaderSizeAssumption == HeaderSize \in Nat \ {0}
ASSUME WordSizeAssumption == WordSize \in Nat \ {0}
ASSUME RegionsAssumption ==
  \A r \in Regions : /\ r.base \in Nat \ {0}
                     /\ r.size \in Nat
                     /\ r.size >= HeaderSize
ASSUME RequestsAssumption == Sizes \subseteq Nat /\ Aligns \subseteq Nat \ {0}

VARIABLES
  \* memory: the fields of the HeapHeader at each address
  flags, length, prev, next,
  \* heap::Heap
  m_base, m_size,
  \* the running call: where it is, and its local variables
  pc, hdr, size, align, nextAligned,
  \* history: the headers linked into the heap, and the blocks clients hold
  blocks, live

memory == <<flags, length, prev, next>>
object == <<m_base, m_size>>
locals == <<hdr, size, align, nextAligned>>
history == <<blocks, live>>
vars == <<memory, object, pc, locals, history>>

Flags == {"MAGIC", "ALLOC"}

Scanning == {"alloc", "new", "aligned", "reset"}
Freeing == {"back", "merge"}
Stopped == {"panic", "corrupt"}

Word(x) == x % WordSize

(* Mutant of AlignUp: the low bits are not masked off. *)
AlignUpUnmasked(x, a) == x + (a - 1)

(* alignUp(x, a): (x + (a - 1)) & -a, for a power of two *)
AlignUp(x, a) == (x + (a - 1)) - ((x + (a - 1)) % a)

valid == m_base # NULL /\ m_size # 0

Magic(h) == "MAGIC" \in flags[h]
Used(h) == "ALLOC" \in flags[h]

Init ==
  /\ flags = [a \in Addr |-> {}]
  /\ length = [a \in Addr |-> 0]
  /\ prev = [a \in Addr |-> NULL]
  /\ next = [a \in Addr |-> NULL]
  /\ m_base = NULL /\ m_size = 0
  /\ pc = "idle"
  /\ hdr = NULL /\ size = 0 /\ align = 0 /\ nextAligned = 0
  /\ blocks = {} /\ live = {}

-----------------------------------------------------------------------------
(* Control: entering a call, returning from it, and stopping the machine.  *)

Enter(label, h) ==
  /\ pc = "idle"
  /\ pc' = label
  /\ hdr' = h

Leave(label) ==
  /\ pc' = label
  /\ hdr' = NULL /\ size' = 0 /\ align' = 0 /\ nextAligned' = 0

Return == Leave("idle")

(* panic_msg(...) and a failing assert(...): print, then cli; hlt for ever *)
Panic ==
  /\ Leave("panic")
  /\ UNCHANGED <<memory, object, history>>

Halted ==
  /\ pc \in Stopped
  /\ UNCHANGED vars

-----------------------------------------------------------------------------
(* reset(base, size), called by heap::init() with the region mm::alloc     *)
(* returned: no block of an initialised heap may be in use.                *)

Reset ==
  /\ Enter("reset", IF m_size # 0 THEN m_base ELSE NULL)
  /\ UNCHANGED <<memory, object, size, align, nextAligned, history>>

(* Mutant of ResetCheck: blocks in use are not looked for. *)
ResetCheckMagic ==
  /\ pc = "reset" /\ hdr # NULL /\ Magic(hdr)
  /\ hdr' = next[hdr]
  /\ UNCHANGED <<memory, object, pc, size, align, nextAligned, history>>

ResetCheck ==
  /\ pc = "reset" /\ hdr # NULL
  /\ IF ~Magic(hdr) \/ Used(hdr)
     THEN Panic
     ELSE /\ hdr' = next[hdr]
          /\ UNCHANGED <<memory, object, pc, size, align, nextAligned, history>>

PlaceRoot(r) ==
  /\ pc = "reset" /\ hdr = NULL
  /\ m_base' = r.base /\ m_size' = r.size
  /\ flags' = [flags EXCEPT ![r.base] = {"MAGIC"}]
  /\ length' = [length EXCEPT ![r.base] = r.size - HeaderSize]
  /\ prev' = [prev EXCEPT ![r.base] = NULL]
  /\ next' = [next EXCEPT ![r.base] = NULL]
  /\ blocks' = {r.base}
  /\ live' = {}
  /\ Return

-----------------------------------------------------------------------------
(* Giving h + HeaderSize to the client.                                    *)

Block(h, sz) == [ptr |-> h + HeaderSize, size |-> sz]

TakeWhole(h) ==
  /\ flags' = [flags EXCEPT ![h] = @ \cup {"ALLOC"}]
  /\ live' = live \cup {Block(h, length[h])}
  /\ Return
  /\ UNCHANGED <<length, prev, next, object, blocks>>

(* Mutant of CutEnd: the new header is not taken off the new length. *)
CutEndLong(h, sz) ==
  LET n == h + HeaderSize + sz IN
  /\ sz + HeaderSize <= length[h]
  /\ live' = live \cup {Block(h, sz)}
  /\ flags' = [flags EXCEPT ![h] = @ \cup {"ALLOC"}, ![n] = {"MAGIC"}]
  /\ length' = [length EXCEPT ![h] = sz, ![n] = length[h] - sz]
  /\ prev' = [prev EXCEPT ![n] = h]
  /\ next' = [next EXCEPT ![h] = n, ![n] = next[h]]
  /\ blocks' = blocks \cup {n}
  /\ Return
  /\ UNCHANGED object

(***************************************************************************)
(* The first sz bytes of block h become the client's and a new free header *)
(* follows them.  The header that used to follow h keeps its prev.  When   *)
(* the cut does not lie inside h, the new header overwrites memory that is *)
(* not the block's: what the heap holds from then on is unspecified.       *)
(***************************************************************************)
CutEnd(h, sz) ==
  LET n == h + HeaderSize + sz IN
  /\ live' = live \cup {Block(h, sz)}
  /\ IF sz + HeaderSize <= length[h]
     THEN /\ flags' = [flags EXCEPT ![h] = @ \cup {"ALLOC"}, ![n] = {"MAGIC"}]
          /\ length' = [length EXCEPT ![h] = sz,
                                      ![n] = length[h] - sz - HeaderSize]
          /\ prev' = [prev EXCEPT ![n] = h]
          /\ next' = [next EXCEPT ![h] = n, ![n] = next[h]]
          /\ blocks' = blocks \cup {n}
          /\ Return
     ELSE /\ Leave("corrupt")
          /\ UNCHANGED <<memory, blocks>>
  /\ UNCHANGED object

-----------------------------------------------------------------------------
(* alloc(size), and operator new, which panics where alloc returns none(). *)

Alloc(sz) ==
  /\ Enter("alloc", m_base)
  /\ size' = sz
  /\ UNCHANGED <<memory, object, align, nextAligned, history>>

New(sz) ==
  /\ pc = "idle"
  /\ IF valid
     THEN /\ Enter("new", m_base)
          /\ size' = sz
          /\ UNCHANGED <<memory, object, align, nextAligned, history>>
     ELSE Panic

Splittable(h) == length[h] > Word(size + HeaderSize)
Fits(h) == ~Used(h) /\ (Splittable(h) \/ length[h] = size)

(* Mutants of AllocNext: a block that fits exactly may be passed over; a   *)
(* block in use is looked at again and again.                              *)
AllocNextPastExact ==
  /\ pc \in {"alloc", "new"} /\ hdr # NULL
  /\ Magic(hdr) /\ (Used(hdr) \/ ~Splittable(hdr))
  /\ hdr' = next[hdr]
  /\ UNCHANGED <<memory, object, pc, size, align, nextAligned, history>>

AllocNextStuck ==
  /\ pc \in {"alloc", "new"} /\ hdr # NULL
  /\ Magic(hdr) /\ ~Fits(hdr)
  /\ hdr' = IF Used(hdr) THEN hdr ELSE next[hdr]
  /\ UNCHANGED <<memory, object, pc, size, align, nextAligned, history>>

AllocNext ==
  /\ pc \in {"alloc", "new"} /\ hdr # NULL
  /\ Magic(hdr) => ~Fits(hdr)
  /\ IF ~Magic(hdr)
     THEN Panic
     ELSE /\ hdr' = next[hdr]
          /\ UNCHANGED <<memory, object, pc, size, align, nextAligned, history>>

(* Mutant of AllocSplit: HF_ALLOC is not looked at. *)
AllocSplitUsed ==
  /\ pc \in {"alloc", "new"} /\ hdr # NULL /\ Magic(hdr)
  /\ Splittable(hdr)
  /\ CutEnd(hdr, size)

AllocSplit ==
  /\ pc \in {"alloc", "new"} /\ hdr # NULL /\ Magic(hdr) /\ ~Used(hdr)
  /\ Splittable(hdr)
  /\ CutEnd(hdr, size)

AllocWhole ==
  /\ pc \in {"alloc", "new"} /\ hdr # NULL /\ Magic(hdr) /\ ~Used(hdr)
  /\ ~Splittable(hdr) /\ length[hdr] = size
  /\ TakeWhole(hdr)

AllocNone ==
  /\ pc \in {"alloc", "new"} /\ hdr = NULL
  /\ IF pc = "new"
     THEN Panic
     ELSE Return /\ UNCHANGED <<memory, object, history>>

-----------------------------------------------------------------------------
(* allocAligned(size, align).                                              *)

(* The outer loop moves to header h: addr and nextAligned are computed. *)
Seek(h) ==
  /\ hdr' = h
  /\ nextAligned' = IF h = NULL THEN 0 ELSE AlignUp(h + HeaderSize, align)

AllocAligned(sz, al) ==
  /\ Enter("aligned", m_base)
  /\ size' = sz /\ align' = al
  /\ nextAligned' = IF m_base = NULL THEN 0 ELSE AlignUp(m_base + HeaderSize, al)
  /\ UNCHANGED <<memory, object, history>>

padSize == nextAligned - (hdr + HeaderSize)
actualSize == length[hdr] - padSize

AlignedAt == pc = "aligned" /\ hdr # NULL
Candidate == AlignedAt /\ Magic(hdr) /\ ~Used(hdr) /\ actualSize >= 0

AlignedNext ==
  /\ AlignedAt /\ ~Candidate
  /\ IF ~Magic(hdr)
     THEN Panic
     ELSE /\ Seek(next[hdr])
          /\ UNCHANGED <<memory, object, pc, size, align, history>>

(* The block is already aligned: take it whole, or cut its end. *)
AlignedWhole ==
  /\ Candidate /\ padSize = 0 /\ actualSize = size
  /\ TakeWhole(hdr)

AlignedCutEnd ==
  /\ Candidate /\ padSize = 0 /\ actualSize # size
  /\ CutEnd(hdr, size)

(* The padding cannot hold a header: try the next boundary. *)
AlignedPad ==
  /\ Candidate /\ padSize > 0 /\ padSize < HeaderSize
  /\ IF padSize + align >= length[hdr]
     THEN Seek(next[hdr])
     ELSE nextAligned' = nextAligned + align /\ UNCHANGED hdr
  /\ UNCHANGED <<memory, object, pc, size, align, history>>

(* Mutant of AlignedTail: the new header is not taken off the padding. *)
AlignedTailLong ==
  /\ Candidate /\ padSize >= HeaderSize
  /\ actualSize <= Word(size + HeaderSize) /\ actualSize = size
  /\ LET end == nextAligned - HeaderSize IN
     /\ flags' = [flags EXCEPT ![end] = {"MAGIC", "ALLOC"}]
     /\ length' = [length EXCEPT ![hdr] = padSize, ![end] = size]
     /\ prev' = [prev EXCEPT ![end] = hdr]
     /\ next' = [next EXCEPT ![hdr] = end, ![end] = next[hdr]]
     /\ blocks' = blocks \cup {end}
     /\ live' = live \cup {Block(end, size)}
  /\ Return
  /\ UNCHANGED object

(* The padding becomes a free block, the client gets what follows it. *)
AlignedTail ==
  /\ Candidate /\ padSize >= HeaderSize
  /\ actualSize <= Word(size + HeaderSize) /\ actualSize = size
  /\ LET end == nextAligned - HeaderSize IN
     /\ flags' = [flags EXCEPT ![end] = {"MAGIC", "ALLOC"}]
     /\ length' = [length EXCEPT ![hdr] = padSize - HeaderSize, ![end] = size]
     /\ prev' = [prev EXCEPT ![end] = hdr]
     /\ next' = [next EXCEPT ![hdr] = end, ![end] = next[hdr]]
     /\ blocks' = blocks \cup {end}
     /\ live' = live \cup {Block(end, size)}
  /\ Return
  /\ UNCHANGED object

(* As AlignedTail, and the end of the block is cut off as well. *)
AlignedMiddle ==
  /\ Candidate /\ padSize >= HeaderSize
  /\ actualSize > Word(size + HeaderSize)
  /\ LET mid == nextAligned - HeaderSize
         end == nextAligned + size
     IN
     /\ live' = live \cup {Block(mid, size)}
     /\ IF size + HeaderSize <= actualSize
        THEN /\ flags' = [flags EXCEPT ![mid] = {"MAGIC", "ALLOC"},
                                       ![end] = {"MAGIC"}]
             /\ length' = [length EXCEPT
                             ![hdr] = padSize - HeaderSize,
                             ![mid] = size,
                             ![end] = actualSize - size - HeaderSize]
             /\ prev' = [prev EXCEPT ![mid] = hdr, ![end] = mid]
             /\ next' = [next EXCEPT ![hdr] = mid, ![mid] = end,
                                     ![end] = next[hdr]]
             /\ blocks' = blocks \cup {mid, end}
             /\ Return
        ELSE /\ Leave("corrupt")
             /\ UNCHANGED <<memory, blocks>>
  /\ UNCHANGED object

(* No branch of the loop body applies: the next iteration is the same. *)
AlignedSpin ==
  /\ Candidate /\ padSize >= HeaderSize
  /\ actualSize <= Word(size + HeaderSize) /\ actualSize # size
  /\ UNCHANGED vars

AlignedNone ==
  /\ pc = "aligned" /\ hdr = NULL
  /\ Return
  /\ UNCHANGED <<memory, object, history>>

-----------------------------------------------------------------------------
(* free(ptr), freeChecked(ptr, sz) and the delete operators.               *)

ClearUsed(h) ==
  /\ Enter("back", h)
  /\ flags' = [flags EXCEPT ![h] = @ \ {"ALLOC"}]
  /\ live' = {b \in live : b.ptr # h + HeaderSize}
  /\ UNCHANGED <<length, prev, next, object, size, align, nextAligned, blocks>>

(* Mutant of Free: HF_ALLOC is not looked at. *)
FreeTwice(p) ==
  LET h == p - HeaderSize IN
  /\ pc = "idle"
  /\ IF Magic(h) THEN ClearUsed(h) ELSE Panic

Free(p) ==
  LET h == p - HeaderSize IN
  /\ pc = "idle"
  /\ IF Magic(h) /\ Used(h) THEN ClearUsed(h) ELSE Panic

FreeChecked(p, sz) ==
  /\ pc = "idle"
  /\ IF Magic(p - HeaderSize) /\ sz = length[p - HeaderSize]
     THEN Free(p)
     ELSE Panic

Delete(p) ==
  /\ pc = "idle"
  /\ IF valid THEN Free(p) ELSE Panic

DeleteSized(p, sz) ==
  /\ pc = "idle"
  /\ IF valid THEN FreeChecked(p, sz) ELSE Panic

(* First loop of free: back to the first header of a run of free ones. *)
WalkBack ==
  /\ pc = "back" /\ prev[hdr] # NULL
  /\ Magic(prev[hdr]) /\ ~Used(prev[hdr])
  /\ hdr' = prev[hdr]
  /\ UNCHANGED <<memory, object, pc, size, align, nextAligned, history>>

(* Mutant of WalkStop: the first loop of free may be left out. *)
WalkStopEarly ==
  /\ pc = "back"
  /\ pc' = "merge"
  /\ UNCHANGED <<memory, object, locals, history>>

WalkStop ==
  /\ pc = "back"
  /\ prev[hdr] # NULL => Magic(prev[hdr]) /\ Used(prev[hdr])
  /\ pc' = "merge"
  /\ UNCHANGED <<memory, object, locals, history>>

WalkAssert ==
  /\ pc = "back" /\ prev[hdr] # NULL /\ ~Magic(prev[hdr])
  /\ Panic

(* Mutant of MergeNext: the header is wiped and stays linked. *)
MergeNextLinked ==
  LET n == next[hdr] IN
  /\ pc = "merge" /\ n # NULL /\ Magic(n) /\ ~Used(n)
  /\ flags' = [flags EXCEPT ![n] = {}]
  /\ length' = [length EXCEPT ![hdr] = @ + HeaderSize + length[n], ![n] = 0]
  /\ blocks' = blocks \ {n}
  /\ UNCHANGED <<prev, next, object, pc, locals, live>>

(* Second loop of free: swallow the free headers that follow. *)
MergeNext ==
  LET n == next[hdr]
      m == next[n]
  IN
  /\ pc = "merge" /\ n # NULL
  /\ Magic(n) => ~Used(n)
  /\ IF ~Magic(n)
     THEN Panic
     ELSE /\ flags' = [flags EXCEPT ![n] = {}]
          /\ length' = [length EXCEPT ![hdr] = @ + HeaderSize + length[n],
                                      ![n] = 0]
          /\ next' = [next EXCEPT ![hdr] = m, ![n] = NULL]
          /\ prev' = [a \in Addr |-> IF a = n THEN NULL
                                     ELSE IF a = m THEN hdr ELSE prev[a]]
          /\ blocks' = blocks \ {n}
          /\ UNCHANGED <<object, pc, locals, live>>

MergeStop ==
  /\ pc = "merge"
  /\ next[hdr] # NULL => Magic(next[hdr]) /\ Used(next[hdr])
  /\ Return
  /\ UNCHANGED <<memory, object, history>>

-----------------------------------------------------------------------------

(* The pointers a client can pass to free. *)
Ptr == {a + HeaderSize : a \in Addr}

Call ==
  \/ Reset
  \/ \E sz \in Sizes : Alloc(sz) \/ New(sz)
  \/ \E sz \in Sizes, al \in Aligns : AllocAligned(sz, al)
  \/ \E p \in Ptr : Free(p) \/ Delete(p)
  \/ \E p \in Ptr, sz \in Sizes : FreeChecked(p, sz) \/ DeleteSized(p, sz)

Step ==
  \/ ResetCheck \/ (\E r \in Regions : PlaceRoot(r))
  \/ AllocNext \/ AllocSplit \/ AllocWhole \/ AllocNone
  \/ AlignedNext \/ AlignedWhole \/ AlignedCutEnd \/ AlignedPad
  \/ AlignedTail \/ AlignedMiddle \/ AlignedSpin \/ AlignedNone
  \/ WalkBack \/ WalkStop \/ WalkAssert
  \/ MergeNext \/ MergeStop

Next == Call \/ Step \/ Halted

Spec == Init /\ [][Next]_vars

(***************************************************************************)
(* A call runs to its end: one CPU, interrupts off, nothing to wait for.   *)
(***************************************************************************)
FairSpec == Spec /\ WF_vars(Step)

-----------------------------------------------------------------------------
(* Properties.                                                             *)

End == m_base + m_size
After(h) == h + HeaderSize + length[h]

(* TypeOK: header fields, locals and history have the shapes of the code's  *)
(* declarations (heap.hpp HeapHeader and Heap).                             *)
TypeOK ==
  /\ flags \in [Addr -> SUBSET Flags]
  /\ length \in [Addr -> Nat]
  /\ prev \in [Addr -> Addr \cup {NULL}]
  /\ next \in [Addr -> Addr \cup {NULL}]
  /\ m_base \in Nat /\ m_size \in Nat
  /\ pc \in {"idle"} \cup Scanning \cup Freeing \cup Stopped
  /\ hdr \in Addr \cup {NULL}
  /\ size \in Nat /\ align \in Nat /\ nextAligned \in Nat
  /\ blocks \subseteq Addr
  /\ live \subseteq [ptr : Nat, size : Nat]

(***************************************************************************)
(* Tiled: the headers linked from rootHeader() divide the region given to  *)
(* reset() into consecutive blocks: no byte is lost or in two blocks, the  *)
(* list has no cycle and leaves out no header, whatever sequence of calls  *)
(* split and merged them.                                                  *)
(***************************************************************************)
RootLinked ==
  IF m_size = 0 THEN blocks = {} ELSE m_base \in blocks

ForwardLinked ==
  \A h \in blocks :
    /\ m_base <= h /\ After(h) <= End
    /\ Magic(h)
    /\ next[h] = IF After(h) = End THEN NULL ELSE After(h)
    /\ next[h] # NULL => next[h] \in blocks

Apart ==
  \A g, h \in blocks : g < h => After(g) <= h

Tiled == RootLinked /\ ForwardLinked /\ Apart

(***************************************************************************)
(* HeadersMatchClients: a header carries HF_ALLOC exactly when a client    *)
(* holds its block, and records the size the client asked for; so          *)
(* free/freeChecked judge every pointer correctly.                         *)
(***************************************************************************)
HeadersMatchClients ==
  /\ \A b \in live : \E h \in blocks : Used(h) /\ b = Block(h, length[h])
  /\ \A h \in Addr : Used(h) => h \in blocks /\ Block(h, length[h]) \in live

(***************************************************************************)
(* LiveBlocksApart: what clients hold lies inside the heap, and between    *)
(* any two of their blocks there is room for a header: no allocation       *)
(* overlaps another one.                                                   *)
(***************************************************************************)
LiveBlocksApart ==
  /\ \A b \in live : m_base <= b.ptr /\ b.ptr + b.size <= End
  /\ \A b, c \in live : \/ b = c
                        \/ b.ptr + b.size + HeaderSize <= c.ptr
                        \/ c.ptr + c.size + HeaderSize <= b.ptr

(***************************************************************************)
(* AllFreedMeansOneBlock: once every block is freed the heap is one free   *)
(* block again, although free() finds its neighbours through prev links    *)
(* that alloc() leaves stale.                                              *)
(***************************************************************************)
AllFreedMeansOneBlock ==
  pc = "idle" /\ valid /\ live = {} =>
    blocks = {m_base} /\ length[m_base] = m_size - HeaderSize

(***************************************************************************)
(* NoneMeansNoFit: alloc() gives up (none(), or the panic of operator new) *)
(* only when no free block of the heap could have been split or taken.     *)
(***************************************************************************)
NoneMeansNoFit ==
  [][(pc \in {"alloc", "new"} /\ pc' \in {"idle", "panic"} /\ live' = live)
       => (\A h \in blocks : ~Fits(h))]_vars

(***************************************************************************)
(* OnlyLivePointersAreFreed: free() and freeChecked() get past their       *)
(* checks only for a pointer a client holds; a second free, and a free of  *)
(* the middle of a block, panic.                                           *)
(***************************************************************************)
OnlyLivePointersAreFreed ==
  [][(pc = "idle" /\ pc' = "back")
       => (\E b \in live : b.ptr = hdr' + HeaderSize /\ live' = live \ {b})]_vars

(***************************************************************************)
(* ForwardScansNeverBroken: "Heap is broken" is never printed, and the     *)
(* assert on hdr->next in free never fails: only a prev link can lead to   *)
(* a header that is no longer there.                                       *)
(***************************************************************************)
ForwardScansNeverBroken ==
  /\ pc \in Scanning /\ hdr # NULL => Magic(hdr)
  /\ pc = "merge" /\ next[hdr] # NULL => Magic(next[hdr])

(***************************************************************************)
(* AlignedAsAsked: a pointer allocAligned() returns is a multiple of the   *)
(* alignment asked for.                                                    *)
(***************************************************************************)
AlignedAsAsked ==
  [][pc = "aligned" => (\A b \in live' \ live : b.ptr % align = 0)]_vars

(***************************************************************************)
(* What else every state satisfies, and Tiled and HeadersMatchClients rest *)
(* on.                                                                     *)
(***************************************************************************)

(* m_base and m_size are what reset() was last called with. *)
Placed ==
  \/ m_size = 0 /\ m_base = NULL
  \/ \E r \in Regions : m_base = r.base /\ m_size = r.size

(***************************************************************************)
(* A prev link is NULL in the root header only, and always points back to  *)
(* a header of the heap or to one that free() has merged away and zeroed:  *)
(* not always to the neighbour, for no split updates the prev of the       *)
(* header behind it.                                                       *)
(***************************************************************************)
BackLinked ==
  \A h \in blocks :
    /\ prev[h] = NULL <=> h = m_base
    /\ prev[h] # NULL =>
         prev[h] < h /\ (prev[h] \in blocks \/ flags[prev[h]] = {})

(* The local variable hdr of a running call, and what its loop has seen. *)
CursorLinked ==
  /\ pc \in Scanning /\ hdr # NULL => hdr \in blocks
  /\ pc \in Freeing => hdr \in blocks /\ ~Used(hdr)
  /\ pc = "aligned" => align > 0
  /\ pc = "aligned" /\ hdr # NULL => nextAligned >= hdr + HeaderSize

ScanSound ==
  /\ pc \in {"alloc", "new"} =>
       \A h \in blocks : (hdr = NULL \/ h < hdr) => ~Fits(h)
  /\ pc = "reset" =>
       \A h \in blocks : (hdr = NULL \/ h < hdr) => ~Used(h)

(* A heap nobody holds a block of is one block, but while free() merges. *)
OneWhenFree ==
  live = {} =>
    /\ pc \in {"idle"} \cup Scanning => blocks \subseteq {m_base}
    /\ pc = "merge" => hdr = m_base

(***************************************************************************)
(* HeapInv: the heap's data structure invariant, in every state between    *)
(* the steps of any sequence of calls, until a cut outside its block.      *)
(***************************************************************************)
HeapInv ==
  /\ TypeOK
  /\ pc # "corrupt" =>
       /\ Placed /\ Tiled /\ HeadersMatchClients
       /\ BackLinked /\ CursorLinked /\ ScanSound /\ OneWhenFree

(***************************************************************************)
(* Requests for which size + sizeof(HeapHeader) does not wrap, and none of *)
(* them aligned: those every cut lies inside its block for.                *)
(***************************************************************************)
PlainRequests == Aligns = {} /\ \A sz \in Sizes : sz + HeaderSize < WordSize

(***************************************************************************)
(* Implements: the heap keeps the contract it has with its clients: the    *)
(* header manipulation of alloc, free and reset shows to them only as the  *)
(* taking and releasing of blocks that keep clear of each other.           *)
(***************************************************************************)
Contract == INSTANCE HeapContract WITH Gap <- HeaderSize, lo <- m_base, hi <- End

Implements == Contract!Spec

(***************************************************************************)
(* FreeCompletes: free() of a block that is in use does not panic.         *)
(***************************************************************************)
FreeCompletes ==
  [][(pc \in Freeing) => (pc' # "panic")]_vars

(***************************************************************************)
(* CallsReturn: every call ends: it returns, or stops the machine.         *)
(***************************************************************************)
CallsReturn == pc \in Scanning \cup Freeing ~> pc \in {"idle"} \cup Stopped

=============================================================================
