------------------------------- MODULE System -------------------------------
(***************************************************************************)
(* The whole machine, from the loader's first instruction to a kernel that *)
(* serves calls: the loader (Boot), kernel_entry and kernel_main()         *)
(* (entry.s, main.cpp), the memory manager (Memory) on the paging          *)
(* structures the kernel took over, and heap::init(), which makes the      *)
(* first allocation and keeps it for good.  Nothing hands over but what    *)
(* the code hands over: the kernel starts on the tables, the tracking bits *)
(* and the memory that the loader left, and on a .bss nobody cleared.      *)
(*                                                                         *)
(* What the heap does inside its region is module Heap; here its region is *)
(* a block of pages like any other.                                        *)
(***************************************************************************)
EXTENDS Boot, Memory

CONSTANT HeapPages      \* the pages heap::init() asks for (16)

ASSUME HeapPagesAssumption == HeapPages \in 1 .. MaxPages /\ {AF_RW} \in AllocFlags

(* The first allocation fits: the range it is made in starts behind what   *)
(* the loader maps, at a place from which one page directory reaches; the  *)
(* pool has a PDPT and a directory to spare; and the memory has that many  *)
(* pages, with a bit each (mm.cpp:24-27, :56-61).                          *)
ASSUME HeapFitsAssumption ==
  /\ 2 < VirtStart /\ VirtStart < VirtEnd
  /\ (VirtStart % Fanout) + HeapPages <= Fanout
  /\ PoolSize >= 6
  /\ StartPage + HeapPages <= PhysSize /\ StartPage + HeapPages < IntBits

VARIABLES
  kernelHeap,   \* m_base and m_size of heap::kernelHeap, in pages
  backing       \* history: what the heap's pages were mapped to at first

sysvars == <<pmvars, bootvars, physvars, mmcall, mmhistory, kernelHeap, backing>>

NoHeap == [base |-> 0, size |-> 0]

SysInit ==
  /\ BootInit
  /\ PhysInit /\ NoCalls
  /\ kernelHeap = NoHeap /\ backing = <<>>

Loading ==
  /\ LoaderStep
  /\ UNCHANGED <<physvars, mmcall, mmhistory, kernelHeap, backing>>

-----------------------------------------------------------------------------
(* kernel_entry and kernel_main().                                         *)

(* The .bss is in memory the loader has not written: load_elf() copies     *)
(* p_filesz bytes of a segment and does nothing about the rest.            *)
EnterKernel ==
  /\ LongEnter
  /\ \E dirt \in SUBSET {"bitmap", "heap"} :
       /\ words' = [w \in DOMAIN words |-> IF "bitmap" \in dirt THEN Bits ELSE {}]
       /\ kernelHeap' = IF "heap" \in dirt THEN [base |-> 1, size |-> 1] ELSE NoHeap
  /\ UNCHANGED <<pages, cursor, mmcall, mmhistory, backing>>

(* Mutant of Constructors: _init runs none. *)
ConstructorsNot ==
  /\ At("entry") /\ stage' = "validate"
  /\ UNCHANGED <<pmvars, physvars, mem, input, loadAddr, seg, loaderData, cpu,
                 mmcall, mmhistory, kernelHeap, backing>>

(* call _init: the constructor of kernelHeap runs *)
Constructors ==
  /\ At("entry") /\ stage' = "validate"
  /\ kernelHeap' = NoHeap
  /\ UNCHANGED <<pmvars, physvars, mem, input, loadAddr, seg, loaderData, cpu,
                 mmcall, mmhistory, backing>>

TakeOver ==
  /\ Validate \/ Retain
  /\ UNCHANGED <<physvars, mmcall, mmhistory, kernelHeap, backing>>

(* Mutant of InitMemory: mm::init() is not called. *)
InitMemoryNot ==
  /\ At("retained") /\ stage' = "mm"
  /\ UNCHANGED <<pmvars, words, pages, cursor, mem, input, loadAddr, seg, loaderData, cpu,
                 mmcall, mmhistory, kernelHeap, backing>>

(* mm::init(); pm::kernel()->dump() *)
InitMemory ==
  /\ At("retained") /\ stage' = "mm"
  /\ words' = [w \in DOMAIN words |-> {}]
  /\ UNCHANGED <<pmvars, pages, cursor, mem, input, loadAddr, seg, loaderData, cpu,
                 mmcall, mmhistory, kernelHeap, backing>>

(* heap::init() calls mm::alloc(). *)
HeapAsks ==
  /\ At("mm") /\ stage' = "heap"
  /\ AllocStart(HeapPages, {AF_RW})
  /\ UNCHANGED <<mem, input, loadAddr, seg, loaderData, cpu, kernelHeap, backing>>

MemoryStep ==
  /\ CallStep
  /\ UNCHANGED <<bootvars, kernelHeap, backing>>

(* orPanic(), and kernelHeap.reset(), whose scan of the list takes a size  *)
(* that is not zero for a heap in use.                                     *)
HeapGets ==
  /\ At("heap") /\ mpc = "idle"
  /\ IF owned = {} \/ kernelHeap.size # 0
     THEN Panic /\ UNCHANGED <<stage, kernelHeap, backing>>
     ELSE /\ \E b \in owned :
               /\ kernelHeap' = [base |-> b.start, size |-> b.count]
               /\ backing' = [v \in PagesOf(b) |-> Get(v)]
          /\ stage' = "up"
          /\ UNCHANGED pmvars
  /\ UNCHANGED <<mem, input, loadAddr, seg, loaderData, cpu, physvars, mmcall, mmhistory>>

KernelStep ==
  EnterKernel \/ Constructors \/ TakeOver \/ InitMemory \/ HeapAsks \/ HeapGets

-----------------------------------------------------------------------------
(* The kernel is up.  The rest of it may call mm::alloc(), and mm::free()  *)
(* for what it got; nobody frees the heap.                                 *)

Calls ==
  /\ At("up")
  /\ ClientCalls({b \in owned : b.start # kernelHeap.base})
  /\ UNCHANGED <<bootvars, kernelHeap, backing>>

Stops == status # "running" /\ UNCHANGED sysvars

Running == Loading \/ KernelStep \/ MemoryStep

SysNext == Running \/ Calls \/ Stops

(* One CPU, and nothing it waits for: what it has begun it goes on with.   *)
SysSpec == SysInit /\ [][SysNext]_sysvars /\ WF_sysvars(Running)

-----------------------------------------------------------------------------
(* Properties.                                                             *)

HeapRegion == DOMAIN backing

(***************************************************************************)
(* HeapKeepsItsPages: once it is up, the kernel and its heap keep the      *)
(* physical pages they started with, and no block of another client is on  *)
(* one of them.  Calls free structures that stay linked, map into them and *)
(* reuse them (pm.cpp:119-131), and reverts clear bits of pages in use     *)
(* (mm.cpp:77-84).  But the heap's block, never freed, keeps its directory *)
(* and the PDPT above allocated, and its word of the bitmap is full long   *)
(* before an allocation fails.                                             *)
(***************************************************************************)
HeapKeepsItsPages ==
  (stage = "up" /\ status = "running") =>
    /\ \A v \in DOMAIN BootMap : Get(v) = BootMap[v]
    /\ \A v \in HeapRegion : Get(v) = backing[v]
    /\ \A v \in HeapRegion \cup DOMAIN BootMap, u \in OwnedPages : Get(u) = Get(v) => u = v

(***************************************************************************)
(* BitmapExact: from mm::init() to the first revert a bit of the bitmap is *)
(* set exactly if it is of a page that was taken, bound to a block or      *)
(* about to be, whatever the .bss held and whatever was freed since.       *)
(***************************************************************************)
BitmapExact ==
  (stage \in {"mm", "heap", "up"} /\ ~reverted) =>
    \A w \in DOMAIN words :
      words[w] = UNION {Mask(n) : n \in {m \in handed \cup {pages[j] : j \in DOMAIN pages} :
                                          Word(m) = w}}

(***************************************************************************)
(* StackOutOfReach: pm::alloc() hands out the lowest free page of a pool   *)
(* that the kernel's stack is in (pm.cpp:201-217, :330).  Until a revert,  *)
(* physical pages run out before directories to map them reach the stack,  *)
(* with structures freed and reused in any order.                          *)
(***************************************************************************)
StackOutOfReach == ~reverted => StackPage \notin tracked

(***************************************************************************)
(* KernelComesUp: every start ends with the kernel up, or in a loader that *)
(* has refused the kernel; one that was entered comes up, whatever its     *)
(* .bss and the pool held.                                                 *)
(***************************************************************************)
Entered == stage \in {"entry", "validate", "retain", "retained", "mm", "heap"}
KernelComesUp == <>(stage = "up" \/ (status # "running" /\ ~Entered))

(***************************************************************************)
(* EnteredNeverStops: what stops the machine stops it in the loader.  The  *)
(* kernel accepts what the loader hands it, and heap::init() gets its      *)
(* pages and finds no heap in use, on a .bss nobody cleared and structures *)
(* made for the loader (entry.s, main.cpp:14-40, heap.cpp:10-20).          *)
(***************************************************************************)
EnteredNeverStops == Entered => status = "running"

(***************************************************************************)
(* MemoryCallsReturn: every call of mm::alloc() and mm::free() returns, or *)
(* stops the machine.                                                      *)
(***************************************************************************)
MemoryCallsReturn == (mpc # "idle") ~> (mpc = "idle" \/ status # "running")

=============================================================================
