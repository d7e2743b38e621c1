---------------------------- MODULE SystemProofs ----------------------------
(***************************************************************************)
(* Proofs about the whole machine: the invariants of the loader hold until *)
(* mm::init(), what they say of the last stage is what the memory manager  *)
(* starts from, and from there on its own invariant holds.                 *)
(***************************************************************************)
EXTENDS System, MemoryProofs, BootProofs

USE FanoutAssumption, PoolAssumption, BootAssumption

-----------------------------------------------------------------------------
(* The inductive invariant.                                                *)

(* mm::init() has run. *)
KernelStages == {"mm", "heap", "up"}

(* No call before mm::init(); the bitmap, in the .bss, may hold anything.  *)
NothingYet ==
  /\ NoCalls
  /\ pages = <<>> /\ cursor = 0
  /\ words \in [0 .. Word(PhysSize) -> SUBSET Bits]

(* The heap holds its block, whose pages are where they were at first.     *)
HeapBlock == \E b \in owned : b.start = kernelHeap.base /\ HeapRegion = PagesOf(b)

HeapKept ==
  stage = "up" =>
    /\ HeapBlock
    /\ ~freed => \A v \in HeapRegion : HasPage(v) /\ Get(v) = backing[v]

SysInv ==
  /\ stage \in BootStages \cup KernelStages
  /\ CpuInv
  /\ stage \in BootStages => TablesInv /\ LoadInv /\ NothingYet
  /\ stage \in KernelStages => MemInv
  /\ HeapKept

LEMMA SysInitInv == SysInit => SysInv
<1> SUFFICES ASSUME SysInit PROVE SysInv
  OBVIOUS
<1>1. TablesInv /\ LoadInv /\ CpuInv
  BY BootInitInv, CpuInit DEF SysInit
<1>2. stage = "pdpt"
  BY DEF SysInit, BootInit
<1>3. NothingYet
  BY DEF SysInit, PhysInit, NothingYet
<1> QED
  BY <1>1, <1>2, <1>3 DEF SysInv, BootStages, KernelStages, HeapKept

-----------------------------------------------------------------------------
(* Before mm::init().                                                      *)

(* A step of the loader, or of the kernel on its way to mm::init() *)
EarlyStep ==
  /\ BootStep
  /\ UNCHANGED <<pages, cursor, mmcall, mmhistory>>
  /\ words' \in [0 .. Word(PhysSize) -> SUBSET Bits]

LEMMA EarlyStages ==
  ASSUME BootStep, stage \in BootStages
  PROVE  stage' \in BootStages
BY DEF BootStep, LoaderStep, KernelEnters, NewPdpt, MapLow, MapHigh, EnablePaging, Switch,
       FindLoadAddr, calculateLoadAddr, LoadAddrFound, CheckElf, SkipSegment, LoadSegment, PmDisable,
       NewPml4, MapLoader, LongStep, MapKernel, ApplyPml4, FillLoaderData, LongEnter, Validate,
       LoaderPanic, PageFault, Retain, BootStages, PaeStages, LongStages

(* No step of the loader is left once mm::init() has run. *)
LEMMA EarlyOnly ==
  ASSUME BootStep, stage \in BootStages \cup KernelStages
  PROVE  stage \in BootStages
BY DEF BootStep, LoaderStep, KernelEnters, NewPdpt, MapLow, MapHigh, EnablePaging, Switch,
       FindLoadAddr, calculateLoadAddr, LoadAddrFound, CheckElf, SkipSegment, LoadSegment, PmDisable,
       NewPml4, MapLoader, LongStep, MapKernel, ApplyPml4, FillLoaderData, LongEnter, Validate,
       Retain, At, KernelStages

LEMMA EarlyInv ==
  ASSUME SysInv, EarlyStep
  PROVE  SysInv'
<1>1. stage \in BootStages /\ stage' \in BootStages
  BY EarlyOnly, EarlyStages DEF EarlyStep, SysInv
<1>2. TablesInv' /\ LoadInv' /\ CpuInv'
  BY <1>1, TablesPart, LoadPart, CpuPart DEF EarlyStep, SysInv
<1>3. NothingYet'
  BY <1>1 DEF EarlyStep, SysInv, NothingYet, NoCalls, mmcall, mmhistory
<1>4. stage' \notin KernelStages
  BY <1>1 DEF BootStages, PaeStages, LongStages, KernelStages
<1> QED
  BY <1>1, <1>2, <1>3, <1>4 DEF SysInv, HeapKept, KernelStages

LEMMA EarlySteps ==
  ASSUME SysInv, Loading \/ EnterKernel \/ Constructors \/ TakeOver
  PROVE  EarlyStep
<1>1. stage \in BootStages
  <2>1. BootStep
    BY DEF Loading, EnterKernel, Constructors, TakeOver, BootStep, KernelEnters
  <2> QED
    BY <2>1, EarlyOnly DEF SysInv
<1>2. words \in [0 .. Word(PhysSize) -> SUBSET Bits]
  BY <1>1 DEF SysInv, NothingYet
<1>3. CASE Loading
  BY <1>2, <1>3 DEF Loading, EarlyStep, BootStep, physvars
<1>4. CASE EnterKernel
  <2>1. words' \in [0 .. Word(PhysSize) -> SUBSET Bits]
    <3>1. PICK dirt \in SUBSET {"bitmap", "heap"} :
            words' = [w \in DOMAIN words |-> IF "bitmap" \in dirt THEN Bits ELSE {}]
      BY <1>4 DEF EnterKernel
    <3> QED
      BY <1>2, <3>1
  <2> QED
    BY <1>4, <2>1 DEF EnterKernel, EarlyStep, BootStep, KernelEnters
<1>5. CASE Constructors \/ TakeOver
  BY <1>2, <1>5 DEF Constructors, TakeOver, EarlyStep, BootStep, KernelEnters, physvars
<1> QED
  BY <1>3, <1>4, <1>5

-----------------------------------------------------------------------------
(* mm::init() clears the bitmap: the memory manager starts afresh.         *)

LEMMA InitMemoryFresh ==
  ASSUME SysInv, InitMemory
  PROVE  Fresh'
<1>1. /\ stage = "retained" /\ status = "running" /\ UNCHANGED <<pmvars, pages, cursor, mmcall, mmhistory>>
      /\ words' = [w \in DOMAIN words |-> {}]
  BY DEF InitMemory, At
<1>2. TablesInv /\ NothingYet
  BY <1>1 DEF SysInv, BootStages
<1>3. Inherited /\ tracked \subseteq Pages /\ table \in Tables /\ freed = FALSE /\ refs \in [Pages -> Nat]
  BY <1>1, <1>2 DEF TablesInv
<1>4. TypeOK'
  BY <1>1, <1>3 DEF TypeOK, Tables, Entry, pmvars
<1>5. Inherited'
  <2>1. \A p : Entries(p)' = Entries(p)
    BY <1>1 DEF Entries, pmvars
  <2> QED
    BY <1>1, <1>3, <2>1 DEF Inherited, pmvars
<1>6. PhysInit' /\ NoCalls'
  BY <1>1, <1>2 DEF NothingYet, PhysInit, NoCalls, mmcall, mmhistory
<1> QED
  BY <1>1, <1>3, <1>4, <1>5, <1>6 DEF Fresh, pmvars

LEMMA FreshNext == Fresh' => MemInv'
BY FreshInv, PTL

LEMMA InitMemoryInv ==
  ASSUME SysInv, InitMemory
  PROVE  SysInv'
<1>1. MemInv'
  BY InitMemoryFresh, FreshNext
<1>2. stage = "retained" /\ stage' = "mm" /\ cpu' = cpu
  BY DEF InitMemory, At
<1>3. CpuInv'
  BY <1>2, KeepCpu DEF SysInv, UnpagedStages, PagedStages, SwitchStages
<1> QED
  BY <1>1, <1>2, <1>3 DEF SysInv, HeapKept, BootStages, PaeStages, LongStages, KernelStages

-----------------------------------------------------------------------------
(* After mm::init() every step is one of the memory manager, or leaves it  *)
(* alone.                                                                  *)

LateStep == HeapAsks \/ MemoryStep \/ HeapGets \/ Calls

LEMMA LateSteps ==
  ASSUME SysInv, LateStep
  PROVE  /\ MemStep /\ MemInv /\ MemInv'
         /\ stage \in KernelStages /\ stage' \in KernelStages
<1>1. stage \in KernelStages /\ stage' \in KernelStages
  <2>1. CASE HeapAsks \/ HeapGets \/ Calls
    BY <2>1 DEF HeapAsks, HeapGets, Calls, At, bootvars, KernelStages
  <2>2. CASE MemoryStep
    <3>1. mpc # "idle" /\ stage' = stage
      BY <2>2 DEF MemoryStep, CallStep, AllocScan, AllocBind, AllocFail, BindPage, AllocDone,
                  FreePage, FreeDone, bootvars
    <3> QED
      BY <3>1 DEF SysInv, NothingYet, NoCalls
  <2> QED
    BY <2>1, <2>2 DEF LateStep
<1>2. MemStep
  <2>1. CASE HeapAsks
    BY <2>1, HeapPagesAssumption DEF HeapAsks, MemStep
  <2>2. CASE MemoryStep
    BY <2>2 DEF MemoryStep, MemStep
  <2>3. CASE HeapGets
    BY <2>3 DEF HeapGets, MemStep
  <2>4. CASE Calls
    <3>1. [MemNext]_memvars
      BY <2>4 DEF Calls, ClientCalls, MemNext
    <3> QED
      BY <3>1, MemNextSteps
  <2> QED
    BY <2>1, <2>2, <2>3, <2>4 DEF LateStep
<1>3. MemInv
  BY <1>1 DEF SysInv
<1> QED
  BY <1>1, <1>2, <1>3, MemStepInv

(* The block heap::init() gets is mapped, each page of it. *)
LEMMA BlockMapped ==
  ASSUME MemInv, ~freed, NEW b \in owned, NEW v \in PagesOf(b)
  PROVE  v \in VPages /\ HasPage(v)
<1>1. v \in OwnedPages
  BY DEF OwnedPages
<1>2. Backed(v)
  BY <1>1 DEF MemInv, BlocksInv, BlocksMapped, Backed
<1> QED
  BY <1>1, <1>2, ClientPages, BackedHasPage

LEMMA HeapPart ==
  ASSUME SysInv, LateStep
  PROVE  HeapKept'
<1> SUFFICES ASSUME stage' = "up" PROVE HeapKept'
  BY DEF HeapKept
<1>1. MemStep /\ MemInv /\ (freed => freed')
  BY LateSteps, PagingPart
<1>2. CASE stage = "up"
  <2>1. HeapBlock /\ (~freed => \A v \in HeapRegion : HasPage(v) /\ Get(v) = backing[v])
    BY <1>2 DEF SysInv, HeapKept
  <2>2. MemoryStep \/ Calls
    BY <1>2 DEF LateStep, HeapAsks, HeapGets, At
  <2>3. kernelHeap' = kernelHeap /\ backing' = backing
    BY <2>2 DEF MemoryStep, Calls
  <2>4. PICK b \in owned : b.start = kernelHeap.base /\ HeapRegion = PagesOf(b)
    BY <2>1 DEF HeapBlock
  <2>5. b \in owned'
    <3>1. CASE MemoryStep
      BY <3>1 DEF MemoryStep, CallStep, AllocScan, AllocBind, AllocFail, BindPage, AllocDone,
                  FreePage, FreeDone, mmhistory
    <3>2. CASE Calls
      <4>1. ASSUME NEW c \in owned, c.start # kernelHeap.base, FreeStart(c) PROVE b \in owned'
        BY <2>4, <4>1 DEF FreeStart
      <4> QED
        BY <3>2, <4>1 DEF Calls, ClientCalls, AllocNone, AllocTooMany, AllocAstray, AllocStart,
                          mmhistory, memvars
    <3> QED
      BY <2>2, <3>1, <3>2
  <2>6. HeapBlock'
    BY <2>3, <2>4, <2>5 DEF HeapBlock, HeapRegion, PagesOf
  <2>7. ~freed' => \A v \in HeapRegion : HasPage(v)' /\ Get(v)' = backing[v]
    BY <1>1, <2>1, <2>4, BlockMapped, MappedStays
  <2> QED
    BY <2>3, <2>6, <2>7 DEF HeapKept, HeapRegion
<1>3. CASE stage # "up"
  <2>1. /\ HeapGets /\ owned # {} /\ UNCHANGED <<pmvars, mmhistory>>
        /\ \E b \in owned : /\ kernelHeap' = [base |-> b.start, size |-> b.count]
                            /\ backing' = [v \in PagesOf(b) |-> Get(v)]
    BY <1>3 DEF LateStep, HeapAsks, MemoryStep, Calls, At, HeapGets, bootvars
  <2>2. PICK b \in owned : /\ kernelHeap' = [base |-> b.start, size |-> b.count]
                           /\ backing' = [v \in PagesOf(b) |-> Get(v)]
    BY <2>1
  <2>3. /\ owned' = owned /\ freed' = freed
        /\ \A v : Get(v)' = Get(v) /\ (HasPage(v)' <=> HasPage(v))
    BY <2>1, GetSame DEF pmvars, mmhistory
  <2>4. ~freed => \A v \in PagesOf(b) : HasPage(v)
    BY <1>1, BlockMapped
  <2> QED
    BY <2>2, <2>3, <2>4 DEF HeapKept, HeapBlock, HeapRegion, PagesOf
<1> QED
  BY <1>2, <1>3

LEMMA LateInv ==
  ASSUME SysInv, LateStep
  PROVE  SysInv'
<1>1. stage \in KernelStages /\ stage' \in KernelStages /\ MemInv'
  BY LateSteps
<1>2. CpuInv'
  <2>1. cpu' = cpu
    BY DEF LateStep, HeapAsks, MemoryStep, HeapGets, Calls, bootvars
  <2>2. /\ stage \notin UnpagedStages \cup PagedStages \cup SwitchStages
        /\ stage' \notin UnpagedStages \cup PagedStages \cup SwitchStages
    BY <1>1 DEF KernelStages, UnpagedStages, PagedStages, SwitchStages
  <2> QED
    BY <2>1, <2>2, KeepCpu DEF SysInv
<1>3. HeapKept'
  BY HeapPart
<1>4. stage' \notin BootStages
  BY <1>1 DEF KernelStages, BootStages, PaeStages, LongStages
<1> QED
  BY <1>1, <1>2, <1>3, <1>4 DEF SysInv

-----------------------------------------------------------------------------
(* The specification.                                                      *)

LEMMA StutterInv ==
  ASSUME SysInv, UNCHANGED sysvars
  PROVE  SysInv'
<1>1. stage' = stage /\ CpuInv'
  BY KeepCpu DEF sysvars, bootvars, SysInv
<1>2. stage \in BootStages => TablesInv' /\ LoadInv' /\ NothingYet'
  BY KeepTables, KeepLoad
     DEF sysvars, bootvars, pmvars, physvars, mmcall, mmhistory, SysInv, NothingYet, NoCalls
<1>3. stage \in KernelStages => MemInv'
  <2>1. MemStep
    BY DEF sysvars, MemStep
  <2> QED
    BY <2>1, MemStepInv DEF SysInv
<1>4. HeapKept'
  BY GetSame DEF sysvars, bootvars, pmvars, mmhistory, SysInv, HeapKept, HeapBlock, HeapRegion,
                 PagesOf
<1> QED
  BY <1>1, <1>2, <1>3, <1>4 DEF SysInv

LEMMA SysStepInv == SysInv /\ [SysNext]_sysvars => SysInv'
<1> SUFFICES ASSUME SysInv, [SysNext]_sysvars PROVE SysInv'
  OBVIOUS
<1>1. CASE Loading \/ EnterKernel \/ Constructors \/ TakeOver
  BY <1>1, EarlySteps, EarlyInv
<1>2. CASE InitMemory
  BY <1>2, InitMemoryInv
<1>3. CASE LateStep
  BY <1>3, LateInv
<1>4. CASE UNCHANGED sysvars
  BY <1>4, StutterInv
<1> QED
  BY <1>1, <1>2, <1>3, <1>4 DEF SysNext, Running, KernelStep, LateStep, Stops

LEMMA SysInvariant == SysSpec => []SysInv
BY SysInitInv, SysStepInv, PTL DEF SysSpec

(***************************************************************************)
(* LoaderHandsOver: whatever the pool held, for every fanout, size of the  *)
(* pool and of its part that is the loader's, list of modules and kernel   *)
(* as kernel.lds links it, the kernel takes over the four exact tables the *)
(* rest of it is built on (loader.cpp:40-110, pm.cpp:58-80).               *)
(***************************************************************************)
THEOREM LoaderHandsOver == SysSpec => []HandsOver
<1>1. SysInv => HandsOver
  <2>1. stage # "retained" => HandsOver
    BY DEF HandsOver
  <2> QED
    BY <2>1, TablesHandedOver DEF SysInv, BootStages
<1> QED
  BY <1>1, SysInvariant, PTL

(***************************************************************************)
(* KernelIsInPlace: a kernel that is entered finds every unit of every     *)
(* segment at the address it was linked for, wherever modules are and      *)
(* however many segments it has (loader.cpp:104-191).                      *)
(***************************************************************************)
THEOREM KernelIsInPlace == SysSpec => []KernelInPlace
<1>1. SysInv => KernelInPlace
  <2>1. stage \notin BootStages => KernelInPlace
    BY DEF KernelInPlace, BootStages, LongStages
  <2> QED
    BY <2>1, KernelFindsItself DEF SysInv
<1> QED
  BY <1>1, SysInvariant, PTL

(***************************************************************************)
(* CodeIsMapped: until the kernel frees a paging structure, the CPU finds  *)
(* the loader, the stack and the structures where they are whenever paging *)
(* is on, through every change of tables and modes (loader.cpp:40-110) and *)
(* every call of mm::alloc() and mm::free().                               *)
(***************************************************************************)
THEOREM CodeIsMapped == SysSpec => [](~freed => CodeStaysMapped)
<1>1. SysInv => (~freed => CodeStaysMapped)
  <2> SUFFICES ASSUME SysInv, ~freed PROVE CodeStaysMapped
    OBVIOUS
  <2>1. CASE stage \in BootStages
    BY <2>1, CodeFound DEF SysInv
  <2>2. CASE stage \in KernelStages
    <3>1. \A v \in 0 .. 2 : Get(v) = BootMap[v]
      BY <2>2 DEF SysInv, MemInv, LoaderKept
    <3>2. stage \notin PagedStages
      BY <2>2 DEF KernelStages, PagedStages
    <3> QED
      BY <3>1, <3>2, CpuFindsCode DEF SysInv
  <2> QED
    BY <2>1, <2>2 DEF SysInv
<1> QED
  BY <1>1, SysInvariant, PTL

(***************************************************************************)
(* BitmapIsExact: from mm::init() to the first revert the bitmap has the   *)
(* bits of the pages in use and no other, whatever the .bss held           *)
(* (mm.cpp:17-23, :57-69).                                                 *)
(***************************************************************************)
THEOREM BitmapIsExact == SysSpec => []BitmapExact
<1>1. SysInv => BitmapExact
  <2> SUFFICES ASSUME SysInv, stage \in KernelStages, ~reverted, NEW w \in DOMAIN words
               PROVE  words[w] = UNION {Mask(n) : n \in {m \in Used : Word(m) = w}}
    BY DEF BitmapExact, KernelStages, Used
  <2>1. BitsSet /\ BitsOnly
    BY DEF SysInv, MemInv, BitmapInv
  <2>2. ASSUME NEW x \in words[w] PROVE \E n \in Used : Word(n) = w /\ x \in Mask(n)
    BY <2>1, <2>2 DEF BitsOnly
  <2>3. ASSUME NEW n \in Used, Word(n) = w PROVE Mask(n) \subseteq words[w]
    BY <2>1, <2>3 DEF BitsSet
  <2> QED
    BY <2>2, <2>3
<1> QED
  BY <1>1, SysInvariant, PTL

(***************************************************************************)
(* HeapPagesStay: until a paging structure is freed or an allocation is    *)
(* reverted, the kernel and its heap keep the physical pages they started  *)
(* with and share none with a client (heap.cpp:10-20, mm.cpp:25-94).       *)
(***************************************************************************)
THEOREM HeapPagesStay == SysSpec => [](~freed /\ ~reverted => HeapKeepsItsPages)
<1>1. SysInv => (~freed /\ ~reverted => HeapKeepsItsPages)
  <2> SUFFICES ASSUME SysInv, ~freed, ~reverted, stage = "up" PROVE HeapKeepsItsPages
    BY DEF HeapKeepsItsPages
  <2>1. MemInv /\ FramesOwn
    BY OwnFrames DEF SysInv, KernelStages
  <2>2. PICK b \in owned : HeapRegion = PagesOf(b)
    BY DEF SysInv, HeapKept, HeapBlock
  <2>3. HeapRegion \subseteq OwnedPages
    BY <2>2 DEF OwnedPages
  <2>4. \A v \in HeapRegion : Get(v) = backing[v]
    BY DEF SysInv, HeapKept
  <2>5. \A v \in DOMAIN BootMap : Get(v) = BootMap[v]
    BY <2>1 DEF MemInv, LoaderKept, BootMap
  <2>6. \A v \in HeapRegion \cup DOMAIN BootMap, u \in OwnedPages : Get(u) = Get(v) => u = v
    BY <2>1, <2>3 DEF FramesOwn
  <2> QED
    BY <2>4, <2>5, <2>6 DEF HeapKeepsItsPages
<1> QED
  BY <1>1, SysInvariant, PTL

(***************************************************************************)
(* KernelMemorySound: the memory manager's guarantees hold of it where it  *)
(* runs, on the structures and the bitmap the loader and mm::init() left   *)
(* (main.cpp:18-40), not only from the initial state of module Memory.     *)
(***************************************************************************)
THEOREM KernelMemorySound ==
  SysSpec => [](stage \in {"mm", "heap", "up"} => MemTypeOK /\ BlocksMapped /\ FramesOwn)
<1>1. SysInv => (stage \in {"mm", "heap", "up"} => MemTypeOK /\ BlocksMapped /\ FramesOwn)
  BY OwnFrames DEF SysInv, KernelStages, MemInv, BlocksInv, BlocksMapped
<1> QED
  BY <1>1, SysInvariant, PTL

=============================================================================
