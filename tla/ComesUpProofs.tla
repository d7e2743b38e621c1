--------------------------- MODULE ComesUpProofs ---------------------------
(***************************************************************************)
(* Proofs that a kernel the loader entered comes up: from _init to the end *)
(* of heap::init() nothing panics, faults or goes astray, since the first  *)
(* allocation there ever was finds its range, its physical pages and its   *)
(* paging structures free.  The checksum of loader_data is a sum over its  *)
(* bytes, and is left to the model checker.                                *)
(***************************************************************************)
EXTENDS KeepProofs

USE FanoutAssumption, PoolAssumption, BootAssumption

-----------------------------------------------------------------------------
(* The inductive invariant.                                                *)

LoaderTables == {Root, BootPae, BootPdpt, BootPd}

GoesOn == stage \in {"entry", "retain", "retained", "mm", "heap"} => status = "running"

(* Since its constructor ran the heap has no region. *)
HeapUnused == stage \in {"validate", "retain", "retained", "mm", "heap"} => kernelHeap = NoHeap

(* heap::init() is about to call mm::alloc(): nothing has been allocated.  *)
NothingUsed ==
  stage = "mm" =>
    /\ mpc = "idle" /\ ~reverted
    /\ owned = {} /\ handed = {} /\ pages = <<>>
    /\ tracked = LoaderTables

(* It has called: the scan finds page after page free, and the first one   *)
(* that is bound finds the loader's tables only.                           *)
Asking == mpc = "phys" \/ mpc = "bind"
AskingRange == Asking => start = VirtStart /\ count = HeapPages /\ owned = {}
ScanInOrder ==
  mpc = "phys" =>
    /\ handed = {} /\ cursor = StartPage + Len(pages)
    /\ \A j \in DOMAIN pages : pages[j] < cursor
TablesFirst == mpc = "phys" \/ (mpc = "bind" /\ i = 0) => tracked = LoaderTables
HeapAsking ==
  stage = "heap" =>
    /\ ~reverted /\ AskingRange /\ ScanInOrder /\ TablesFirst
    /\ mpc = "idle" => owned # {}

ComesInv == KeepInv /\ GoesOn /\ HeapUnused /\ NothingUsed /\ HeapAsking

-----------------------------------------------------------------------------
(* Before mm::init().                                                      *)

EnteredStages == {"entry", "validate", "retain", "retained", "mm", "heap"}

(* A step of the loader does not enter the kernel. *)
LEMMA LoaderOutside ==
  ASSUME LoaderStep
  PROVE  stage' \notin EnteredStages
BY DEF LoaderStep, NewPdpt, MapLow, MapHigh, EnablePaging, Switch, FindLoadAddr, calculateLoadAddr,
       LoadAddrFound, CheckElf, SkipSegment, LoadSegment, PmDisable, NewPml4, MapLoader, LongStep,
       MapKernel, ApplyPml4, FillLoaderData, LoaderPanic, PageFault, At, EnteredStages

LEMMA ComesEarly ==
  ASSUME ComesInv, Loading \/ EnterKernel \/ Constructors \/ TakeOver
  PROVE  ComesInv'
<1>1. KeepInv'
  BY EarlySteps, KeepEarly DEF ComesInv, KeepInv
<1>2. CASE Loading
  <2>1. stage' \notin EnteredStages
    BY <1>2, LoaderOutside DEF Loading
  <2> QED
    BY <1>1, <2>1 DEF ComesInv, GoesOn, HeapUnused, NothingUsed, HeapAsking, EnteredStages
<1>3. CASE EnterKernel
  <2>1. stage' = "entry" /\ status' = "running"
    BY <1>3 DEF EnterKernel, LongEnter, Switch, At, pmvars
  <2> QED
    BY <1>1, <2>1 DEF ComesInv, GoesOn, HeapUnused, NothingUsed, HeapAsking
<1>4. CASE Constructors
  <2>1. stage' = "validate" /\ kernelHeap' = NoHeap
    BY <1>4 DEF Constructors
  <2> QED
    BY <1>1, <2>1 DEF ComesInv, GoesOn, HeapUnused, NothingUsed, HeapAsking
<1>5. CASE TakeOver
  <2>1. /\ stage \in {"validate", "retain"} /\ kernelHeap' = kernelHeap
        /\ \/ stage' = "validate"
           \/ stage' \in {"retain", "retained"} /\ status' = "running"
    BY <1>5 DEF TakeOver, Validate, Retain, LoaderPanic, At, pmvars
  <2>2. kernelHeap' = NoHeap
    BY <2>1 DEF ComesInv, HeapUnused
  <2> QED
    BY <1>1, <2>1, <2>2 DEF ComesInv, GoesOn, HeapUnused, NothingUsed, HeapAsking
<1> QED
  BY <1>2, <1>3, <1>4, <1>5

LEMMA ComesInitMemory ==
  ASSUME ComesInv, InitMemory
  PROVE  ComesInv'
<1>1. KeepInv' /\ Fresh'
  BY KeepInitMemory, InitMemoryFresh DEF ComesInv, KeepInv
<1>2. stage = "retained" /\ stage' = "mm" /\ status' = "running" /\ kernelHeap' = kernelHeap
  BY DEF InitMemory, At, pmvars
<1>3. tracked' = LoaderTables
  BY <1>1 DEF Fresh, Inherited, LoaderTables
<1>4. NothingUsed'
  BY <1>1, <1>3 DEF Fresh, NoCalls, PhysInit, NothingUsed
<1> QED
  BY <1>1, <1>2, <1>4 DEF ComesInv, GoesOn, HeapUnused, HeapAsking

-----------------------------------------------------------------------------
(* heap::init() calls mm::alloc().                                         *)

(* What holds while the heap asks for its pages *)
LEMMA HeapFacts ==
  ASSUME ComesInv, stage \in {"mm", "heap"}
  PROVE  /\ status = "running" /\ FirstCall /\ MemInv /\ TypeOK /\ Sound /\ GetIsByIndex
         /\ kernelHeap = NoHeap
<1>1. status = "running" /\ FirstCall /\ MemInv
  BY DEF ComesInv, GoesOn, KeepInv, SysInv, KernelStages
<1>2. TypeOK /\ Sound
  BY <1>1 DEF FirstCall, MemInv, MemTypeOK, SoundUntilFreed
<1>3. GetIsByIndex
  BY <1>2, SoundApart, ApartGet
<1> QED
  BY <1>1, <1>2, <1>3 DEF ComesInv, HeapUnused

(* The range the heap's pages are in: virtual pages behind the loader's,   *)
(* in one page directory.                                                  *)
LEMMA HeapRange ==
  /\ VirtStart \in Nat /\ 2 < VirtStart /\ VirtStart \in VirtStart .. (VirtEnd - 1)
  /\ HeapPages \in Nat \ {0} /\ HeapPages \in 1 .. MaxPages
  /\ \A v \in VirtStart .. (VirtStart + HeapPages - 1) :
       v \in VPages /\ Place(v) = Place(VirtStart)
<1>1. /\ VirtStart \in Nat /\ VirtEnd \in Nat /\ MaxPages \in Nat
      /\ 2 < VirtStart /\ VirtStart < VirtEnd /\ HeapPages \in 1 .. MaxPages
  BY VirtAssumption, HeapPagesAssumption, HeapFitsAssumption
<1>2. ASSUME NEW v \in VirtStart .. (VirtStart + HeapPages - 1)
      PROVE  v \in VPages
  <2> DEFINE n == Fanout * Fanout * Fanout
  <2>1. n \in Nat /\ VirtEnd + MaxPages <= n + 1
    BY VirtAssumption
  <2> HIDE DEF n
  <2>2. v \in Nat /\ v < n
    BY <1>1, <2>1
  <2> QED
    BY <2>2 DEF n, VPages
<1>3. ASSUME NEW v \in VirtStart .. (VirtStart + HeapPages - 1)
      PROVE  Place(v) = Place(VirtStart)
  <2> DEFINE q == VirtStart \div Fanout
             r == VirtStart % Fanout
  <2>1. q \in Nat /\ r \in Nat /\ VirtStart = Fanout * q + r /\ r + HeapPages <= Fanout
    BY <1>1, DivMod, HeapFitsAssumption
  <2> HIDE DEF q, r
  <2>2. PICK y \in 0 .. (Fanout - 1) : v = Fanout * q + y
    <3> DEFINE f == Fanout * q
    <3>1. f \in Nat /\ VirtStart = f + r
      BY <2>1
    <3> HIDE DEF f
    <3>2. v - f \in 0 .. (Fanout - 1) /\ v = f + (v - f)
      BY <1>1, <2>1, <3>1
    <3> QED
      BY <3>2 DEF f
  <2>3. v \div Fanout = q
    BY <2>1, <2>2, DivExact
  <2>4. v \div Fanout = VirtStart \div Fanout
    BY <2>3 DEF q
  <2>5. v \in Nat
    BY <1>1
  <2>6. Fanout \in Nat \ {0}
    OBVIOUS
  <2>7. /\ (v \div Fanout) \div Fanout = v \div (Fanout * Fanout)
        /\ (VirtStart \div Fanout) \div Fanout = VirtStart \div (Fanout * Fanout)
    BY <1>1, <2>5, <2>6, DivTwice, Zenon
  <2>8. v \div (Fanout * Fanout) = VirtStart \div (Fanout * Fanout)
    BY <2>4, <2>7
  <2> QED
    BY <2>4, <2>8 DEF Place, pml4i, pdpti
<1> QED
  BY <1>1, <1>2, <1>3

(* The first range of all is free. *)
LEMMA HeapRoom ==
  ASSUME ComesInv, stage = "mm"
  PROVE  Rooms(HeapPages) # {} /\ Lowest(Rooms(HeapPages)) = VirtStart /\ ~StraysLooking(HeapPages)
<1>1. FirstCall /\ GetIsByIndex /\ Residents = 0 .. 2
  BY HeapFacts DEF ComesInv, NothingUsed, Residents, Held, OwnedPages, CallHeld
<1>2. \A v \in VirtStart .. (VirtStart + HeapPages - 1) : v \in VPages /\ v \notin Residents
  BY <1>1, HeapRange
<1>3. VirtStart \in Rooms(HeapPages)
  BY <1>1, <1>2, HeapRange DEF FirstCall, Rooms, Room
<1>4. Rooms(HeapPages) \in SUBSET Nat /\ \A q \in Rooms(HeapPages) : VirtStart <= q
  BY HeapRange, VirtAssumption DEF Rooms
<1>5. Lowest(Rooms(HeapPages)) = VirtStart
  BY <1>3, <1>4, LowestIs
<1>6. LastTried(HeapPages) = VirtStart
  BY <1>3, <1>5 DEF LastTried
<1>7. Examined(LastTried(HeapPages), HeapPages) \subseteq VPages
  BY <1>2, <1>6 DEF Examined
<1> QED
  BY <1>1, <1>3, <1>5, <1>7 DEF StraysLooking, GetIsByIndex

LEMMA ComesAsks ==
  ASSUME ComesInv, HeapAsks
  PROVE  GoesOn' /\ HeapUnused' /\ NothingUsed' /\ HeapAsking'
<1>1. /\ stage = "mm" /\ stage' = "heap" /\ kernelHeap' = kernelHeap
      /\ AllocStart(HeapPages, {AF_RW})
  BY DEF HeapAsks, At
<1>2. status' = "running" /\ kernelHeap' = NoHeap
  BY <1>1, HeapFacts DEF AllocStart, pmvars
<1>3. /\ mpc' = "phys" /\ start' = VirtStart /\ count' = HeapPages
      /\ pages' = <<>> /\ cursor' = StartPage
      /\ owned' = owned /\ handed' = handed /\ reverted' = reverted /\ tracked' = tracked
  BY <1>1, HeapRoom DEF AllocStart, PhysStart, pmvars, mmhistory
<1>4. owned = {} /\ handed = {} /\ ~reverted /\ tracked = LoaderTables
  BY <1>1 DEF ComesInv, NothingUsed
<1>5. AskingRange' /\ TablesFirst'
  BY <1>3, <1>4 DEF AskingRange, TablesFirst
<1>6. ScanInOrder'
  BY <1>3, <1>4, PhysAssumption DEF ScanInOrder
<1> QED
  BY <1>1, <1>2, <1>3, <1>4, <1>5, <1>6 DEF GoesOn, HeapUnused, NothingUsed, HeapAsking

-----------------------------------------------------------------------------
(* Each step of that call.                                                 *)

(* The scan has not reached the end of the memory, and what it is at has   *)
(* no bit that is set: so few pages have a bit each.                       *)
LEMMA ScanFindsFree ==
  ASSUME ComesInv, stage = "heap", mpc = "phys", Len(pages) # count
  PROVE  cursor < PhysSize /\ ~Taken(cursor)
<1>1. /\ MemInv /\ ~reverted /\ count = HeapPages /\ handed = {}
      /\ cursor = StartPage + Len(pages) /\ \A j \in DOMAIN pages : pages[j] < cursor
  BY HeapFacts DEF ComesInv, HeapAsking, AskingRange, Asking, ScanInOrder
<1>2. /\ pages \in Seq(Frame) /\ Len(pages) \in Nat /\ Len(pages) < HeapPages
      /\ HeapPages \in Nat /\ StartPage \in Nat
  BY <1>1, HeapRange, PhysAssumption DEF MemInv, MemTypeOK, CallShape, Frame
<1>3. cursor \in Nat /\ cursor < PhysSize /\ cursor < IntBits - 1
  BY <1>1, <1>2, HeapFitsAssumption, PhysAssumption, WordAssumption
<1>4. ASSUME NEW n \in Nat, n <= cursor PROVE Mask(n) = {n}
  <2>1. IntBits \in Nat \ {0} /\ n < IntBits - 1
    BY <1>3, <1>4, WordAssumption
  <2>2. n % IntBits = n
    BY <2>1
  <2> QED
    BY <2>1, <2>2 DEF Mask
<1>5. ASSUME Taken(cursor) PROVE FALSE
  <2>1. PICK b : b \in words[Word(cursor)] /\ b \in Mask(cursor)
    BY <1>5 DEF Taken
  <2>2. Word(cursor) \in DOMAIN words
    <3>1. cursor \in Frame
      BY <1>1, <1>2, <1>3, PhysAssumption DEF Frame
    <3> QED
      BY <1>1, <3>1, WordOfFrame DEF MemInv, MemTypeOK
  <2>3. PICK n \in Used : b \in Mask(n)
    BY <1>1, <2>1, <2>2 DEF MemInv, BitmapInv, BitsOnly
  <2>4. n \in Nat /\ n < cursor
    <3>1. PICK j \in DOMAIN pages : n = pages[j]
      BY <1>1, <2>3 DEF Used
    <3>2. n \in Frame
      BY <1>2, <3>1
    <3> QED
      BY <1>1, <3>1, <3>2, PhysAssumption DEF Frame
  <2> QED
    BY <1>3, <1>4, <2>1, <2>3, <2>4
<1> QED
  BY <1>3, <1>5

(* Binding a page finds it unmapped and its structures there, or pages of  *)
(* the pool for them.                                                      *)
LEMMA HeapBinds ==
  ASSUME ComesInv, stage = "heap", BindPage
  PROVE  status' = "running"
<1>1. /\ status = "running" /\ FirstCall /\ MemInv /\ TypeOK /\ GetIsByIndex
      /\ mpc = "bind" /\ start = VirtStart /\ count = HeapPages /\ owned = {}
      /\ i = 0 => tracked = LoaderTables
  BY HeapFacts DEF ComesInv, HeapAsking, AskingRange, Asking, TablesFirst, BindPage
<1>2. i \in Nat /\ i < HeapPages /\ VirtStart \in Nat /\ HeapPages \in Nat
  BY <1>1, HeapRange DEF BindPage, MemInv, MemTypeOK
<1>3. PICK v, f : v = start + i /\ f = Phys(pages[i + 1])
  OBVIOUS
<1>4. Map(v, f, aflags)
  BY <1>3 DEF BindPage
<1>5. v \in VPages /\ Place(v) = Place(VirtStart) /\ VirtStart \in VPages
  <2>1. /\ v \in VirtStart .. (VirtStart + HeapPages - 1)
        /\ VirtStart \in VirtStart .. (VirtStart + HeapPages - 1)
    BY <1>1, <1>2, <1>3
  <2> QED
    BY <2>1, HeapRange
<1>6. Residents = (0 .. 2) \cup (VirtStart .. (VirtStart + i - 1))
  BY <1>1 DEF Residents, Held, OwnedPages, CallHeld
<1>7. ~HasPage(v) /\ ~Astray(v)
  <2>1. v \notin Residents
    BY <1>1, <1>2, <1>3, <1>6, HeapRange
  <2> QED
    BY <1>1, <1>5, <2>1 DEF FirstCall, GetIsByIndex
<1>8. CASE HasPd(v)
  <2>1. ~Present(pde(v))
    BY <1>7, <1>8 DEF HasPage
  <2> QED
    BY <1>1, <1>4, <1>7, <1>8, <2>1 DEF Map, MapEntry, MapNewPd, MapNewPdpt, HasPd
<1>9. CASE ~HasPd(v)
  <2>1. i = 0
    <3> SUFFICES ASSUME i # 0 PROVE FALSE
      OBVIOUS
    <3>1. VirtStart \in Residents
      BY <1>2, <1>6
    <3>2. HasPd(VirtStart)
      BY <1>1, <1>5, <3>1 DEF FirstCall, HasPage
    <3>3. HasPd(v) <=> HasPd(VirtStart)
      BY <1>1, <1>5 DEF GetIsByIndex, Place
    <3> QED
      BY <1>9, <3>2, <3>3
  <2>2. {4, 5} \subseteq Untracked
    BY <1>1, <2>1, HeapFitsAssumption
       DEF LoaderTables, Untracked, Pages, Root, BootPae, BootPdpt, BootPd
  <2>3. Untracked # {} /\ ~(Cardinality(Untracked) < 2)
    <3>1. Cardinality({4, 5}) = 2
      <4>1. IsFiniteSet({4}) /\ Cardinality({4}) = 1
        BY FS_Singleton
      <4>2. 5 \notin {4} /\ {4, 5} = {4} \cup {5}
        OBVIOUS
      <4> QED
        BY <4>1, <4>2, FS_AddElement
    <3>2. Cardinality({4, 5}) <= Cardinality(Untracked) /\ Cardinality(Untracked) \in Nat
      BY <2>2, UntrackedPages, FS_Subset
    <3> QED
      BY <2>2, <3>1, <3>2
  <2> QED
    BY <1>1, <1>4, <1>7, <1>9, <2>3 DEF Map, MapEntry, MapNewPd, MapNewPdpt, HasPage
<1> QED
  BY <1>8, <1>9

LEMMA ComesCallStep ==
  ASSUME ComesInv, MemoryStep
  PROVE  GoesOn' /\ HeapUnused' /\ NothingUsed' /\ HeapAsking'
<1>1. CallStep /\ stage' = stage /\ kernelHeap' = kernelHeap /\ mpc # "idle"
  BY DEF MemoryStep, CallStep, bootvars, AllocScan, AllocBind, AllocFail, BindPage, AllocDone,
         FreePage, FreeDone
<1>2. stage \in {"heap", "up"}
  <2>1. stage \in KernelStages
    BY <1>1 DEF ComesInv, KeepInv, SysInv, NothingYet, NoCalls
  <2> QED
    BY <1>1, <2>1 DEF ComesInv, NothingUsed, KernelStages
<1>3. CASE stage = "up"
  BY <1>1, <1>3 DEF GoesOn, HeapUnused, NothingUsed, HeapAsking
<1>4. CASE stage = "heap"
  <2>1. /\ status = "running" /\ kernelHeap = NoHeap /\ MemInv /\ ~reverted /\ mpc # "free"
        /\ AskingRange /\ ScanInOrder /\ TablesFirst
    BY <1>4, HeapFacts DEF ComesInv, HeapAsking, FirstCall
  <2> SUFFICES status' = "running" /\ HeapAsking'
    BY <1>1, <1>4, <2>1 DEF GoesOn, HeapUnused, NothingUsed
  <2>2. pages \in Seq(Frame) /\ Len(pages) \in Nat /\ StartPage \in Nat
    BY <2>1, PhysAssumption DEF MemInv, MemTypeOK, Frame
  <2>3. CASE AllocScan
    <3>1. /\ mpc = "phys" /\ PhysTake(count)
          /\ UNCHANGED <<pmvars, mmcall, mmhistory>>
      BY <1>4, <2>3, ScanFindsFree DEF AllocScan, PhysSkip
    <3>2. pages' = Append(pages, cursor) /\ cursor' = cursor + 1
      BY <3>1 DEF PhysTake
    <3>3. ScanInOrder'
      <4>1. handed' = {} /\ cursor = StartPage + Len(pages) /\ \A j \in DOMAIN pages : pages[j] < cursor
        BY <2>1, <3>1 DEF ScanInOrder, mmhistory
      <4>2. Len(pages') = Len(pages) + 1 /\ cursor' = StartPage + Len(pages')
        BY <2>2, <3>2, <4>1
      <4>3. ASSUME NEW j \in DOMAIN pages' PROVE pages'[j] < cursor'
        <5>1. CASE j \in DOMAIN pages
          <6>1. pages[j] \in Int
            BY <2>2, <5>1, PhysAssumption DEF Frame
          <6>2. pages'[j] = pages[j]
            BY <2>2, <3>2, <5>1
          <6> QED
            BY <2>2, <3>2, <4>1, <5>1, <6>1, <6>2
        <5>2. CASE j \notin DOMAIN pages
          <6>1. j = Len(pages) + 1
            BY <2>2, <3>2, <4>2, <4>3, <5>2
          <6>2. pages'[j] = cursor
            BY <2>2, <3>2, <6>1
          <6> QED
            BY <2>2, <3>2, <4>1, <6>2
        <5> QED
          BY <5>1, <5>2
      <4> QED
        BY <4>1, <4>2, <4>3 DEF ScanInOrder
    <3>4. AskingRange' /\ TablesFirst' /\ status' = "running" /\ mpc' = "phys" /\ ~reverted'
      BY <2>1, <3>1 DEF AskingRange, Asking, TablesFirst, pmvars, mmcall, mmhistory
    <3> QED
      BY <3>3, <3>4 DEF HeapAsking
  <2>4. CASE AllocBind
    <3>1. mpc = "phys" /\ mpc' = "bind" /\ UNCHANGED <<pmvars, start, count, i, mmhistory>>
      BY <2>4 DEF AllocBind
    <3>2. AskingRange' /\ TablesFirst' /\ ScanInOrder'
      BY <2>1, <3>1 DEF AskingRange, Asking, TablesFirst, ScanInOrder, pmvars, mmhistory
    <3> QED
      BY <2>1, <3>1, <3>2 DEF HeapAsking, pmvars, mmhistory
  <2>5. CASE AllocFail
    <3>1. mpc = "phys" /\ Len(pages) # count /\ cursor >= PhysSize
      BY <2>5 DEF AllocFail, PhysFail
    <3>2. cursor < PhysSize
      BY <1>4, <3>1, ScanFindsFree
    <3> QED
      BY <2>1, <3>1, <3>2, PhysAssumption DEF MemInv, MemTypeOK
  <2>6. CASE BindPage
    <3>1. /\ mpc = "bind" /\ mpc' = "bind" /\ i' = i + 1
          /\ UNCHANGED <<start, count, owned, reverted>>
      BY <2>6 DEF BindPage
    <3>2. i' # 0
      BY <2>1, <3>1 DEF MemInv, MemTypeOK
    <3>3. AskingRange' /\ TablesFirst' /\ ScanInOrder'
      BY <2>1, <3>1, <3>2 DEF AskingRange, Asking, TablesFirst, ScanInOrder
    <3> QED
      BY <1>4, <2>1, <2>6, <3>1, <3>3, HeapBinds DEF HeapAsking
  <2>7. CASE AllocDone
    <3>1. mpc' = "idle" /\ owned' # {} /\ UNCHANGED <<pmvars, reverted>>
      BY <2>7 DEF AllocDone, Return
    <3>2. AskingRange' /\ TablesFirst' /\ ScanInOrder'
      BY <3>1 DEF AskingRange, Asking, TablesFirst, ScanInOrder
    <3> QED
      BY <2>1, <3>1, <3>2 DEF HeapAsking, pmvars
  <2> QED
    BY <1>1, <2>1, <2>3, <2>4, <2>5, <2>6, <2>7 DEF CallStep, FreePage, FreeDone
<1> QED
  BY <1>2, <1>3, <1>4

LEMMA ComesGets ==
  ASSUME ComesInv, HeapGets
  PROVE  GoesOn' /\ HeapUnused' /\ NothingUsed' /\ HeapAsking'
<1>1. stage = "heap" /\ mpc = "idle"
  BY DEF HeapGets, At
<1>2. owned # {} /\ kernelHeap.size = 0
  BY <1>1, HeapFacts DEF ComesInv, HeapAsking, NoHeap
<1>3. stage' = "up"
  BY <1>2 DEF HeapGets
<1> QED
  BY <1>3 DEF GoesOn, HeapUnused, NothingUsed, HeapAsking

-----------------------------------------------------------------------------
(* The specification.                                                      *)

LEMMA ComesInitInv == SysInit => ComesInv
<1> SUFFICES ASSUME SysInit PROVE ComesInv
  OBVIOUS
<1>1. stage = "pdpt"
  BY DEF SysInit, BootInit
<1> QED
  BY <1>1, KeepInitInv DEF ComesInv, GoesOn, HeapUnused, NothingUsed, HeapAsking

LEMMA ComesStepInv == ComesInv /\ [SysNext]_sysvars => ComesInv'
<1> SUFFICES ASSUME ComesInv, [SysNext]_sysvars PROVE ComesInv'
  OBVIOUS
<1>1. KeepInv'
  BY KeepStepInv DEF ComesInv
<1>2. CASE Loading \/ EnterKernel \/ Constructors \/ TakeOver
  BY <1>2, ComesEarly
<1>3. CASE InitMemory
  BY <1>3, ComesInitMemory
<1>4. CASE HeapAsks
  BY <1>1, <1>4, ComesAsks DEF ComesInv
<1>5. CASE MemoryStep
  BY <1>1, <1>5, ComesCallStep DEF ComesInv
<1>6. CASE HeapGets
  BY <1>1, <1>6, ComesGets DEF ComesInv
<1>7. CASE Calls
  <2>1. stage' = "up"
    BY <1>7 DEF Calls, At, bootvars
  <2> QED
    BY <1>1, <2>1 DEF ComesInv, GoesOn, HeapUnused, NothingUsed, HeapAsking
<1>8. CASE UNCHANGED sysvars
  <2>1. GoesOn' /\ HeapUnused' /\ NothingUsed'
    BY <1>8 DEF ComesInv, GoesOn, HeapUnused, NothingUsed, sysvars, bootvars, pmvars, physvars,
                mmcall, mmhistory
  <2>2. HeapAsking'
    BY <1>8 DEF ComesInv, HeapAsking, AskingRange, Asking, ScanInOrder, TablesFirst, sysvars,
                bootvars, pmvars, physvars, mmcall, mmhistory
  <2> QED
    BY <1>1, <2>1, <2>2 DEF ComesInv
<1> QED
  BY <1>2, <1>3, <1>4, <1>5, <1>6, <1>7, <1>8 DEF SysNext, Running, KernelStep, Stops

LEMMA ComesInvariant == SysSpec => []ComesInv
BY ComesInitInv, ComesStepInv, PTL DEF SysSpec

(***************************************************************************)
(* EnteredGoesOn: a kernel that was entered does not stop, apart from the  *)
(* checksum: retainLoaderPaging() and mm::init() find what they assert,    *)
(* and heap::init() gets its pages and finds no heap in use, for every     *)
(* list of modules, every kernel the loader accepts and whatever the .bss  *)
(* and the pool held (entry.s, main.cpp:14-40, heap.cpp:10-20).            *)
(***************************************************************************)
THEOREM EnteredGoesOn == SysSpec => [](stage # "validate" => EnteredNeverStops)
<1>1. ComesInv => (stage # "validate" => EnteredNeverStops)
  BY DEF ComesInv, GoesOn, EnteredNeverStops, Entered
<1> QED
  BY <1>1, ComesInvariant, PTL

(***************************************************************************)
(* HeapFindsRange: when heap::init() calls mm::alloc(), findVirtualRange() *)
(* finds a range, and it is the first page of m_virtualAllocRange: the     *)
(* call that System's HeapAsks makes is the one that is always possible    *)
(* (heap.cpp:10-20, mm.cpp:105-130).                                       *)
(***************************************************************************)
THEOREM HeapFindsRange ==
  SysSpec => [](stage = "mm" => /\ Rooms(HeapPages) # {} /\ ~StraysLooking(HeapPages)
                                /\ Lowest(Rooms(HeapPages)) = VirtStart)
<1>1. ComesInv => (stage = "mm" => /\ Rooms(HeapPages) # {} /\ ~StraysLooking(HeapPages)
                                   /\ Lowest(Rooms(HeapPages)) = VirtStart)
  BY HeapRoom
<1> QED
  BY <1>1, ComesInvariant, PTL

-----------------------------------------------------------------------------
(* Where the heap is.                                                      *)

FirstRange == VirtStart .. (VirtStart + HeapPages - 1)
FirstFrame(v) == Phys(StartPage + (v - VirtStart))

InOrder == \A m \in DOMAIN pages : pages[m] = StartPage + (m - 1)
BoundInOrder == \A v \in FirstRange : v < start + i => Get(v) = FirstFrame(v)
BlockInOrder == \A b \in owned : b.start = VirtStart /\ b.count = HeapPages
AllInOrder == \A v \in FirstRange : Get(v) = FirstFrame(v)
HeapInOrder ==
  /\ kernelHeap = [base |-> VirtStart, size |-> HeapPages]
  /\ backing = [v \in FirstRange |-> FirstFrame(v)]

PlaceInv ==
  /\ ComesInv
  /\ stage = "heap" =>
       /\ Asking => InOrder
       /\ mpc = "bind" => BoundInOrder
       /\ mpc = "idle" => BlockInOrder /\ AllInOrder
  /\ stage = "up" => HeapInOrder

LEMMA PlaceAsks ==
  ASSUME PlaceInv, HeapAsks
  PROVE  PlaceInv'
<1>1. ComesInv'
  BY ComesAsks, KeepStepInv DEF PlaceInv, ComesInv, SysNext, Running, KernelStep
<1>2. stage' = "heap" /\ mpc' = "phys" /\ pages' = <<>>
  BY DEF HeapAsks, AllocStart, PhysStart
<1> QED
  BY <1>1, <1>2 DEF PlaceInv, Asking, InOrder

LEMMA PlaceBinds ==
  ASSUME PlaceInv, stage = "heap", BindPage
  PROVE  BoundInOrder'
<1>1. /\ FirstCall /\ MemInv /\ TypeOK /\ Sound /\ mpc = "bind"
      /\ start = VirtStart /\ count = HeapPages /\ InOrder /\ BoundInOrder
  BY HeapFacts DEF PlaceInv, ComesInv, HeapAsking, AskingRange, Asking, BindPage
<1>2. i \in Nat /\ i < HeapPages /\ VirtStart \in Nat /\ HeapPages \in Nat
  BY <1>1, HeapRange DEF BindPage, MemInv, MemTypeOK
<1>3. PICK v, m : v = start + i /\ m = pages[i + 1]
  OBVIOUS
<1>4. v \in VPages /\ i + 1 \in DOMAIN pages /\ Phys(m) \in Nat /\ aflags \in SUBSET FlagBits
  BY <1>1, <1>2, <1>3, BindArguments DEF MemInv
<1>5. m = StartPage + i
  BY <1>1, <1>2, <1>3, <1>4 DEF InOrder
<1>6. Map(v, Phys(m), aflags) /\ status' = "running" /\ start' = start /\ i' = i + 1
  BY <1>3, HeapBinds DEF BindPage, PlaceInv
<1>7. MapsOne(v, Phys(m))
  BY <1>1, <1>4, <1>6, MapSound DEF MapOutcome
<1>8. ASSUME NEW u \in FirstRange, u < start' + i' PROVE Get(u)' = FirstFrame(u)
  <2>1. u \in VPages /\ u \in Nat
    BY HeapRange DEF FirstRange
  <2>2. CASE u = v
    <3>1. u - VirtStart = i
      BY <1>1, <1>2, <1>3, <2>2
    <3> QED
      BY <1>5, <1>7, <2>2, <3>1 DEF MapsOne, FirstFrame
  <2>3. CASE u # v
    <3>1. u < start + i
      BY <1>1, <1>2, <1>3, <1>6, <1>8, <2>1, <2>3
    <3> QED
      BY <1>1, <1>7, <2>1, <2>3, <3>1 DEF MapsOne, BoundInOrder
  <2> QED
    BY <2>2, <2>3
<1> QED
  BY <1>8 DEF BoundInOrder, FirstRange, FirstFrame, Phys

LEMMA PlaceCallStep ==
  ASSUME PlaceInv, MemoryStep
  PROVE  PlaceInv'
<1>1. ComesInv'
  BY ComesCallStep, KeepStepInv DEF PlaceInv, ComesInv, SysNext, Running
<1>2. /\ CallStep /\ stage' = stage /\ kernelHeap' = kernelHeap /\ backing' = backing
  BY DEF MemoryStep, bootvars
<1>3. CASE stage # "heap"
  BY <1>1, <1>2, <1>3 DEF PlaceInv, HeapInOrder
<1>4. CASE stage = "heap"
  <2>1. /\ status = "running" /\ MemInv /\ FirstCall
        /\ AskingRange /\ ScanInOrder
    BY <1>4, HeapFacts DEF PlaceInv, ComesInv, HeapAsking
  <2>2. /\ pages \in Seq(Frame) /\ Len(pages) \in Nat /\ StartPage \in Nat /\ VirtStart \in Nat
        /\ i \in Nat
    BY <2>1, HeapRange, PhysAssumption DEF MemInv, MemTypeOK, Frame
  <2>3. CASE AllocScan
    <3>1. mpc = "phys" /\ mpc' = "phys" /\ PhysTake(count)
      BY <1>4, <2>3, ScanFindsFree DEF AllocScan, PhysSkip, PlaceInv, mmcall
    <3>2. pages' = Append(pages, cursor) /\ cursor = StartPage + Len(pages) /\ InOrder
      BY <1>4, <2>1, <3>1 DEF PhysTake, ScanInOrder, PlaceInv, Asking
    <3>3. ASSUME NEW m \in DOMAIN pages' PROVE pages'[m] = StartPage + (m - 1)
      <4>1. CASE m \in DOMAIN pages
        <5>1. pages'[m] = pages[m]
          BY <2>2, <3>2, <4>1
        <5> QED
          BY <3>2, <4>1, <5>1 DEF InOrder
      <4>2. CASE m \notin DOMAIN pages
        <5>1. m = Len(pages) + 1
          BY <2>2, <3>2, <3>3, <4>2
        <5>2. pages'[m] = cursor
          BY <2>2, <3>2, <5>1
        <5> QED
          BY <2>2, <3>2, <5>1, <5>2
      <4> QED
        BY <4>1, <4>2
    <3> QED
      BY <1>1, <1>2, <1>4, <3>1, <3>3 DEF PlaceInv, InOrder
  <2>4. CASE AllocBind
    <3>1. /\ mpc = "phys" /\ mpc' = "bind" /\ start' = start /\ i' = i /\ pages' = pages /\ i = 0
      BY <2>1, <2>4 DEF AllocBind, PhysDone, physvars, MemInv, CallShape
    <3>2. start = VirtStart
      BY <2>1, <3>1 DEF AskingRange, Asking
    <3>3. BoundInOrder'
      BY <2>2, <3>1, <3>2 DEF BoundInOrder, FirstRange
    <3>4. InOrder'
      BY <1>4, <3>1 DEF PlaceInv, Asking, InOrder
    <3> QED
      BY <1>1, <1>2, <1>4, <3>1, <3>3, <3>4 DEF PlaceInv
  <2>5. ~AllocFail
    <3>1. ASSUME AllocFail PROVE FALSE
      <4>1. mpc = "phys" /\ Len(pages) # count /\ cursor >= PhysSize
        BY <3>1 DEF AllocFail, PhysFail
      <4>2. cursor < PhysSize
        BY <1>4, <4>1, ScanFindsFree DEF PlaceInv
      <4> QED
        BY <2>1, <4>1, <4>2, PhysAssumption DEF MemInv, MemTypeOK
    <3> QED
      BY <3>1
  <2>6. CASE BindPage
    <3>1. mpc = "bind" /\ mpc' = "bind" /\ pages' = pages
      BY <2>6 DEF BindPage, physvars
    <3>2. BoundInOrder'
      BY <1>4, <2>6, PlaceBinds
    <3>3. InOrder'
      BY <1>4, <3>1 DEF PlaceInv, Asking, InOrder
    <3> QED
      BY <1>1, <1>2, <1>4, <3>1, <3>2, <3>3 DEF PlaceInv
  <2>7. CASE AllocDone
    <3>1. /\ mpc = "bind" /\ i = count /\ mpc' = "idle" /\ UNCHANGED pmvars
          /\ owned' = owned \cup {[start |-> start, count |-> count, flags |-> aflags]}
      BY <2>7 DEF AllocDone, Return
    <3>2. start = VirtStart /\ count = HeapPages /\ owned = {} /\ BoundInOrder
      BY <1>4, <2>1, <3>1 DEF AskingRange, Asking, PlaceInv
    <3>3. BlockInOrder'
      BY <3>1, <3>2 DEF BlockInOrder
    <3>4. \A v : Get(v)' = Get(v)
      BY <3>1, GetSame DEF pmvars
    <3>5. \A v \in FirstRange : v < start + i
      BY <2>2, <3>1, <3>2, HeapRange DEF FirstRange
    <3>6. \A v \in FirstRange : Get(v)' = FirstFrame(v)
      BY <3>2, <3>4, <3>5 DEF BoundInOrder
    <3>7. AllInOrder'
      BY <3>6 DEF AllInOrder, FirstRange, FirstFrame, Phys
    <3> QED
      BY <1>1, <1>2, <1>4, <3>1, <3>3, <3>7 DEF PlaceInv, Asking
  <2> QED
    BY <1>2, <2>1, <2>3, <2>4, <2>5, <2>6, <2>7 DEF CallStep, FreePage, FreeDone, FirstCall
<1> QED
  BY <1>3, <1>4

LEMMA PlaceGets ==
  ASSUME PlaceInv, HeapGets
  PROVE  PlaceInv'
<1>1. ComesInv'
  BY ComesGets, KeepStepInv DEF PlaceInv, ComesInv, SysNext, Running, KernelStep
<1>2. stage = "heap" /\ mpc = "idle" /\ kernelHeap = NoHeap
  BY HeapFacts DEF HeapGets, At, PlaceInv
<1>3. owned # {} /\ BlockInOrder /\ AllInOrder
  BY <1>2 DEF PlaceInv, ComesInv, HeapAsking
<1>4. /\ stage' = "up"
      /\ \E b \in owned : /\ kernelHeap' = [base |-> b.start, size |-> b.count]
                          /\ backing' = [v \in PagesOf(b) |-> Get(v)]
  BY <1>2, <1>3 DEF HeapGets, NoHeap
<1>5. PICK b \in owned : /\ kernelHeap' = [base |-> b.start, size |-> b.count]
                         /\ backing' = [v \in PagesOf(b) |-> Get(v)]
  BY <1>4
<1>6. b.start = VirtStart /\ b.count = HeapPages /\ PagesOf(b) = FirstRange
  BY <1>3 DEF BlockInOrder, PagesOf, FirstRange
<1>7. HeapInOrder'
  BY <1>3, <1>5, <1>6 DEF HeapInOrder, AllInOrder, FirstRange, FirstFrame, Phys
<1> QED
  BY <1>1, <1>4, <1>7 DEF PlaceInv

LEMMA PlaceInit == SysInit => PlaceInv
BY ComesInitInv DEF PlaceInv, SysInit, BootInit

LEMMA PlaceStepInv == PlaceInv /\ [SysNext]_sysvars => PlaceInv'
<1> SUFFICES ASSUME PlaceInv, [SysNext]_sysvars PROVE PlaceInv'
  OBVIOUS
<1>1. ComesInv'
  BY ComesStepInv DEF PlaceInv
<1>2. CASE Loading \/ EnterKernel \/ Constructors \/ TakeOver \/ InitMemory
  <2>1. stage' \notin {"heap", "up"}
    <3>1. CASE Loading \/ EnterKernel \/ Constructors \/ TakeOver
      <4>1. EarlyStep /\ stage \in BootStages
        BY <3>1, EarlySteps, EarlyOnly DEF PlaceInv, ComesInv, KeepInv, SysInv, EarlyStep
      <4>2. stage' \in BootStages
        BY <4>1, EarlyStages DEF EarlyStep
      <4> QED
        BY <4>2 DEF BootStages, PaeStages, LongStages
    <3>2. CASE InitMemory
      BY <3>2 DEF InitMemory
    <3> QED
      BY <1>2, <3>1, <3>2
  <2> QED
    BY <1>1, <2>1 DEF PlaceInv
<1>3. CASE HeapAsks
  BY <1>3, PlaceAsks
<1>4. CASE MemoryStep
  BY <1>4, PlaceCallStep
<1>5. CASE HeapGets
  BY <1>5, PlaceGets
<1>6. CASE Calls
  <2>1. stage = "up" /\ stage' = "up" /\ kernelHeap' = kernelHeap /\ backing' = backing
    BY <1>6 DEF Calls, At, bootvars
  <2> QED
    BY <1>1, <2>1 DEF PlaceInv, HeapInOrder
<1>7. CASE UNCHANGED sysvars
  <2>1. /\ UNCHANGED <<stage, mpc, start, i, pages, owned, kernelHeap, backing>>
        /\ UNCHANGED pmvars
    BY <1>7 DEF sysvars, bootvars, physvars, mmcall, mmhistory
  <2>2. \A v : Get(v)' = Get(v)
    BY <2>1, GetSame DEF pmvars
  <2>3. /\ InOrder' <=> InOrder
        /\ BlockInOrder' <=> BlockInOrder
        /\ HeapInOrder' <=> HeapInOrder
    BY <2>1 DEF InOrder, BlockInOrder, HeapInOrder
  <2>4. BoundInOrder => BoundInOrder'
    BY <2>1, <2>2 DEF BoundInOrder, FirstRange, FirstFrame, Phys
  <2>5. AllInOrder => AllInOrder'
    BY <2>2 DEF AllInOrder, FirstRange, FirstFrame, Phys
  <2> QED
    BY <1>1, <2>1, <2>3, <2>4, <2>5 DEF PlaceInv, Asking
<1> QED
  BY <1>2, <1>3, <1>4, <1>5, <1>6, <1>7 DEF SysNext, Running, KernelStep, Stops

(***************************************************************************)
(* HeapIsFirst: the heap of every kernel that is up begins at the start of *)
(* m_virtualAllocRange, and was given the physical pages from the first on *)
(* in order, one contiguous region, whatever the machine started with      *)
(* (heap.cpp:10-20, mm.cpp:34-94).                                         *)
(***************************************************************************)
THEOREM HeapIsFirst ==
  SysSpec => [](stage = "up" =>
    /\ kernelHeap = [base |-> VirtStart, size |-> HeapPages]
    /\ backing = [v \in VirtStart .. (VirtStart + HeapPages - 1) |->
                    Phys(StartPage + (v - VirtStart))])
<1>1. PlaceInv => (stage = "up" =>
        /\ kernelHeap = [base |-> VirtStart, size |-> HeapPages]
        /\ backing = [v \in VirtStart .. (VirtStart + HeapPages - 1) |->
                        Phys(StartPage + (v - VirtStart))])
  BY DEF PlaceInv, HeapInOrder, FirstRange, FirstFrame
<1>2. SysSpec => []PlaceInv
  BY PlaceInit, PlaceStepInv, PTL DEF SysSpec
<1> QED
  BY <1>1, <1>2, PTL
=============================================================================
