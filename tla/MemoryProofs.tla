---------------------------- MODULE MemoryProofs ----------------------------
(***************************************************************************)
(* Proofs about the memory manager and the physical page allocator, for    *)
(* every bitmap, every range of virtual pages, and everything clients ask  *)
(* for.                                                                    *)
(***************************************************************************)
EXTENDS Memory, PagingProofs

USE FanoutAssumption, PoolAssumption

-----------------------------------------------------------------------------
(* The inductive invariant.                                                *)

Frame == StartPage .. (PhysSize - 1)

(* The physical pages in use: bound to a block, or taken by the last call. *)
Used == handed \cup {pages[j] : j \in DOMAIN pages}

(* Arguments and locals of the running call. *)
CallShape ==
  /\ mpc # "idle" => start \in VirtStart .. (VirtEnd - 1)
  /\ mpc \in {"phys", "bind"} => count \in 1 .. MaxPages /\ aflags \in AllocFlags
  /\ mpc = "phys" => i = 0 /\ Len(pages) <= count /\ cursor >= StartPage
  /\ mpc = "bind" => Len(pages) = count
  /\ \A b \in owned : b.start \in VirtStart .. (VirtEnd - 1)
  /\ handed \subseteq Frame

(* The bits of the bitmap are those of the pages in use. *)
BitsSet == \A n \in Used : Mask(n) \subseteq words[Word(n)]
BitsOnly == \A w \in DOMAIN words : \A b \in words[w] : \E n \in Used : Word(n) = w /\ b \in Mask(n)

(* What the running call has taken is new until it is bound. *)
TakenNew ==
  mpc \in {"phys", "bind"} =>
    /\ \A j, k \in DOMAIN pages : pages[j] = pages[k] => j = k
    /\ \A j \in DOMAIN pages : j > i => pages[j] \notin handed

(* A call that is done with its pages has bound them all. *)
TakenBound ==
  /\ mpc = "bind" => \A j \in 1 .. i : pages[j] \in handed
  /\ mpc \in {"idle", "free"} => \A j \in DOMAIN pages : pages[j] \in handed

(* Every page the scan has passed is taken. *)
PassedTaken == mpc = "phys" => \A n \in Frame : n < cursor => Taken(n)

BitmapInv == ~reverted => BitsSet /\ BitsOnly /\ TakenNew /\ TakenBound /\ PassedTaken

CallPages == start .. (start + count - 1)
Backed(v) == \E n \in handed : Get(v) = Phys(n)

(* The pages of a running alloc(): apart from every block, free as far as  *)
(* they are not bound yet, and backed as far as they are.                  *)
CallApart ==
  mpc \in {"phys", "bind"} =>
    /\ CallPages \cap OwnedPages = {}
    /\ status = "running" =>
         /\ \A v \in CallPages : v >= start + i => ~HasPage(v)
         /\ \A v \in CallPages : v < start + i => Backed(v)

BlocksInv == ~freed => BlocksMapped /\ CallApart

(* The pages in use that are bound already have a physical page each.      *)
BoundPages == IF mpc = "bind" /\ status = "running" THEN start .. (start + i - 1) ELSE {}
FramesInv ==
  ~freed /\ ~reverted =>
    \A u, v \in OwnedPages \cup BoundPages : Get(u) = Get(v) => u = v

(* What the loader mapped stays mapped. *)
LoaderKept == ~freed => \A v \in 0 .. 2 : HasPage(v) /\ Get(v) = BootMap[v]

MemInv ==
  /\ MemTypeOK /\ SoundUntilFreed /\ CallShape /\ BitmapInv
  /\ BlocksInv /\ FramesInv /\ LoaderKept

-----------------------------------------------------------------------------
(* Words and masks of the bitmap.                                          *)

(* Division keeps the order. *)
LEMMA DivMono ==
  ASSUME NEW a \in Nat, NEW b \in Nat, NEW c \in Nat \ {0}, a <= b
  PROVE  a \div c \in Nat /\ a \div c <= b \div c
<1> DEFINE x == a \div c
           y == b \div c
<1>1. x \in Nat /\ y \in Nat /\ c * x <= a /\ b < c * y + c
  BY DivMod
<1> HIDE DEF x, y
<1>2. ASSUME x > y PROVE FALSE
  <2>1. c * (x - y) >= c /\ c * x = c * y + c * (x - y)
    BY <1>1, <1>2
  <2> QED
    BY <1>1, <2>1
<1>3. x \in Nat /\ x <= y
  BY <1>1, <1>2
<1> QED
  BY <1>3 DEF x, y

(* The word of a physical page is one of the bitmap. *)
LEMMA WordOfFrame ==
  ASSUME NEW n \in Frame
  PROVE  n \in Nat /\ Word(n) \in 0 .. Word(PhysSize)
<1>1. n \in Nat /\ PhysSize \in Nat /\ n <= PhysSize /\ WordBits \in Nat \ {0}
  BY PhysAssumption, WordAssumption DEF Frame
<1>2. n \div WordBits \in Nat /\ PhysSize \div WordBits \in Nat
      /\ n \div WordBits <= PhysSize \div WordBits
  BY <1>1, DivMono
<1> QED
  BY <1>1, <1>2 DEF Word

(* A mask is a non-empty set of bits, and two masks that meet are the same.*)
LEMMA MaskFacts ==
  ASSUME NEW n \in Nat
  PROVE  /\ Mask(n) \subseteq Bits /\ Mask(n) # {}
         /\ \A m \in Nat : Mask(m) \cap Mask(n) # {} => Mask(m) = Mask(n)
<1>1. /\ IntBits \in Nat \ {0} /\ WordBits \in Nat /\ IntBits < WordBits
      /\ IntBits - 1 \in (IntBits - 1) .. (WordBits - 1)
  BY WordAssumption
<1>2. ASSUME NEW m \in Nat
      PROVE  \E r \in 0 .. (IntBits - 1) :
               Mask(m) = IF r = IntBits - 1 THEN (IntBits - 1) .. (WordBits - 1) ELSE {r}
  <2>1. m % IntBits \in 0 .. (IntBits - 1)
    BY <1>1, DivMod
  <2> QED
    BY <2>1 DEF Mask
<1>3. PICK x \in 0 .. (IntBits - 1) :
        Mask(n) = IF x = IntBits - 1 THEN (IntBits - 1) .. (WordBits - 1) ELSE {x}
  BY <1>2
<1>4. Mask(n) \subseteq Bits /\ Mask(n) # {}
  BY <1>1, <1>3 DEF Bits
<1>5. ASSUME NEW m \in Nat, Mask(m) \cap Mask(n) # {} PROVE Mask(m) = Mask(n)
  <2>1. PICK y \in 0 .. (IntBits - 1) :
          Mask(m) = IF y = IntBits - 1 THEN (IntBits - 1) .. (WordBits - 1) ELSE {y}
    BY <1>2
  <2>2. PICK b : b \in Mask(m) /\ b \in Mask(n)
    BY <1>5
  <2>3. CASE x = IntBits - 1
    BY <1>1, <1>3, <2>1, <2>2, <2>3
  <2>4. CASE x # IntBits - 1
    BY <1>1, <1>3, <2>1, <2>2, <2>4
  <2> QED
    BY <2>3, <2>4
<1> QED
  BY <1>4, <1>5

-----------------------------------------------------------------------------
(* The paging structures under the memory manager.                         *)

(* The pages of a call are virtual pages, below the end of the range.      *)
LEMMA CallPageInRange ==
  ASSUME MemTypeOK, CallShape, mpc # "idle", NEW k \in 0 .. (count - 1)
  PROVE  start + k \in VPages /\ start + k \in Nat
<1>1. start \in Nat /\ start < VirtEnd /\ k \in Nat /\ k < MaxPages
  BY VirtAssumption DEF MemTypeOK, CallShape
<1>2. start + k < Fanout * Fanout * Fanout
  <2> DEFINE n == Fanout * Fanout * Fanout
  <2>1. n \in Nat /\ VirtEnd + MaxPages <= n + 1
    BY VirtAssumption
  <2> HIDE DEF n
  <2>2. start + k < n
    BY <1>1, <2>1, VirtAssumption
  <2> QED
    BY <2>2 DEF n
<1> QED
  BY <1>1, <1>2 DEF VPages

(* What alloc() passes to map() is a page, a physical page and flags.      *)
LEMMA BindArguments ==
  ASSUME MemTypeOK, CallShape, mpc = "bind", i < count
  PROVE  /\ start + i \in VPages /\ i + 1 \in DOMAIN pages /\ pages[i + 1] \in Frame
         /\ Phys(pages[i + 1]) \in Nat /\ aflags \in SUBSET FlagBits
<1>1. i \in 0 .. (count - 1) /\ count \in Nat
  BY DEF MemTypeOK
<1>2. start + i \in VPages
  BY <1>1, CallPageInRange
<1>3. i + 1 \in DOMAIN pages /\ pages[i + 1] \in Frame
  <2>1. pages \in Seq(Frame) /\ Len(pages) = count /\ i + 1 \in 1 .. count
    BY <1>1 DEF MemTypeOK, CallShape, Frame
  <2> QED
    BY <2>1
<1>4. Phys(pages[i + 1]) \in Nat
  BY <1>3, WordOfFrame DEF Phys
<1>5. aflags \in SUBSET FlagBits
  BY ClientAssumption DEF CallShape, FlagBits, AF_RW, AF_USER, F_PRESENT, F_RW, F_PS
<1> QED
  BY <1>2, <1>3, <1>4, <1>5

LEMMA FreeArguments ==
  ASSUME MemTypeOK, CallShape, mpc = "free", i < count
  PROVE  start + i \in VPages
<1>1. i \in 0 .. (count - 1)
  BY DEF MemTypeOK
<1> QED
  BY <1>1, CallPageInRange

(* The steps of the memory manager whoever calls it: nothing changes but   *)
(* perhaps the machine's status; a call starts, with any number of pages;  *)
(* a call goes on.                                                         *)
MemStep ==
  \/ /\ UNCHANGED pmvars \/ Panic \/ GoAstray
     /\ UNCHANGED <<physvars, mmcall, mmhistory>>
  \/ \E n \in Nat, fl \in AllocFlags : AllocStart(n, fl)
  \/ \E b \in owned : FreeStart(b)
  \/ CallStep

LEMMA MemNextSteps ==
  ASSUME [MemNext]_memvars
  PROVE  MemStep
<1>1. CASE MemNext
  <2>1. CASE \E n \in Counts : AllocNone(n) \/ AllocTooMany(n) \/ AllocAstray(n)
    BY <2>1 DEF AllocNone, AllocTooMany, AllocAstray, memvars, MemStep
  <2>2. CASE \E n \in Counts, fl \in AllocFlags : AllocStart(n, fl)
    BY <2>2, ClientAssumption DEF MemStep
  <2>3. CASE Halted
    BY <2>3 DEF Halted, memvars, MemStep
  <2> QED
    BY <1>1, <2>1, <2>2, <2>3 DEF MemNext, ClientCalls, MemStep
<1>2. CASE UNCHANGED memvars
  BY <1>2 DEF memvars, MemStep
<1> QED
  BY <1>1, <1>2

(* No step of the memory manager breaks the paging structures' invariant.  *)
LEMMA PagingPart ==
  ASSUME MemInv, MemStep
  PROVE  PagingInv' /\ (freed => freed')
<1> PagingInv
  BY DEF MemInv, MemTypeOK, PagingInv
<1>1. ASSUME UNCHANGED pmvars \/ Panic \/ GoAstray PROVE PagingInv' /\ (freed => freed')
  BY <1>1, PagingUnchanged DEF pmvars, Panic, GoAstray, PagingInv, TypeOK
<1>2. CASE UNCHANGED pmvars \/ Panic \/ GoAstray
  BY <1>1, <1>2
<1>3. CASE \E n \in Nat, fl \in AllocFlags : AllocStart(n, fl)
  BY <1>1, <1>3 DEF AllocStart
<1>4. CASE \E b \in owned : FreeStart(b)
  BY <1>1, <1>4 DEF FreeStart
<1>5. CASE AllocScan \/ AllocBind \/ AllocFail \/ AllocDone \/ FreeDone
  BY <1>1, <1>5 DEF AllocScan, AllocBind, AllocFail, AllocDone, FreeDone
<1>6. CASE BindPage
  <2>1. Map(start + i, Phys(pages[i + 1]), aflags) /\ mpc = "bind" /\ i < count
    BY <1>6 DEF BindPage
  <2> QED
    BY <2>1, BindArguments, MapInv DEF MemInv
<1>7. CASE FreePage
  <2>1. mpc = "free" /\ i < count /\ (Unmap(start + i) \/ Panic)
    BY <1>7 DEF FreePage
  <2> QED
    BY <1>1, <2>1, FreeArguments, UnmapInv DEF MemInv
<1> QED
  BY <1>2, <1>3, <1>4, <1>5, <1>6, <1>7 DEF MemStep, CallStep

-----------------------------------------------------------------------------
(* Types and arguments.                                                    *)

(* A call that has started, with the pages it looks for found free. *)
LEMMA StartRoom ==
  ASSUME NEW n \in Nat, NEW fl, AllocStart(n, fl)
  PROVE  /\ start' = Lowest(Rooms(n)) /\ start' \in VirtStart .. (VirtEnd - 1)
         /\ start' \in Nat /\ Room(start', n)
<1>1. Rooms(n) \in SUBSET Nat /\ Rooms(n) # {}
  BY VirtAssumption DEF AllocStart, Rooms
<1>2. Lowest(Rooms(n)) \in Rooms(n)
  BY <1>1, LowestInSet
<1> QED
  BY <1>1, <1>2 DEF AllocStart, Rooms

(* The bitmap keeps its type when a page is marked. *)
LEMMA MarkType ==
  ASSUME NEW c \in Nat, words \in [0 .. Word(PhysSize) -> SUBSET Bits],
         words' = [words EXCEPT ![Word(c)] = words[Word(c)] \cup Mask(c)]
  PROVE  words' \in [0 .. Word(PhysSize) -> SUBSET Bits]
BY MaskFacts

Shape == MemTypeOK /\ CallShape

LEMMA ScanShape ==
  ASSUME MemInv, TypeOK', AllocScan
  PROVE  Shape'
<1>1. /\ mpc = "phys" /\ pages \in Seq(Frame) /\ Len(pages) <= count /\ count <= MaxPages
      /\ cursor \in Nat /\ cursor >= StartPage /\ count \in Nat /\ Len(pages) \in Nat
      /\ StartPage \in Nat /\ PhysSize \in Nat /\ MaxPages \in Nat
  BY PhysAssumption, VirtAssumption DEF AllocScan, MemInv, MemTypeOK, CallShape, Frame
<1>2. CASE PhysTake(count)
  <2>1. cursor \in Frame /\ Len(pages) # count
    BY <1>1, <1>2 DEF PhysTake, Frame
  <2>2. pages' \in Seq(Frame) /\ Len(pages') = Len(pages) + 1
    BY <1>1, <1>2, <2>1 DEF PhysTake
  <2>3. cursor' \in Nat /\ cursor' >= StartPage /\ Len(pages') <= count
    BY <1>1, <1>2, <2>1, <2>2 DEF PhysTake
  <2>4. words' \in [0 .. Word(PhysSize) -> SUBSET Bits]
    BY <1>1, <1>2, MarkType DEF PhysTake, MemInv, MemTypeOK
  <2>5. UNCHANGED <<mmcall, mmhistory>>
    BY DEF AllocScan
  <2>6. Len(pages') <= MaxPages
    BY <1>1, <2>2, <2>3
  <2>7. MemTypeOK'
    BY <2>2, <2>3, <2>4, <2>5, <2>6 DEF MemInv, MemTypeOK, mmcall, mmhistory, Frame
  <2>8. CallShape'
    BY <1>1, <2>3, <2>5 DEF MemInv, CallShape, mmcall, mmhistory
  <2> QED
    BY <2>7, <2>8 DEF Shape
<1>3. CASE PhysSkip(count)
  <2>1. cursor' = cursor + 1 /\ UNCHANGED <<words, pages, mmcall, mmhistory>>
    BY <1>3 DEF PhysSkip, AllocScan
  <2>2. MemTypeOK'
    BY <1>1, <2>1 DEF MemInv, MemTypeOK, mmcall, mmhistory
  <2>3. CallShape'
    BY <1>1, <2>1 DEF MemInv, CallShape, mmcall, mmhistory
  <2> QED
    BY <2>2, <2>3 DEF Shape
<1> QED
  BY <1>2, <1>3 DEF AllocScan

LEMMA StartShape ==
  ASSUME MemInv, TypeOK', NEW n \in Nat, NEW fl \in AllocFlags, AllocStart(n, fl)
  PROVE  Shape'
<1>1. n \in 1 .. MaxPages /\ n \in Nat /\ MaxPages \in Nat
  BY ClientAssumption, VirtAssumption DEF AllocStart
<1>2. start' \in Nat /\ start' \in VirtStart .. (VirtEnd - 1)
  BY <1>1, StartRoom
<1>3. /\ mpc' = "phys" /\ count' = n /\ aflags' = fl /\ i' = 0
      /\ pages' = <<>> /\ cursor' = StartPage /\ words' = words /\ UNCHANGED mmhistory
  BY DEF AllocStart, PhysStart
<1>4. pages' \in Seq(Frame) /\ Len(pages') = 0
  BY <1>3
<1>5. MemTypeOK'
  BY <1>1, <1>2, <1>3, <1>4, PhysAssumption DEF MemInv, MemTypeOK, mmhistory, Frame
<1>6. CallShape'
  BY <1>1, <1>2, <1>3, <1>4, PhysAssumption DEF MemInv, CallShape, mmhistory
<1> QED
  BY <1>5, <1>6 DEF Shape

LEMMA BindShape ==
  ASSUME MemInv, TypeOK', AllocBind \/ BindPage \/ AllocDone
  PROVE  Shape'
<1>1. CASE AllocBind
  BY <1>1 DEF AllocBind, PhysDone, physvars, mmhistory, MemInv, MemTypeOK, CallShape, Shape
<1>2. CASE BindPage
  <2>1. /\ mpc = "bind" /\ i < count /\ i' = i + 1 /\ handed' = handed \cup {pages[i + 1]}
        /\ UNCHANGED <<words, pages, cursor, mpc, start, count, aflags, owned, reverted>>
    BY <1>2 DEF BindPage, physvars
  <2>2. pages[i + 1] \in Frame /\ pages[i + 1] \in Nat
    BY <2>1, BindArguments, WordOfFrame DEF MemInv
  <2>3. i' \in 0 .. count
    BY <2>1 DEF MemInv, MemTypeOK
  <2>4. MemTypeOK'
    BY <2>1, <2>2, <2>3 DEF MemInv, MemTypeOK
  <2>5. CallShape'
    BY <2>1, <2>2 DEF MemInv, CallShape
  <2> QED
    BY <2>4, <2>5 DEF Shape
<1>3. CASE AllocDone
  <2> DEFINE b == [start |-> start, count |-> count, flags |-> aflags]
  <2>1. mpc = "bind" /\ mpc' = "idle" /\ owned' = owned \cup {b} /\ start' = 0 /\ count' = 0
        /\ aflags' = {} /\ i' = 0 /\ UNCHANGED <<words, pages, cursor, handed, reverted>>
    BY <1>3 DEF AllocDone, Return, physvars
  <2>2. start \in VirtStart .. (VirtEnd - 1) /\ count \in 1 .. MaxPages /\ aflags \in AllocFlags
    BY <2>1 DEF MemInv, CallShape
  <2>3. start \in VPages
    <3>1. 0 \in 0 .. (count - 1) /\ start \in Nat
      BY <2>2, VirtAssumption
    <3>2. start + 0 \in VPages
      BY <2>1, <3>1, CallPageInRange DEF MemInv
    <3> QED
      BY <3>1, <3>2
  <2>4. b \in [start : VPages, count : 1 .. MaxPages, flags : AllocFlags]
    BY <2>2, <2>3
  <2>5. b.start \in VirtStart .. (VirtEnd - 1)
    BY <2>2
  <2> HIDE DEF b
  <2>6. MemTypeOK'
    BY <2>1, <2>4, VirtAssumption DEF MemInv, MemTypeOK
  <2>7. CallShape'
    BY <2>1, <2>5 DEF MemInv, CallShape
  <2> QED
    BY <2>6, <2>7 DEF Shape
<1> QED
  BY <1>1, <1>2, <1>3

LEMMA FailShape ==
  ASSUME MemInv, TypeOK', AllocFail
  PROVE  Shape'
<1>1. /\ mpc' = "idle" /\ start' = 0 /\ count' = 0 /\ aflags' = {} /\ i' = 0
      /\ reverted' = TRUE /\ UNCHANGED <<pages, cursor, owned, handed>>
  BY DEF AllocFail, Return, PhysFail
<1>2. words' \in [0 .. Word(PhysSize) -> SUBSET Bits]
  <2>1. words \in [0 .. Word(PhysSize) -> SUBSET Bits]
    BY DEF MemInv, MemTypeOK
  <2>2. DOMAIN words' = DOMAIN words /\ \A w \in DOMAIN words : words'[w] \subseteq words[w]
    BY DEF AllocFail, PhysFail
  <2>3. words' = [w \in DOMAIN words |-> words'[w]]
    BY DEF AllocFail, PhysFail
  <2> QED
    BY <2>1, <2>2, <2>3
<1>3. MemTypeOK'
  BY <1>1, <1>2, VirtAssumption DEF MemInv, MemTypeOK
<1>4. CallShape'
  BY <1>1 DEF MemInv, CallShape
<1> QED
  BY <1>3, <1>4 DEF Shape

LEMMA FreeShape ==
  ASSUME MemInv, TypeOK', (\E b \in owned : FreeStart(b)) \/ FreePage \/ FreeDone
  PROVE  Shape'
<1>1. ASSUME NEW b \in owned, FreeStart(b) PROVE Shape'
  <2>1. /\ mpc' = "free" /\ start' = b.start /\ count' = b.count /\ i' = 0 /\ owned' = owned \ {b}
        /\ UNCHANGED <<words, pages, cursor, aflags, handed, reverted>>
    BY <1>1 DEF FreeStart, physvars
  <2>2. b.start \in VirtStart .. (VirtEnd - 1) /\ b.count \in 1 .. MaxPages
    BY DEF MemInv, MemTypeOK, CallShape
  <2>3. b.start \in Nat /\ b.count \in 0 .. MaxPages /\ 0 \in 0 .. b.count
    BY <2>2, VirtAssumption
  <2>4. MemTypeOK'
    BY <2>1, <2>3 DEF MemInv, MemTypeOK
  <2>5. CallShape'
    BY <2>1, <2>2 DEF MemInv, CallShape
  <2> QED
    BY <2>4, <2>5 DEF Shape
<1>2. CASE FreePage
  <2>1. /\ mpc = "free" /\ i < count /\ i' = i + 1
        /\ UNCHANGED <<words, pages, cursor, mpc, start, count, aflags, owned, handed, reverted>>
    BY <1>2 DEF FreePage, physvars, mmhistory
  <2>2. i' \in 0 .. count
    BY <2>1 DEF MemInv, MemTypeOK
  <2> QED
    BY <2>1, <2>2 DEF MemInv, MemTypeOK, CallShape, Shape
<1>3. CASE FreeDone
  <2>1. /\ mpc' = "idle" /\ start' = 0 /\ count' = 0 /\ aflags' = {} /\ i' = 0
        /\ UNCHANGED <<words, pages, cursor, owned, handed, reverted>>
    BY <1>3 DEF FreeDone, Return, physvars, mmhistory
  <2> QED
    BY <2>1, VirtAssumption DEF MemInv, MemTypeOK, CallShape, Shape
<1> QED
  BY <1>1, <1>2, <1>3

(* A step that does not start, continue or end a call. *)
LEMMA SameShape ==
  ASSUME MemInv, TypeOK', UNCHANGED <<physvars, mmcall, mmhistory>>
  PROVE  Shape'
BY DEF MemInv, MemTypeOK, CallShape, Shape, physvars, mmcall, mmhistory

(* The steps, by what they are. *)
LEMMA StepKinds ==
  ASSUME MemStep
  PROVE  \/ UNCHANGED <<physvars, mmcall, mmhistory>>
         \/ \E n \in Nat, fl \in AllocFlags : AllocStart(n, fl)
         \/ AllocScan \/ AllocBind \/ BindPage \/ AllocDone \/ AllocFail
         \/ (\E b \in owned : FreeStart(b)) \/ FreePage \/ FreeDone
BY DEF MemStep, CallStep

LEMMA ShapePart ==
  ASSUME MemInv, MemStep
  PROVE  Shape'
<1>1. TypeOK'
  BY PagingPart DEF PagingInv
<1> QED
  BY <1>1, StepKinds, SameShape, StartShape, ScanShape, BindShape, FailShape, FreeShape

-----------------------------------------------------------------------------
(* The bitmap.                                                             *)

BitmapParts == BitsSet /\ BitsOnly /\ TakenNew /\ TakenBound /\ PassedTaken

(* Taking a page: its mask was clear, so it is new; now it is set.         *)
LEMMA TakeBitmap ==
  ASSUME MemInv, ~reverted, mpc = "phys", PhysTake(count), UNCHANGED <<mmcall, mmhistory>>
  PROVE  BitmapParts'
<1>1. /\ pages \in Seq(Frame) /\ words \in [0 .. Word(PhysSize) -> SUBSET Bits]
      /\ handed \subseteq Frame /\ cursor \in Nat /\ cursor >= StartPage /\ i = 0
      /\ BitmapParts
  BY DEF MemInv, MemTypeOK, CallShape, BitmapInv, BitmapParts, Frame
<1>2. cursor \in Frame /\ cursor \in Nat /\ Word(cursor) \in 0 .. Word(PhysSize)
  <2>1. cursor \in Frame
    BY <1>1, PhysAssumption DEF PhysTake, Frame
  <2> QED
    BY <2>1, WordOfFrame
<1>3. /\ words' = [words EXCEPT ![Word(cursor)] = words[Word(cursor)] \cup Mask(cursor)]
      /\ pages' = Append(pages, cursor) /\ cursor' = cursor + 1 /\ ~Taken(cursor)
      /\ mpc' = mpc /\ i' = i /\ handed' = handed
  BY DEF PhysTake, mmcall, mmhistory
<1>4. /\ DOMAIN pages = 1 .. Len(pages) /\ Len(pages) \in Nat
      /\ DOMAIN pages' = 1 .. (Len(pages) + 1)
      /\ pages'[Len(pages) + 1] = cursor
      /\ \A j \in DOMAIN pages : pages'[j] = pages[j] /\ pages[j] \in Frame
  BY <1>1, <1>3
<1>5. Used' = Used \cup {cursor} /\ Used \subseteq Frame
  BY <1>1, <1>3, <1>4 DEF Used
<1>6. words'[Word(cursor)] = words[Word(cursor)] \cup Mask(cursor)
      /\ \A w \in DOMAIN words : w # Word(cursor) => words'[w] = words[w]
  BY <1>1, <1>2, <1>3
<1>7. DOMAIN words' = DOMAIN words /\ \A w \in DOMAIN words : words[w] \subseteq words'[w]
  BY <1>1, <1>3, <1>6
<1>8. cursor \notin Used
  <2>1. words[Word(cursor)] \cap Mask(cursor) = {} /\ Mask(cursor) # {}
    BY <1>2, <1>3, MaskFacts DEF Taken
  <2> QED
    BY <1>1, <2>1 DEF BitmapParts, BitsSet
<1>9. \A n \in Used : Word(n) \in DOMAIN words
  BY <1>1, <1>5, WordOfFrame
<1>10. BitsSet'
  BY <1>1, <1>5, <1>6, <1>7, <1>9 DEF BitmapParts, BitsSet
<1>11. BitsOnly'
  <2>1. ASSUME NEW w \in DOMAIN words', NEW b \in words'[w]
        PROVE  \E n \in Used' : Word(n) = w /\ b \in Mask(n)
    <3>1. CASE b \in words[w]
      BY <1>1, <1>5, <1>7, <2>1, <3>1 DEF BitmapParts, BitsOnly
    <3>2. CASE b \notin words[w]
      BY <1>5, <1>6, <1>7, <2>1, <3>2
    <3> QED
      BY <3>1, <3>2
  <2> QED
    BY <2>1 DEF BitsOnly
<1>12. TakenNew'
  <2>1. \A j \in DOMAIN pages : pages[j] \in Used /\ pages[j] # cursor
    BY <1>8 DEF Used
  <2>2. cursor \notin handed
    BY <1>8 DEF Used
  <2>3. /\ \A j, k \in DOMAIN pages : pages[j] = pages[k] => j = k
        /\ \A j \in DOMAIN pages : j > i => pages[j] \notin handed
    BY <1>1 DEF BitmapParts, TakenNew
  <2>4. \A j \in DOMAIN pages' : j = Len(pages) + 1 \/ j \in DOMAIN pages
    BY <1>4
  <2>5. ASSUME NEW j \in DOMAIN pages', NEW k \in DOMAIN pages', pages'[j] = pages'[k]
        PROVE  j = k
    BY <1>4, <2>1, <2>3, <2>4, <2>5
  <2>6. ASSUME NEW j \in DOMAIN pages', j > i PROVE pages'[j] \notin handed
    BY <1>4, <2>2, <2>3, <2>4, <2>6
  <2> QED
    BY <1>3, <2>5, <2>6 DEF TakenNew
<1>13. TakenBound'
  BY <1>3 DEF TakenBound
<1>14. PassedTaken'
  <2>1. ASSUME NEW n \in Frame, n < cursor + 1 PROVE words'[Word(n)] \cap Mask(n) # {}
    <3>1. n \in Nat /\ Word(n) \in DOMAIN words
      BY <1>1, WordOfFrame
    <3>2. CASE n < cursor
      BY <1>1, <1>7, <3>1, <3>2 DEF BitmapParts, PassedTaken, Taken
    <3>3. CASE n = cursor
      BY <1>2, <1>6, <3>3, MaskFacts
    <3> QED
      BY <1>2, <2>1, <3>1, <3>2, <3>3
  <2> QED
    BY <1>3, <2>1 DEF PassedTaken, Taken
<1> QED
  BY <1>10, <1>11, <1>12, <1>13, <1>14 DEF BitmapParts

(* Every other step. *)
LEMMA BitmapPart ==
  ASSUME MemInv, MemStep
  PROVE  BitmapInv'
<1> SUFFICES ASSUME ~reverted' PROVE BitmapParts'
  BY DEF BitmapInv, BitmapParts
<1>0. ~reverted
  BY StepKinds
     DEF AllocStart, AllocScan, AllocBind, BindPage, AllocDone, AllocFail, FreeStart, FreePage,
         FreeDone, mmhistory, MemInv, MemTypeOK
<1>1. /\ BitmapParts /\ CallShape /\ pages \in Seq(Frame) /\ handed \subseteq Frame
      /\ i \in 0 .. count /\ count \in Nat
  BY <1>0 DEF MemInv, MemTypeOK, BitmapInv, BitmapParts, CallShape, Frame
<1>2. DOMAIN pages = 1 .. Len(pages) /\ Len(pages) \in Nat
  BY <1>1
<1>3. CASE UNCHANGED <<physvars, mmcall, mmhistory>>
  BY <1>1, <1>3 DEF BitmapParts, BitsSet, BitsOnly, TakenNew, TakenBound, PassedTaken, Used,
                    Taken, physvars, mmcall, mmhistory
<1>4. ASSUME NEW n \in Nat, NEW fl \in AllocFlags, AllocStart(n, fl) PROVE BitmapParts'
  <2>1. /\ mpc = "idle" /\ mpc' = "phys" /\ pages' = <<>> /\ cursor' = StartPage
        /\ words' = words /\ handed' = handed
    BY <1>4 DEF AllocStart, Idle, PhysStart, mmhistory
  <2>2. Used = handed /\ Used' = handed
    BY <1>1, <2>1 DEF Used, BitmapParts, TakenBound
  <2>3. BitsSet' /\ BitsOnly'
    BY <1>1, <2>1, <2>2 DEF BitmapParts, BitsSet, BitsOnly
  <2>4. TakenNew' /\ TakenBound' /\ PassedTaken'
    BY <2>1, PhysAssumption DEF TakenNew, TakenBound, PassedTaken, Frame
  <2> QED
    BY <2>3, <2>4 DEF BitmapParts
<1>5. CASE AllocScan
  <2>1. CASE PhysTake(count)
    BY <1>0, <1>5, <2>1, TakeBitmap DEF AllocScan
  <2>2. CASE PhysSkip(count)
    <3>1. /\ mpc' = mpc /\ i' = i /\ handed' = handed /\ words' = words /\ pages' = pages
          /\ cursor' = cursor + 1 /\ Taken(cursor) /\ mpc = "phys"
      BY <1>5, <2>2 DEF AllocScan, PhysSkip, mmcall, mmhistory
    <3>2. PassedTaken'
      <4>1. \A n \in Frame : n < cursor + 1 => n < cursor \/ n = cursor
        BY PhysAssumption DEF Frame, MemInv, MemTypeOK
      <4> QED
        BY <1>1, <3>1, <4>1 DEF BitmapParts, PassedTaken, Taken
    <3> QED
      BY <1>1, <3>1, <3>2 DEF BitmapParts, BitsSet, BitsOnly, TakenNew, TakenBound, Used
  <2> QED
    BY <1>5, <2>1, <2>2 DEF AllocScan
<1>6. CASE AllocBind
  <2>1. /\ mpc = "phys" /\ mpc' = "bind" /\ i = 0 /\ i' = 0
        /\ UNCHANGED <<words, pages, cursor, handed>>
    BY <1>1, <1>6 DEF AllocBind, PhysDone, physvars, mmhistory, CallShape
  <2> QED
    BY <1>1, <2>1 DEF BitmapParts, BitsSet, BitsOnly, TakenNew, TakenBound, PassedTaken, Used
<1>7. CASE BindPage
  <2>1. /\ mpc = "bind" /\ mpc' = "bind" /\ i < count /\ i' = i + 1
        /\ handed' = handed \cup {pages[i + 1]} /\ UNCHANGED <<words, pages, cursor>>
    BY <1>7 DEF BindPage, physvars
  <2>2. i + 1 \in DOMAIN pages
    BY <2>1, BindArguments DEF MemInv
  <2>3. Used' = Used
    BY <2>1, <2>2 DEF Used
  <2>4. BitsSet' /\ BitsOnly' /\ PassedTaken'
    BY <1>1, <2>1, <2>3 DEF BitmapParts, BitsSet, BitsOnly, PassedTaken
  <2>5. TakenNew'
    <3>1. /\ \A j, k \in DOMAIN pages : pages[j] = pages[k] => j = k
          /\ \A j \in DOMAIN pages : j > i => pages[j] \notin handed
      BY <1>1, <2>1 DEF BitmapParts, TakenNew
    <3>2. \A j \in DOMAIN pages : j > i + 1 => pages[j] \notin handed'
      BY <1>1, <1>2, <2>1, <2>2, <3>1
    <3> QED
      BY <2>1, <3>1, <3>2 DEF TakenNew
  <2>6. TakenBound'
    <3>1. \A j \in 1 .. (i + 1) : j \in 1 .. i \/ j = i + 1
      BY <1>1
    <3> QED
      BY <1>1, <2>1, <3>1 DEF BitmapParts, TakenBound
  <2> QED
    BY <2>4, <2>5, <2>6 DEF BitmapParts
<1>8. CASE AllocDone
  <2>1. /\ mpc = "bind" /\ mpc' = "idle" /\ i = count /\ UNCHANGED <<words, pages, cursor, handed>>
    BY <1>8 DEF AllocDone, Return, physvars
  <2>2. \A j \in DOMAIN pages : pages[j] \in handed
    BY <1>1, <1>2, <2>1 DEF BitmapParts, TakenBound, CallShape
  <2> QED
    BY <1>1, <2>1, <2>2 DEF BitmapParts, BitsSet, BitsOnly, TakenNew, TakenBound, PassedTaken, Used
<1>9. CASE AllocFail
  BY <1>9 DEF AllocFail
<1>10. ASSUME (\E b \in owned : FreeStart(b)) \/ FreePage \/ FreeDone PROVE BitmapParts'
  <2>1. /\ mpc \in {"idle", "free"} /\ mpc' \in {"idle", "free"}
        /\ UNCHANGED <<words, pages, cursor, handed>>
    BY <1>10 DEF FreeStart, Idle, FreePage, FreeDone, Return, physvars, mmhistory
  <2> QED
    BY <1>1, <2>1 DEF BitmapParts, BitsSet, BitsOnly, TakenNew, TakenBound, PassedTaken, Used
<1> QED
  BY StepKinds, <1>3, <1>4, <1>5, <1>6, <1>7, <1>8, <1>9, <1>10

-----------------------------------------------------------------------------
(* Blocks and their pages.                                                 *)

(* Tables that do not change are read the same. *)
LEMMA GetSame ==
  ASSUME table' = table
  PROVE  \A v : Get(v)' = Get(v) /\ (HasPage(v)' <=> HasPage(v))
BY DEF Get, HasPage, HasPd, HasPdpt, Astray, pde, pd, pdpt

(* A backed page has a page. *)
LEMMA BackedHasPage ==
  ASSUME MemInv, NEW v, Backed(v)
  PROVE  HasPage(v)
<1>1. \A n \in handed : Phys(n) \in Nat
  BY WordOfFrame DEF MemInv, CallShape, Phys
<1> QED
  BY <1>1 DEF Backed, Get, NONE

(* Clients' pages and those of the call are virtual pages. *)
LEMMA ClientPages ==
  ASSUME MemInv
  PROVE  /\ OwnedPages \subseteq VPages
         /\ mpc \in {"phys", "bind"} => CallPages \subseteq VPages /\ BoundPages \subseteq CallPages
<1>1. ASSUME NEW b \in owned, NEW v \in PagesOf(b) PROVE v \in VPages
  <2>1. b.start \in VirtStart .. (VirtEnd - 1) /\ b.count \in 1 .. MaxPages
    BY DEF MemInv, MemTypeOK, CallShape
  <2> DEFINE n == Fanout * Fanout * Fanout
  <2>2. n \in Nat /\ VirtEnd + MaxPages <= n + 1
    BY VirtAssumption
  <2> HIDE DEF n
  <2>3. v \in Nat /\ v < n
    BY <1>1, <2>1, <2>2, VirtAssumption DEF PagesOf
  <2> QED
    BY <2>3 DEF VPages, n
<1>2. ASSUME mpc \in {"phys", "bind"}, NEW v \in CallPages PROVE v \in VPages
  <2>1. v - start \in 0 .. (count - 1) /\ v = start + (v - start)
    BY <1>2 DEF CallPages, MemInv, MemTypeOK
  <2> QED
    BY <1>2, <2>1, CallPageInRange DEF MemInv
<1>3. BoundPages \subseteq CallPages
  BY DEF BoundPages, CallPages, MemInv, MemTypeOK
<1> QED
  BY <1>1, <1>2, <1>3 DEF OwnedPages

(* A step that keeps the tables, the blocks and the call. *)
LEMMA ClientUnchanged ==
  ASSUME MemInv, ~freed, freed' = freed, table' = table, owned' = owned, handed' = handed,
         \/ mpc' \notin {"phys", "bind"}
         \/ status' # "running" /\ mpc' = mpc /\ start' = start /\ count' = count
         \/ /\ mpc \in {"phys", "bind"} /\ start' = start /\ count' = count /\ i' = i
            /\ status' = status /\ (mpc' = mpc \/ i = 0),
         reverted => reverted'
  PROVE  BlocksMapped' /\ CallApart' /\ FramesInv'
<1>1. BlocksMapped /\ CallApart /\ FramesInv
  BY DEF MemInv, BlocksInv
<1>2. \A v : Get(v)' = Get(v) /\ (HasPage(v)' <=> HasPage(v)) /\ (Backed(v)' <=> Backed(v))
  BY GetSame DEF Backed
<1>3. OwnedPages' = OwnedPages
  BY DEF OwnedPages
<1>4. BlocksMapped'
  BY <1>1, <1>2, <1>3 DEF BlocksMapped
<1>5. CallApart'
  BY <1>1, <1>2, <1>3 DEF CallApart, CallPages
<1>6. BoundPages' \subseteq BoundPages
  BY DEF BoundPages, MemInv, MemTypeOK
<1>7. FramesInv'
  BY <1>1, <1>2, <1>3, <1>6 DEF FramesInv
<1> QED
  BY <1>4, <1>5, <1>7

LEMMA StartClient ==
  ASSUME MemInv, ~freed, freed' = freed, NEW n \in Nat, NEW fl, AllocStart(n, fl)
  PROVE  BlocksMapped' /\ CallApart' /\ FramesInv'
<1>1. BlocksMapped /\ FramesInv
  BY DEF MemInv, BlocksInv
<1>2. /\ mpc' = "phys" /\ count' = n /\ i' = 0 /\ table' = table /\ owned' = owned
      /\ handed' = handed /\ reverted' = reverted
  BY DEF AllocStart, pmvars, mmhistory
<1>3. \A v : Get(v)' = Get(v) /\ (HasPage(v)' <=> HasPage(v)) /\ (Backed(v)' <=> Backed(v))
  BY <1>2, GetSame DEF Backed
<1>4. OwnedPages' = OwnedPages
  BY <1>2 DEF OwnedPages
<1>5. start' \in Nat /\ Room(start', n) /\ n \in Nat
  BY StartRoom
<1>6. \A v \in start' .. (start' + n - 1) : ~HasPage(v)
  BY <1>5 DEF Room
<1>7. \A v \in OwnedPages : HasPage(v)
  BY <1>1, BackedHasPage DEF BlocksMapped, Backed
<1>8. CallApart'
  <2>1. CallPages' = start' .. (start' + n - 1)
    BY <1>2 DEF CallPages
  <2>2. CallPages' \cap OwnedPages' = {}
    BY <1>4, <1>6, <1>7, <2>1
  <2>3. start' + i' = start'
    <3>1. PICK s \in Nat : s = start'
      BY <1>5
    <3>2. s + 0 = s
      OBVIOUS
    <3> QED
      BY <1>2, <3>1, <3>2
  <2>4. \A v \in CallPages' : ~HasPage(v)' /\ ~(v < start' + i')
    <3>1. ASSUME NEW v \in CallPages' PROVE ~HasPage(v)' /\ ~(v < start' + i')
      <4>1. v \in start' .. (start' + n - 1)
        BY <2>1, <3>1
      <4>2. ~HasPage(v)'
        BY <1>3, <1>6, <4>1
      <4>3. start' \in Nat /\ v \in Int /\ v >= start'
        BY <1>5, <4>1
      <4> QED
        BY <2>3, <4>2, <4>3
    <3> QED
      BY <3>1
  <2> QED
    BY <2>2, <2>4 DEF CallApart
<1>9. BlocksMapped' /\ FramesInv'
  BY <1>1, <1>2, <1>3, <1>4 DEF BlocksMapped, FramesInv, BoundPages
<1> QED
  BY <1>8, <1>9

LEMMA BindClient ==
  ASSUME MemInv, ~freed, freed' = freed, BindPage
  PROVE  BlocksMapped' /\ CallApart' /\ FramesInv'
<1>1. /\ mpc = "bind" /\ mpc' = "bind" /\ i < count /\ i' = i + 1 /\ start' = start /\ count' = count
      /\ handed' = handed \cup {pages[i + 1]} /\ owned' = owned /\ reverted' = reverted
      /\ Map(start + i, Phys(pages[i + 1]), aflags) /\ status = "running"
  BY DEF BindPage, Map
<1>2. BlocksMapped /\ CallApart /\ FramesInv /\ start \in Nat /\ i \in Nat /\ count \in Nat
  BY DEF MemInv, BlocksInv, MemTypeOK
<1>3. PICK v : v = start + i
  OBVIOUS
<1>4. PICK f : f = pages[i + 1]
  OBVIOUS
<1>5. v \in VPages /\ v \in CallPages /\ v \in Nat /\ Phys(f) \in Nat /\ aflags \in SUBSET FlagBits
      /\ f \in Frame
  BY <1>1, <1>2, <1>3, <1>4, BindArguments DEF MemInv, CallPages
<1>6. OwnedPages \subseteq VPages /\ CallPages \subseteq VPages /\ BoundPages \subseteq CallPages
  BY <1>1, ClientPages
<1>7. OwnedPages' = OwnedPages /\ CallPages' = CallPages
  BY <1>1 DEF OwnedPages, CallPages
<1>8. MapOutcome(v, Phys(f))
  BY <1>1, <1>3, <1>4, <1>5, MapSound DEF MemInv, MemTypeOK, SoundUntilFreed
<1>9. CASE status' # "running"
  <2>1. table' = table
    BY <1>8, <1>9 DEF MapOutcome
  <2>2. \A u : Get(u)' = Get(u)
    BY <2>1, GetSame
  <2>3. BlocksMapped'
    BY <1>1, <1>2, <1>7, <2>2 DEF BlocksMapped
  <2>4. CallApart'
    BY <1>1, <1>2, <1>7, <1>9 DEF CallApart
  <2>5. FramesInv'
    BY <1>1, <1>2, <1>7, <1>9, <2>2 DEF FramesInv, BoundPages
  <2> QED
    BY <2>3, <2>4, <2>5
<1>10. CASE status' = "running"
  <2>1. /\ HasPage(v)' /\ Get(v)' = Phys(f)
        /\ \A u \in VPages \ {v} : (HasPage(u)' <=> HasPage(u)) /\ Get(u)' = Get(u)
    BY <1>8, <1>10 DEF MapOutcome, MapsOne
  <2>2. v \notin OwnedPages
    BY <1>1, <1>2, <1>5 DEF CallApart
  <2>3. \A u \in OwnedPages : Get(u)' = Get(u)
    BY <1>6, <2>1, <2>2
  <2>4. BlocksMapped'
    BY <1>1, <1>2, <1>7, <2>3 DEF BlocksMapped
  <2>5. Backed(v)'
    BY <1>1, <1>4, <2>1 DEF Backed
  <2>6. ASSUME NEW u \in CallPages, u < start + i PROVE Get(u)' = Get(u) /\ Backed(u) /\ Backed(u)'
    <3>1. Backed(u) /\ u # v
      BY <1>1, <1>2, <1>3, <2>6 DEF CallApart
    <3>2. Get(u)' = Get(u)
      BY <1>6, <2>1, <3>1
    <3> QED
      BY <1>1, <3>1, <3>2 DEF Backed
  <2>7. CallApart'
    <3>1. ASSUME NEW u \in CallPages, u >= start + i + 1 PROVE ~HasPage(u)'
      <4>1. u \in Nat /\ u >= start + i /\ u # v
        BY <1>2, <1>3, <3>1 DEF CallPages
      <4>2. ~HasPage(u)
        BY <1>1, <1>2, <4>1 DEF CallApart
      <4> QED
        BY <1>6, <2>1, <4>1, <4>2
    <3>2. ASSUME NEW u \in CallPages, u < start + i + 1 PROVE Backed(u)'
      <4>1. u < start + i \/ u = v
        BY <1>2, <1>3, <3>2 DEF CallPages
      <4> QED
        BY <2>5, <2>6, <4>1
    <3>3. start' + i' = start + i + 1
      BY <1>1, <1>2
    <3> QED
      BY <1>1, <1>2, <1>7, <3>1, <3>2, <3>3 DEF CallApart
  <2>8. FramesInv'
    <3> SUFFICES ASSUME ~reverted, NEW x \in OwnedPages' \cup BoundPages',
                        NEW y \in OwnedPages' \cup BoundPages', Get(x)' = Get(y)'
                 PROVE  x = y
      BY <1>1 DEF FramesInv
    <3>1. f \notin handed
      <4>1. i + 1 \in DOMAIN pages /\ i + 1 > i
        BY <1>1, <1>2, BindArguments DEF MemInv
      <4> QED
        BY <1>1, <1>4, <4>1 DEF MemInv, BitmapInv, TakenNew
    <3>2. ASSUME NEW u \in OwnedPages' \cup BoundPages', u # v
          PROVE  u \in OwnedPages \cup BoundPages /\ Get(u)' = Get(u) /\ Get(u) # Phys(f)
      <4>1. u \in OwnedPages \/ (u \in CallPages /\ u < start + i)
        BY <1>1, <1>2, <1>3, <1>7, <1>10, <3>2 DEF BoundPages, CallPages
      <4>2. Get(u)' = Get(u) /\ Backed(u)
        BY <1>2, <2>3, <2>6, <4>1 DEF BlocksMapped, Backed
      <4>3. u \in OwnedPages \cup BoundPages
        BY <1>1, <1>2, <4>1 DEF BoundPages, CallPages
      <4>4. PICK n \in handed : Get(u) = Phys(n)
        BY <4>2 DEF Backed
      <4>5. n # f /\ n \in Nat /\ f \in Nat
        BY <1>5, <3>1, <4>4, WordOfFrame DEF MemInv, CallShape
      <4> QED
        BY <4>2, <4>3, <4>4, <4>5 DEF Phys
    <3>3. CASE x = v
      BY <2>1, <3>2, <3>3
    <3>4. CASE y = v
      BY <2>1, <3>2, <3>4
    <3>5. CASE x # v /\ y # v
      BY <1>2, <3>2, <3>5 DEF FramesInv
    <3> QED
      BY <3>3, <3>4, <3>5
  <2> QED
    BY <2>4, <2>7, <2>8
<1> QED
  BY <1>9, <1>10

LEMMA DoneClient ==
  ASSUME MemInv, ~freed, freed' = freed, AllocDone
  PROVE  BlocksMapped' /\ CallApart' /\ FramesInv'
<1>1. PICK b : b = [start |-> start, count |-> count, flags |-> aflags]
  OBVIOUS
<1>2. /\ mpc = "bind" /\ mpc' = "idle" /\ i = count /\ status = "running"
      /\ owned' = owned \cup {b} /\ handed' = handed /\ reverted' = reverted /\ table' = table
  BY <1>1 DEF AllocDone, Return, pmvars
<1>3. BlocksMapped /\ CallApart /\ FramesInv /\ start \in Nat /\ count \in Nat
  BY DEF MemInv, BlocksInv, MemTypeOK
<1>4. PagesOf(b) = CallPages /\ BoundPages = CallPages
  BY <1>1, <1>2 DEF PagesOf, CallPages, BoundPages
<1>5. OwnedPages' = OwnedPages \cup CallPages
  BY <1>2, <1>4 DEF OwnedPages, PagesOf
<1>6. \A v : Get(v)' = Get(v)
  BY <1>2, GetSame
<1>7. \A v \in CallPages : Backed(v)
  BY <1>2, <1>3 DEF CallApart, CallPages
<1>8. BlocksMapped'
  <2>1. \A v \in OwnedPages' : \E n \in handed' : Get(v)' = Phys(n)
    BY <1>2, <1>3, <1>5, <1>6, <1>7 DEF BlocksMapped, Backed
  <2>2. \A c \in owned : PagesOf(c) \cap CallPages = {}
    BY <1>2, <1>3 DEF CallApart, OwnedPages
  <2>3. \A c, d \in owned' : c # d => PagesOf(c) \cap PagesOf(d) = {}
    BY <1>2, <1>3, <1>4, <2>2 DEF BlocksMapped
  <2>4. \A c : PagesOf(c)' = PagesOf(c)
    BY DEF PagesOf
  <2> QED
    BY <2>1, <2>3, <2>4 DEF BlocksMapped
<1>9. FramesInv'
  BY <1>2, <1>3, <1>4, <1>5, <1>6 DEF FramesInv, BoundPages
<1>10. CallApart'
  BY <1>2 DEF CallApart
<1> QED
  BY <1>8, <1>9, <1>10

LEMMA FreeStartClient ==
  ASSUME MemInv, ~freed, freed' = freed, NEW b \in owned, FreeStart(b)
  PROVE  BlocksMapped' /\ CallApart' /\ FramesInv'
<1>1. /\ mpc' = "free" /\ owned' = owned \ {b} /\ handed' = handed /\ reverted' = reverted
      /\ table' = table
  BY DEF FreeStart, pmvars
<1>2. OwnedPages' \subseteq OwnedPages
  BY <1>1 DEF OwnedPages, PagesOf
<1>3. \A v : Get(v)' = Get(v)
  BY <1>1, GetSame
<1>4. BlocksMapped /\ FramesInv
  BY DEF MemInv, BlocksInv
<1> QED
  BY <1>1, <1>2, <1>3, <1>4 DEF BlocksMapped, CallApart, FramesInv, BoundPages, PagesOf

(* Every step. *)
LEMMA ClientPart ==
  ASSUME MemInv, MemStep
  PROVE  BlocksInv' /\ FramesInv'
<1>1. CASE freed'
  BY <1>1 DEF BlocksInv, FramesInv
<1>2. CASE ~freed'
  <2>1. ~freed /\ freed' = freed
    BY <1>2, PagingPart DEF PagingInv, TypeOK, MemInv, MemTypeOK
  <2> SUFFICES BlocksMapped' /\ CallApart' /\ FramesInv'
    BY DEF BlocksInv
  <2>2. CASE /\ UNCHANGED <<physvars, mmcall, mmhistory>>
             /\ UNCHANGED pmvars \/ Panic \/ GoAstray
    <3>1. /\ table' = table /\ owned' = owned /\ handed' = handed /\ reverted' = reverted
          /\ mpc' = mpc /\ start' = start /\ count' = count /\ i' = i
          /\ status' = status \/ status' # "running"
      BY <2>2 DEF pmvars, Panic, GoAstray, mmcall, mmhistory
    <3> QED
      BY <2>1, <3>1, ClientUnchanged
  <2>3. ASSUME NEW n \in Nat, NEW fl \in AllocFlags, AllocStart(n, fl)
        PROVE  BlocksMapped' /\ CallApart' /\ FramesInv'
    BY <2>1, <2>3, StartClient
  <2>4. CASE AllocScan
    <3>1. /\ table' = table /\ owned' = owned /\ handed' = handed /\ reverted' = reverted
          /\ mpc = "phys" /\ mpc' = mpc /\ start' = start /\ count' = count /\ i' = i
          /\ status' = status
      BY <2>4 DEF AllocScan, pmvars, mmcall, mmhistory
    <3> QED
      BY <2>1, <3>1, ClientUnchanged
  <2>5. CASE AllocBind
    <3>1. /\ table' = table /\ owned' = owned /\ handed' = handed /\ reverted' = reverted
          /\ mpc = "phys" /\ start' = start /\ count' = count /\ i' = i
          /\ status' = status /\ i = 0
      BY <2>5 DEF AllocBind, pmvars, mmhistory, MemInv, CallShape
    <3> QED
      BY <2>1, <3>1, ClientUnchanged
  <2>6. CASE AllocFail
    <3>1. /\ table' = table /\ owned' = owned /\ handed' = handed /\ reverted' = TRUE
          /\ mpc' = "idle"
      BY <2>6 DEF AllocFail, Return, pmvars
    <3> QED
      BY <2>1, <3>1, ClientUnchanged
  <2>7. CASE BindPage
    BY <2>1, <2>7, BindClient
  <2>8. CASE AllocDone
    BY <2>1, <2>8, DoneClient
  <2>9. CASE \E b \in owned : FreeStart(b)
    BY <2>1, <2>9, FreeStartClient
  <2>10. CASE FreePage \/ FreeDone
    <3>1. table' = table
      <4>1. CASE FreePage
        <5>1. mpc = "free" /\ i < count /\ (Unmap(start + i) \/ Panic)
          BY <4>1 DEF FreePage
        <5> QED
          BY <2>1, <5>1, FreeArguments, UnmapSound DEF Panic, MemInv, MemTypeOK, SoundUntilFreed
      <4>2. CASE FreeDone
        BY <4>2 DEF FreeDone, pmvars
      <4> QED
        BY <2>10, <4>1, <4>2
    <3>2. /\ owned' = owned /\ handed' = handed /\ reverted' = reverted
          /\ mpc' \notin {"phys", "bind"}
      BY <2>10 DEF FreePage, FreeDone, Return, mmhistory
    <3> QED
      BY <2>1, <3>1, <3>2, ClientUnchanged
  <2>11. \/ UNCHANGED <<physvars, mmcall, mmhistory>> /\ (UNCHANGED pmvars \/ Panic \/ GoAstray)
         \/ \E n \in Nat, fl \in AllocFlags : AllocStart(n, fl)
         \/ AllocScan \/ AllocBind \/ BindPage \/ AllocDone \/ AllocFail
         \/ (\E b \in owned : FreeStart(b)) \/ FreePage \/ FreeDone
    BY DEF MemStep, CallStep
  <2> QED
    BY <2>2, <2>3, <2>4, <2>5, <2>6, <2>7, <2>8, <2>9, <2>10, <2>11
<1> QED
  BY <1>1, <1>2

-----------------------------------------------------------------------------
(* The specification.                                                      *)

(* A bitmap that is clear and no call made, on the structures of the       *)
(* loader.                                                                 *)
Fresh ==
  /\ TypeOK /\ Inherited /\ freed = FALSE
  /\ PhysInit /\ NoCalls

LEMMA FreshInv == Fresh => MemInv
<1> SUFFICES ASSUME Fresh PROVE MemInv
  OBVIOUS
<1>1. TypeOK /\ PhysInit /\ NoCalls
  BY DEF Fresh
<1>2. SoundUntilFreed /\ LoaderKept
  BY InheritedSound DEF Fresh, SoundUntilFreed, LoaderKept
<1>3. /\ pages = <<>> /\ pages \in Seq(Frame) /\ Len(pages) = 0 /\ DOMAIN pages = {}
  BY <1>1 DEF PhysInit
<1>4. MemTypeOK
  <2>1. words \in [0 .. Word(PhysSize) -> SUBSET Bits] /\ cursor \in Nat
    BY <1>1 DEF PhysInit
  <2>2. /\ mpc = "idle" /\ start = 0 /\ count = 0 /\ aflags = {} /\ i = 0
        /\ owned = {} /\ handed = {} /\ reverted = FALSE
    BY <1>1 DEF NoCalls
  <2>3. 0 \in 0 .. MaxPages /\ 0 \in 0 .. 0 /\ Len(pages) <= MaxPages
    BY <1>3, VirtAssumption
  <2> QED
    BY <1>1, <1>3, <2>1, <2>2, <2>3 DEF MemTypeOK, Frame
<1>5. CallShape
  BY <1>1 DEF NoCalls, CallShape
<1>6. BitmapInv
  BY <1>1, <1>3 DEF NoCalls, PhysInit, BitmapInv, BitsSet, BitsOnly, TakenNew, TakenBound,
                    PassedTaken, Used
<1>7. BlocksInv /\ FramesInv
  BY <1>1 DEF NoCalls, BlocksInv, BlocksMapped, CallApart, FramesInv, OwnedPages, BoundPages
<1> QED
  BY <1>2, <1>4, <1>5, <1>6, <1>7 DEF MemInv

LEMMA MemInitInv == MemInit => MemInv
<1> SUFFICES ASSUME MemInit PROVE Fresh
  BY FreshInv
<1>1. TypeOK /\ Inherited /\ freed = FALSE
  BY InitType, InitSound DEF MemInit, Init
<1> QED
  BY <1>1 DEF MemInit, Fresh

(* Until a structure is freed, no call changes where a mapped page goes.   *)
LEMMA MappedStays ==
  ASSUME MemInv, MemStep, ~freed, ~freed', NEW v \in VPages, HasPage(v)
  PROVE  HasPage(v)' /\ Get(v)' = Get(v)
<1> SUFFICES \/ table' = table
             \/ \E u \in VPages, f \in Nat : MapsOne(u, f)
  BY GetSame DEF MapsOne
<1>1. CASE BindPage
  <2>1. mpc = "bind" /\ i < count /\ Map(start + i, Phys(pages[i + 1]), aflags)
    BY <1>1 DEF BindPage
  <2>2. PICK u : u = start + i
    OBVIOUS
  <2>3. PICK f : f = Phys(pages[i + 1])
    OBVIOUS
  <2>4. u \in VPages /\ f \in Nat /\ aflags \in SUBSET FlagBits
    BY <2>1, <2>2, <2>3, BindArguments DEF MemInv
  <2>5. MapOutcome(u, f)
    BY <2>1, <2>2, <2>3, <2>4, MapSound DEF MemInv, MemTypeOK, SoundUntilFreed
  <2> QED
    BY <2>4, <2>5 DEF MapOutcome
<1>2. CASE FreePage
  <2>1. mpc = "free" /\ i < count /\ (Unmap(start + i) \/ Panic)
    BY <1>2 DEF FreePage
  <2> QED
    BY <2>1, FreeArguments, UnmapSound DEF Panic, MemInv, MemTypeOK, SoundUntilFreed
<1>3. CASE ~BindPage /\ ~FreePage
  BY <1>3 DEF MemStep, CallStep, AllocStart, FreeStart, AllocScan, AllocBind, AllocFail, AllocDone,
              FreeDone, Panic, GoAstray, pmvars
<1> QED
  BY <1>1, <1>2, <1>3

LEMMA LoaderPart ==
  ASSUME MemInv, MemStep
  PROVE  LoaderKept'
<1> SUFFICES ASSUME ~freed', NEW v \in 0 .. 2
             PROVE  HasPage(v)' /\ Get(v)' = BootMap[v]
  BY DEF LoaderKept, BootMap
<1>1. ~freed /\ v \in VPages
  <2>1. ~freed
    BY PagingPart
  <2>2. v \in Idx
    BY DEF Idx
  <2> QED
    BY <2>1, <2>2, FirstPages
<1>2. HasPage(v) /\ Get(v) = BootMap[v]
  BY <1>1 DEF MemInv, LoaderKept
<1> QED
  BY <1>1, <1>2, MappedStays

LEMMA MemStepInv ==
  ASSUME MemInv, MemStep
  PROVE  MemInv'
<1>1. SoundUntilFreed'
  BY PagingPart DEF PagingInv
<1> QED
  BY <1>1, ShapePart, BitmapPart, ClientPart, LoaderPart DEF MemInv, Shape

(* The invariant holds in every state. *)
LEMMA MemInvariant == MemSpec => []MemInv
BY MemInitInv, MemNextSteps, MemStepInv, PTL DEF MemSpec

(***************************************************************************)
(* MemTypeCorrect: the memory manager's state has the shapes of mm.cpp's   *)
(* declarations: no call takes more pages than its array holds, and the    *)
(* bitmap is never indexed with a page beyond it.                          *)
(***************************************************************************)
THEOREM MemTypeCorrect == MemSpec => []MemTypeOK
BY MemInvariant, PTL DEF MemInv

(***************************************************************************)
(* BlocksStayMapped: until a paging structure is freed, each page of each  *)
(* block that alloc() returned is mapped to a physical page the allocator  *)
(* gave out, and blocks do not overlap (mm.cpp:25-45, :100-136), for every *)
(* fanout, pool, range and number of blocks.                               *)
(***************************************************************************)
THEOREM BlocksStayMapped == MemSpec => []BlocksMapped
BY MemInvariant, PTL DEF MemInv, BlocksInv, BlocksMapped

(* Pages of the invariant have physical pages of their own: clients' from  *)
(* the bitmap, and the loader's, which are below the first of those.       *)
LEMMA OwnFrames ==
  ASSUME MemInv
  PROVE  FramesOwn
<1> SUFFICES ASSUME ~freed, ~reverted, NEW u \in OwnedPages \cup DOMAIN BootMap,
                    NEW v \in OwnedPages \cup DOMAIN BootMap, Get(u) = Get(v)
             PROVE  u = v
  BY DEF FramesOwn
<1>1. \A x \in OwnedPages : \E n \in Frame : Get(x) = Phys(n)
  BY DEF MemInv, BlocksInv, BlocksMapped, CallShape
<1>2. /\ DOMAIN BootMap = 0 .. 2 /\ \A x \in 0 .. 2 : Get(x) = BootMap[x]
      /\ BootMap[0] = Phys(0) /\ BootMap[1] = Phys(1) /\ BootMap[2] = Phys(LoadPage)
  BY DEF MemInv, LoaderKept, BootMap
<1>3. \A x \in OwnedPages, y \in 0 .. 2 : Get(x) # Get(y)
  <2> SUFFICES ASSUME NEW x \in OwnedPages, NEW y \in 0 .. 2, Get(x) = Get(y) PROVE FALSE
    OBVIOUS
  <2>1. PICK n \in Frame : Get(x) = Phys(n)
    BY <1>1
  <2>2. n \in Nat /\ n >= 2 /\ n > LoadPage
    BY LoaderPagesAssumption, PhysAssumption, FramesAssumption DEF Frame
  <2>3. Phys(n) \notin {Phys(0), Phys(1), Phys(LoadPage)}
    BY <2>2, FramesAssumption DEF Phys
  <2>4. y = 0 \/ y = 1 \/ y = 2
    OBVIOUS
  <2> QED
    BY <1>2, <2>1, <2>3, <2>4
<1>4. CASE u \in OwnedPages /\ v \in OwnedPages
  BY <1>4 DEF MemInv, FramesInv
<1>5. CASE u \in 0 .. 2 /\ v \in 0 .. 2
  <2>1. Phys(0) # Phys(1) /\ Phys(0) # Phys(LoadPage) /\ Phys(1) # Phys(LoadPage)
    BY LoaderPagesAssumption, FramesAssumption DEF Phys
  <2>2. (u = 0 \/ u = 1 \/ u = 2) /\ (v = 0 \/ v = 1 \/ v = 2)
    BY <1>5
  <2> QED
    BY <1>2, <2>1, <2>2
<1> QED
  BY <1>2, <1>3, <1>4, <1>5

(***************************************************************************)
(* EachPageItsFrame: until a paging structure is freed or an allocation is *)
(* reverted, no two pages that clients hold or the loader mapped have the  *)
(* same physical page, however the masks of the bitmap collide             *)
(* (mm.cpp:57-69).                                                         *)
(***************************************************************************)
THEOREM EachPageItsFrame == MemSpec => []FramesOwn
BY OwnFrames, MemInvariant, PTL

(***************************************************************************)
(* FrameBoundOnce: until an allocation is reverted no physical page is     *)
(* bound a second time (mm.cpp:57-69), for every width of words and ints   *)
(* and whether or not paging structures have been freed.                   *)
(***************************************************************************)
THEOREM FrameBoundOnce == MemSpec => NoFrameTwice
<1>1. ASSUME MemInv, MemNext, mpc = "bind", i' = i + 1, ~reverted
      PROVE  pages[i + 1] \notin handed
  <2>1. BindPage \/ AllocDone \/ Halted
    BY <1>1 DEF MemNext, ClientCalls, CallStep, AllocNone, AllocTooMany, AllocAstray, AllocStart,
                FreeStart, Idle, AllocScan, AllocBind, AllocFail, FreePage, FreeDone
  <2>2. i \in Nat
    BY <1>1 DEF MemInv, MemTypeOK
  <2>3. BindPage
    BY <1>1, <2>1, <2>2 DEF AllocDone, Return, Halted, memvars, mmcall
  <2>4. i + 1 \in DOMAIN pages /\ i + 1 > i
    BY <1>1, <2>2, <2>3, BindArguments DEF BindPage, MemInv
  <2> QED
    BY <1>1, <2>4 DEF MemInv, BitmapInv, TakenNew
<1> QED
  BY <1>1, MemInvariant, PTL DEF MemSpec, NoFrameTwice

(***************************************************************************)
(* RangeStaysFree: until a paging structure is freed, the range that       *)
(* findVirtualRange() chose is free when its pages are bound, whatever     *)
(* tables the binding allocates: map() can stop the machine only because   *)
(* fewer than two pages of the pool are left (mm.cpp:100-136,              *)
(* pm.cpp:40-111).                                                         *)
(***************************************************************************)
THEOREM RangeStaysFree == MemSpec => BindFindsRoom
<1>1. ASSUME MemInv, MemNext, mpc = "bind", ~freed, status' # "running", ~UNCHANGED memvars
      PROVE  Cardinality(Untracked) < 2
  <2>1. BindPage
    BY <1>1 DEF MemNext, ClientCalls, CallStep, AllocNone, AllocTooMany, AllocAstray, AllocStart,
                FreeStart, Idle, AllocScan, AllocBind, AllocFail, FreePage, FreeDone, AllocDone,
                Halted, pmvars
  <2>2. /\ i < count /\ Map(start + i, Phys(pages[i + 1]), aflags) /\ status = "running"
        /\ i \in Nat /\ start \in Nat /\ count \in Nat
    BY <1>1, <2>1 DEF BindPage, Map, MemInv, MemTypeOK
  <2>3. MapOutcome(start + i, Phys(pages[i + 1]))
    BY <1>1, <2>2, BindArguments, MapSound DEF MemInv, MemTypeOK, SoundUntilFreed
  <2>4. ~HasPage(start + i)
    BY <1>1, <2>2 DEF MemInv, BlocksInv, CallApart, CallPages
  <2> QED
    BY <1>1, <2>3, <2>4 DEF MapOutcome
<1> QED
  BY <1>1, MemInvariant, PTL DEF MemSpec, BindFindsRoom

(***************************************************************************)
(* FailsForCause: until then allocPhysicalPages() fails only when each     *)
(* page it may give out shares its mask with one that is in use            *)
(* (mm.cpp:57-84).                                                         *)
(***************************************************************************)
THEOREM FailsForCause == MemSpec => FailsOnlyWhenShared
<1>1. ASSUME MemInv, MemNext, ~reverted, reverted', NEW n \in StartPage .. (PhysSize - 1)
      PROVE  \E m \in Used : Word(m) = Word(n) /\ Mask(m) = Mask(n)
  <2>1. AllocFail
    BY <1>1, MemNextSteps, StepKinds
       DEF AllocStart, AllocScan, AllocBind, BindPage, AllocDone, FreeStart, FreePage,
           FreeDone, mmhistory
  <2>2. mpc = "phys" /\ cursor >= PhysSize /\ cursor \in Nat /\ n \in Frame
    BY <1>1, <2>1 DEF AllocFail, PhysFail, MemInv, MemTypeOK, Frame
  <2>3. Taken(n)
    BY <1>1, <2>2, PhysAssumption DEF MemInv, BitmapInv, PassedTaken, Frame
  <2>4. n \in Nat /\ Word(n) \in DOMAIN words
    BY <1>1, <2>2, WordOfFrame DEF MemInv, MemTypeOK
  <2>5. PICK b : b \in words[Word(n)] /\ b \in Mask(n)
    BY <2>3 DEF Taken
  <2>6. PICK m \in Used : Word(m) = Word(n) /\ b \in Mask(m)
    BY <1>1, <2>4, <2>5 DEF MemInv, BitmapInv, BitsOnly
  <2>7. m \in Nat
    <3>1. handed \subseteq Frame /\ pages \in Seq(Frame)
      BY <1>1 DEF MemInv, MemTypeOK, CallShape, Frame
    <3>2. \A j \in DOMAIN pages : pages[j] \in Frame
      BY <3>1
    <3>3. m \in Frame
      BY <3>1, <3>2 DEF Used
    <3> QED
      BY <3>3, WordOfFrame
  <2>8. Mask(m) = Mask(n)
    BY <2>4, <2>5, <2>6, <2>7, MaskFacts
  <2> QED
    BY <2>6, <2>8
<1>2. ASSUME MemInv, MemNext
      PROVE  ~reverted /\ reverted' =>
               \A n \in StartPage .. (PhysSize - 1) :
                 \E m \in handed \cup {pages[j] : j \in DOMAIN pages} :
                   Word(m) = Word(n) /\ Mask(m) = Mask(n)
  BY <1>1, <1>2 DEF Used
<1> QED
  BY <1>2, MemInvariant, PTL DEF MemSpec, FailsOnlyWhenShared

=============================================================================
