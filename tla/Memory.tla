------------------------------- MODULE Memory -------------------------------
(***************************************************************************)
(* The memory manager (kernel/mem/mm.cpp) on the paging structures of the  *)
(* kernel: mm::alloc() looks for a run of virtual pages get() does not     *)
(* know, takes physical pages, and maps one to the other; mm::free() unmaps*)
(* them.  The loops over pages are steps; one CPU with interrupts off runs *)
(* them, so a call starts when the one before has returned.                *)
(***************************************************************************)
EXTENDS Paging, PhysPages

CONSTANTS
  VirtStart, VirtEnd,   \* m_virtualAllocRange, in pages
  MaxPages,             \* the most pages alloc() accepts (32)
  Counts,               \* the page counts clients ask for
  AllocFlags            \* the AllocFlagsType values clients pass, as bit sets

(* mm::AllocFlagsType: bit numbers *)
AF_RW == 0
AF_USER == 1

ASSUME VirtAssumption ==
  /\ VirtStart \in Nat /\ VirtEnd \in Nat /\ MaxPages \in Nat
  /\ VirtEnd + MaxPages <= Fanout * Fanout * Fanout + 1
(* Physical pages are given out from behind those the loader maps (mm.cpp:56). *)
ASSUME LoaderPagesAssumption == 2 <= LoadPage /\ LoadPage < StartPage
ASSUME ClientAssumption == Counts \subseteq Nat /\ AllocFlags \subseteq SUBSET {AF_RW, AF_USER}

VARIABLES
  mpc,          \* where the running call is
  start, count, aflags, i,   \* its arguments and locals
  owned,        \* history: the blocks clients hold
  handed,       \* history: the physical pages bound to a block so far
  reverted      \* history: allocPhysicalPages() has reverted

mmcall == <<mpc, start, count, aflags, i>>
mmhistory == <<owned, handed, reverted>>
memvars == <<pmvars, physvars, mmcall, mmhistory>>

NoCalls ==
  /\ mpc = "idle"
  /\ start = 0 /\ count = 0 /\ aflags = {} /\ i = 0
  /\ owned = {} /\ handed = {} /\ reverted = FALSE

MemInit ==
  /\ Init
  /\ PhysInit
  /\ NoCalls

Idle == mpc = "idle" /\ status = "running"

Return ==
  /\ mpc' = "idle"
  /\ start' = 0 /\ count' = 0 /\ aflags' = {} /\ i' = 0

-----------------------------------------------------------------------------
(* findVirtualRange(): the first start from which n pages are unmapped.    *)

(* Mutant of Room: each page's answer replaces the one before. *)
RoomAtEnd(r, n) == ~HasPage(r + n - 1)

Room(r, n) == \A v \in r .. (r + n - 1) : ~HasPage(v)
Rooms(n) == {r \in VirtStart .. (VirtEnd - 1) : Room(r, n)}

(* The pages it calls get() for, on the way to r. *)
Examined(r, n) ==
  {v \in VirtStart .. (r + n - 1) :
     \E s \in VirtStart .. r : v \in s .. (s + n - 1) /\ \A u \in s .. (v - 1) : ~HasPage(u)}

LastTried(n) == IF Rooms(n) = {} THEN VirtEnd - 1 ELSE Lowest(Rooms(n))
StraysLooking(n) == \E v \in Examined(LastTried(n), n) : Astray(v)

-----------------------------------------------------------------------------
(* mm::alloc(p, pageCount, flags)                                          *)

(* none(): no pages asked for, or no room for them *)
AllocNone(n) ==
  /\ Idle
  /\ n = 0 \/ (n <= MaxPages /\ ~StraysLooking(n) /\ Rooms(n) = {})
  /\ UNCHANGED memvars

AllocTooMany(n) ==
  /\ Idle /\ n > MaxPages
  /\ Panic
  /\ UNCHANGED <<physvars, mmcall, mmhistory>>

AllocAstray(n) ==
  /\ Idle /\ n \in 1 .. MaxPages /\ StraysLooking(n)
  /\ GoAstray
  /\ UNCHANGED <<physvars, mmcall, mmhistory>>

AllocStart(n, fl) ==
  /\ Idle /\ n \in 1 .. MaxPages /\ ~StraysLooking(n) /\ Rooms(n) # {}
  /\ mpc' = "phys"
  /\ start' = Lowest(Rooms(n)) /\ count' = n /\ aflags' = fl /\ i' = 0
  /\ PhysStart
  /\ UNCHANGED <<pmvars, mmhistory>>

AllocScan ==
  /\ mpc = "phys"
  /\ PhysTake(count) \/ PhysSkip(count)
  /\ UNCHANGED <<pmvars, mmcall, mmhistory>>

AllocBind ==
  /\ mpc = "phys"
  /\ PhysDone(count)
  /\ mpc' = "bind"
  /\ UNCHANGED <<pmvars, start, count, aflags, i, mmhistory>>

AllocFail ==
  /\ mpc = "phys"
  /\ PhysFail(count)
  /\ reverted' = TRUE
  /\ Return
  /\ UNCHANGED <<pmvars, owned, handed>>

(* Mutant of BindPage: vaddr is one page too high. *)
BindPageAbove ==
  /\ mpc = "bind" /\ i < count
  /\ Map(start + i + 1, Phys(pages[i + 1]), aflags)
  /\ i' = i + 1
  /\ handed' = handed \cup {pages[i + 1]}
  /\ UNCHANGED <<physvars, mpc, start, count, aflags, owned, reverted>>

(* The flags are passed on as they are: pm::FlagsType(flags). *)
BindPage ==
  /\ mpc = "bind" /\ i < count
  /\ Map(start + i, Phys(pages[i + 1]), aflags)
  /\ i' = i + 1
  /\ handed' = handed \cup {pages[i + 1]}
  /\ UNCHANGED <<physvars, mpc, start, count, aflags, owned, reverted>>

AllocDone ==
  /\ mpc = "bind" /\ i = count /\ status = "running"
  /\ owned' = owned \cup {[start |-> start, count |-> count, flags |-> aflags]}
  /\ Return
  /\ UNCHANGED <<pmvars, physvars, handed, reverted>>

-----------------------------------------------------------------------------
(* mm::free(p, start, count), of a block the client holds.                 *)

FreeStart(b) ==
  /\ Idle
  /\ mpc' = "free"
  /\ start' = b.start /\ count' = b.count /\ i' = 0
  /\ owned' = owned \ {b}
  /\ UNCHANGED <<pmvars, physvars, aflags, handed, reverted>>

(* get() knows the page: unmap it.  "Possible double-free" otherwise. *)
FreePage ==
  LET v == start + i IN
  /\ mpc = "free" /\ i < count /\ status = "running"
  /\ IF HasPage(v) \/ Astray(v) THEN Unmap(v) ELSE Panic
  /\ i' = i + 1
  /\ UNCHANGED <<physvars, mpc, start, count, aflags, mmhistory>>

FreeDone ==
  /\ mpc = "free" /\ i = count /\ status = "running"
  /\ Return
  /\ UNCHANGED <<pmvars, physvars, mmhistory>>

-----------------------------------------------------------------------------

(* A client calls, with any arguments or one of its blocks. *)
ClientCalls(blocks) ==
  \/ \E n \in Counts : AllocNone(n) \/ AllocTooMany(n) \/ AllocAstray(n)
  \/ \E n \in Counts, fl \in AllocFlags : AllocStart(n, fl)
  \/ \E b \in blocks : FreeStart(b)

(* The running call goes on. *)
CallStep ==
  \/ AllocScan \/ AllocBind \/ AllocFail
  \/ BindPage \/ AllocDone
  \/ FreePage \/ FreeDone

Halted == status # "running" /\ UNCHANGED memvars

MemNext == ClientCalls(owned) \/ CallStep \/ Halted

MemSpec == MemInit /\ [][MemNext]_memvars

-----------------------------------------------------------------------------
(* Properties.                                                             *)

PagesOf(b) == b.start .. (b.start + b.count - 1)
OwnedPages == UNION {PagesOf(b) : b \in owned}

(* MemTypeOK: the state has the shapes of mm.cpp's declarations.           *)
MemTypeOK ==
  /\ TypeOK
  /\ words \in [0 .. Word(PhysSize) -> SUBSET Bits]
  /\ pages \in Seq(StartPage .. (PhysSize - 1)) /\ Len(pages) <= MaxPages
  /\ cursor \in Nat
  /\ mpc \in {"idle", "phys", "bind", "free"}
  /\ start \in Nat /\ count \in 0 .. MaxPages /\ i \in 0 .. count
  /\ aflags \in AllocFlags \cup {{}}
  /\ owned \subseteq [start : VPages, count : 1 .. MaxPages, flags : AllocFlags]
  /\ handed \subseteq Nat
  /\ reverted \in BOOLEAN

(***************************************************************************)
(* BlocksMapped: until a paging structure is freed, every page of a block  *)
(* alloc() returned is mapped to a physical page the allocator gave out,   *)
(* and no page is in two blocks.                                           *)
(***************************************************************************)
BlocksMapped ==
  ~freed =>
    /\ \A v \in OwnedPages : \E n \in handed : Get(v) = Phys(n)
    /\ \A b, c \in owned : b # c => PagesOf(b) \cap PagesOf(c) = {}

(***************************************************************************)
(* FramesApart: until a paging structure is freed, no two pages that       *)
(* clients hold share a physical page, and none is one the loader mapped.  *)
(***************************************************************************)
FramesApart ==
  ~freed => \A u, v \in OwnedPages \cup DOMAIN BootMap : Get(u) = Get(v) => u = v

(***************************************************************************)
(* FramesOwn: until a paging structure is freed or an allocation is        *)
(* reverted, each page that clients hold or the loader mapped has a        *)
(* physical page of its own, whatever blocks came and went (mm.cpp:34-94). *)
(***************************************************************************)
FramesOwn ==
  ~freed /\ ~reverted =>
    \A u, v \in OwnedPages \cup DOMAIN BootMap : Get(u) = Get(v) => u = v

(***************************************************************************)
(* NoFrameTwice: unless an allocation has been reverted, the bits of the   *)
(* bitmap keep every physical page from being bound a second time, even    *)
(* though two pages share each mask and the paging structures may have     *)
(* been freed.                                                             *)
(***************************************************************************)
NoFrameTwice ==
  [][(mpc = "bind" /\ i' = i + 1 /\ ~reverted) => (pages[i + 1] \notin handed)]_memvars

(***************************************************************************)
(* BindFindsRoom: until a paging structure is freed, the range             *)
(* findVirtualRange() chose is still free when the pages are bound,        *)
(* whatever structures the binding itself allocated: map() stops the       *)
(* machine only for want of a paging structure, never with "Entry is       *)
(* already present".                                                       *)
(***************************************************************************)
BindFindsRoom ==
  [][(mpc = "bind" /\ ~freed /\ status' # "running")
       => (Cardinality(Untracked) < 2)]_memvars

(***************************************************************************)
(* FailsOnlyWhenShared: unless an allocation has been reverted before,     *)
(* allocPhysicalPages() fails only when every page is bound, or shares its *)
(* mask with one that is bound or that this call has taken.                *)
(***************************************************************************)
FailsOnlyWhenShared ==
  [][(~reverted /\ reverted') =>
       \A n \in StartPage .. (PhysSize - 1) :
         \E m \in handed \cup {pages[j] : j \in DOMAIN pages} :
           Word(m) = Word(n) /\ Mask(m) = Mask(n)]_memvars

(***************************************************************************)
(* FramesReleased: when every block is freed no physical page is marked    *)
(* (mm.hpp:55: "Frees a block of memory and releases bound physical        *)
(* pages").                                                                *)
(***************************************************************************)
FramesReleased ==
  mpc = "idle" /\ status = "running" /\ owned = {} /\ ~reverted =>
    \A w \in DOMAIN words : words[w] = {}

(***************************************************************************)
(* LegalFreeNeverPanics: mm::free() of a block that alloc() returned and   *)
(* that was not freed since does not panic: the panics are for double      *)
(* frees (mm.cpp:148) and structures that were not allocated (pm.cpp:225). *)
(***************************************************************************)
LegalFreeNeverPanics == [][(mpc = "free") => (status' # "panic")]_memvars

=============================================================================
