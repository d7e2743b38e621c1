------------------------------- MODULE Paging -------------------------------
(***************************************************************************)
(* The kernel's paging structures (kernel/mem/pm.cpp): the pool of 4 KiB   *)
(* pages they live in, its tracking bits and reference counts, and the     *)
(* operations of the PML4 on them.                                         *)
(*                                                                         *)
(* A page of the pool holds Fanout entries whatever it is used as, so a    *)
(* page that is freed while an entry still points to it, and then handed   *)
(* out again for another purpose, is read as what it now contains.  An     *)
(* entry is a target and a set of flag bits; the target is a page of the   *)
(* pool or a 2 MiB physical page.  Virtual pages are numbered; their       *)
(* number has the digits pml4i, pdpti, pdi.  Addresses are multiples of    *)
(* the page size here, so the alignment asserts of the code always hold.   *)
(***************************************************************************)
EXTENDS Integers, FiniteSets

CONSTANTS
  Fanout,       \* entries per table (512)
  PoolSize,     \* pages in m_pagingStructureRange
  LoadPage,     \* the physical page the loader put the kernel in (2)
  Frames,       \* the physical pages clients map
  MapSet,       \* the virtual pages clients map
  UnmapSet      \* the virtual pages clients unmap

Pages == 0 .. (PoolSize - 1)
Idx == 0 .. (Fanout - 1)
VPages == 0 .. (Fanout * Fanout * Fanout - 1)
NONE == -1

(* The entry target that stands for physical page n. *)
Phys(n) == PoolSize + n

ASSUME FanoutAssumption == Fanout \in Nat /\ Fanout >= 3
ASSUME PoolAssumption == PoolSize \in Nat /\ PoolSize >= 4
ASSUME FramesAssumption == LoadPage \in Nat /\ Frames \subseteq Nat
ASSUME ClientPagesAssumption == MapSet \subseteq VPages /\ UnmapSet \subseteq VPages

VARIABLES
  tracked,      \* m_pagingTrackingStructure: the pages that are allocated
  refs,         \* m_pagingRefcountStructure
  table,        \* the contents of every page of the pool
  status,       \* "running", "panic", or "wild": memory outside the pool was
                \*   taken for a table
  freed         \* history: pm::free() has run

pmvars == <<tracked, refs, table, status, freed>>

(* pm::FlagsType: bit numbers. *)
F_PRESENT == 0
F_RW == 1
F_PS == 7
FlagBits == {F_PRESENT, F_RW, F_PS}

Zero == [to |-> 0, flags |-> {}]
ZeroPage == [i \in Idx |-> Zero]
PageEntry(f, fl) == [to |-> f, flags |-> fl \cup {F_PRESENT, F_PS}]
TableEntry(p) == [to |-> p, flags |-> {F_PRESENT, F_RW}]
Present(e) == F_PRESENT \in e.flags

(***************************************************************************)
(* What retainLoaderPaging() leaves: the PML4 is the first page of the     *)
(* pool; the second is the page directory of the loader's PAE tables,      *)
(* still marked allocated although nothing refers to it; then the one PDPT *)
(* and the one PD of the loader's 64-bit tables, which map the first 4 MiB *)
(* to themselves and the kernel's page.  Every retained page has as many   *)
(* references as present entries.  What else the pool holds does not       *)
(* matter: alloc() clears each page it hands out.                          *)
(***************************************************************************)
Root == 0
BootPae == 1
BootPdpt == 2
BootPd == 3

BootMap == [v \in 0 .. 2 |-> Phys(IF v = 2 THEN LoadPage ELSE v)]

BootTable(n) ==
  [i \in Idx |-> IF i < n THEN [to |-> BootMap[i], flags |-> {F_PRESENT, F_PS}] ELSE Zero]

BootContents(p) ==
  CASE p = Root     -> [ZeroPage EXCEPT ![0] = [to |-> BootPdpt, flags |-> {F_PRESENT}]]
    [] p = BootPae  -> BootTable(2)
    [] p = BootPdpt -> [ZeroPage EXCEPT ![0] = [to |-> BootPd, flags |-> {F_PRESENT}]]
    [] p = BootPd   -> BootTable(3)
    [] OTHER        -> ZeroPage

Entries(p) == Cardinality({i \in Idx : Present(table[p][i])})

Init ==
  /\ tracked = {Root, BootPae, BootPdpt, BootPd}
  /\ table = [p \in Pages |-> BootContents(p)]
  /\ refs = [p \in Pages |-> Entries(p)]
  /\ status = "running"
  /\ freed = FALSE

-----------------------------------------------------------------------------
(* Walking the tables.                                                     *)

pml4i(v) == v \div (Fanout * Fanout)
pdpti(v) == (v \div Fanout) % Fanout
pdi(v) == v % Fanout

pdpt(v) == table[Root][pml4i(v)].to
HasPdpt(v) == Present(table[Root][pml4i(v)])

pd(v) == table[pdpt(v)][pdpti(v)].to
HasPd(v) == HasPdpt(v) /\ Present(table[pdpt(v)][pdpti(v)])

(* The walk would take a physical page for a page directory. *)
Astray(v) == HasPd(v) /\ pd(v) \notin Pages

pde(v) == table[pd(v)][pdi(v)]
HasPage(v) == HasPd(v) /\ ~Astray(v) /\ Present(pde(v))

(* Pml4::get(), at page granularity; a target in the pool, which only a    *)
(* page directory reused as a PDPT has, stands for the 2 MiB page it is in.*)
Get(v) == IF HasPage(v) THEN pde(v).to ELSE NONE

-----------------------------------------------------------------------------
(* pm::alloc(): the first page of the pool that is not tracked.            *)

Untracked == Pages \ tracked
Lowest(S) == CHOOSE p \in S : \A q \in S : p <= q

(* A failing assert, orPanic() or panic_msg(): cli; hlt.  What the halted  *)
(* machine leaves of the call that panicked is not modelled.               *)
Panic ==
  /\ status' = "panic"
  /\ UNCHANGED <<tracked, refs, table, freed>>

GoAstray ==
  /\ status' = "wild"
  /\ UNCHANGED <<tracked, refs, table, freed>>

(* pm::free(), past its assert that the bit is set *)
Untrack(bits, p) == bits \ {p}

(* pm::incRefs() *)
Inc(n) == n + 1

-----------------------------------------------------------------------------
(* Pml4::map(vaddr, paddr, flags)                                          *)

(* Mutant of MapEntry: the new entry is not counted. *)
MapEntryUncounted(v, f, fl) ==
  /\ HasPd(v) /\ ~Astray(v)
  /\ IF Present(pde(v))
     THEN Panic
     ELSE /\ table' = [table EXCEPT ![pd(v)][pdi(v)] = PageEntry(f, fl)]
          /\ UNCHANGED <<refs, tracked, status, freed>>

(* The page directory is there: fill its entry, unless it is present. *)
MapEntry(v, f, fl) ==
  /\ HasPd(v) /\ ~Astray(v)
  /\ IF Present(pde(v))
     THEN Panic
     ELSE /\ table' = [table EXCEPT ![pd(v)][pdi(v)] = PageEntry(f, fl)]
          /\ refs' = [refs EXCEPT ![pd(v)] = Inc(@)]
          /\ UNCHANGED <<tracked, status, freed>>

(* Mutants of MapNewPd: pm::alloc() does not set the tracking bit; the     *)
(* PDPT's new entry is not counted.                                        *)
MapNewPdUntracked(v, f, fl) ==
  LET new == Lowest(Untracked) IN
  /\ HasPdpt(v) /\ ~HasPd(v) /\ Untracked # {}
  /\ table' = [table EXCEPT ![new] = [ZeroPage EXCEPT ![pdi(v)] = PageEntry(f, fl)],
                            ![pdpt(v)][pdpti(v)] = TableEntry(new)]
  /\ refs' = [refs EXCEPT ![new] = Inc(@), ![pdpt(v)] = Inc(@)]
  /\ UNCHANGED <<tracked, status, freed>>

MapNewPdUncounted(v, f, fl) ==
  LET new == Lowest(Untracked) IN
  /\ HasPdpt(v) /\ ~HasPd(v) /\ Untracked # {}
  /\ tracked' = tracked \cup {new}
  /\ table' = [table EXCEPT ![new] = [ZeroPage EXCEPT ![pdi(v)] = PageEntry(f, fl)],
                            ![pdpt(v)][pdpti(v)] = TableEntry(new)]
  /\ refs' = [refs EXCEPT ![new] = Inc(@)]
  /\ UNCHANGED <<status, freed>>

(* Allocate a page directory. *)
MapNewPd(v, f, fl) ==
  LET new == Lowest(Untracked)
      cleared == [table EXCEPT ![new] = ZeroPage]
  IN
  /\ HasPdpt(v) /\ ~HasPd(v)
  /\ IF Untracked = {}
     THEN Panic
     ELSE /\ tracked' = tracked \cup {new}
          /\ table' = [cleared EXCEPT ![new][pdi(v)] = PageEntry(f, fl),
                                      ![pdpt(v)][pdpti(v)] = TableEntry(new)]
          /\ refs' = [refs EXCEPT ![new] = Inc(@), ![pdpt(v)] = Inc(@)]
          /\ UNCHANGED <<status, freed>>

(* Allocate a PDPT and a page directory. *)
MapNewPdpt(v, f, fl) ==
  LET first == Lowest(Untracked)
      second == Lowest(Untracked \ {first})
      cleared == [table EXCEPT ![first] = ZeroPage, ![second] = ZeroPage]
  IN
  /\ ~HasPdpt(v)
  /\ IF Cardinality(Untracked) < 2
     THEN Panic
     ELSE /\ tracked' = tracked \cup {first, second}
          /\ table' = [cleared EXCEPT ![second][pdi(v)] = PageEntry(f, fl),
                                      ![first][pdpti(v)] = TableEntry(second),
                                      ![Root][pml4i(v)] = TableEntry(first)]
          /\ refs' = [refs EXCEPT ![second] = Inc(@), ![first] = Inc(@)]
          /\ UNCHANGED <<status, freed>>

Map(v, f, fl) ==
  /\ status = "running"
  /\ \/ Astray(v) /\ GoAstray
     \/ MapEntry(v, f, fl)
     \/ MapNewPd(v, f, fl)
     \/ MapNewPdpt(v, f, fl)

-----------------------------------------------------------------------------
(* Pml4::unmap(vaddr): the page directory loses a reference, and is freed  *)
(* with its last one; then the PDPT does.  No entry is cleared.            *)

(* Mutant of Dec: the counter is decremented below zero. *)
DecPlain(n) == n - 1

(* pm::decRefs() *)
Dec(n) == IF n = 0 THEN 0 ELSE n - 1

UnmapKeepPd(v) ==
  /\ HasPage(v) /\ Dec(refs[pd(v)]) # 0
  /\ refs' = [refs EXCEPT ![pd(v)] = Dec(@)]
  /\ UNCHANGED <<tracked, table, status, freed>>

UnmapFreePd(v) ==
  LET r == [refs EXCEPT ![pd(v)] = 0]
      left == Untrack(tracked, pd(v))
      freePdpt == Dec(r[pdpt(v)]) = 0
  IN
  /\ HasPage(v) /\ Dec(refs[pd(v)]) = 0
  /\ IF pd(v) \notin tracked \/ (freePdpt /\ pdpt(v) \notin left)
     THEN Panic
     ELSE /\ refs' = [r EXCEPT ![pdpt(v)] = Dec(@)]
          /\ tracked' = IF freePdpt THEN Untrack(left, pdpt(v)) ELSE left
          /\ freed' = TRUE
          /\ UNCHANGED <<table, status>>

(* result(1) *)
UnmapNotFound(v) ==
  /\ ~HasPage(v) /\ ~Astray(v)
  /\ UNCHANGED pmvars

Unmap(v) ==
  /\ status = "running"
  /\ \/ Astray(v) /\ GoAstray
     \/ UnmapKeepPd(v)
     \/ UnmapFreePd(v)
     \/ UnmapNotFound(v)

Stopped == status # "running" /\ UNCHANGED pmvars

Next ==
  \/ \E v \in MapSet, f \in Frames : Map(v, Phys(f), {})
  \/ \E v \in UnmapSet : Unmap(v)
  \/ Stopped

Spec == Init /\ [][Next]_pmvars

-----------------------------------------------------------------------------
(* Properties.                                                             *)

(* TypeOK: the pool, its tracking bits and counters hold what the types of *)
(* pm.cpp allow.                                                           *)
TypeOK ==
  /\ tracked \subseteq Pages
  /\ refs \in [Pages -> Nat]
  /\ table \in [Pages -> [Idx -> [to : Nat, flags : SUBSET FlagBits]]]
  /\ status \in {"running", "panic", "wild"}
  /\ freed \in BOOLEAN

(* The tables reachable from the PML4, named by the path to them. *)
PdptSlots == {i \in Idx : Present(table[Root][i])}
PdSlots == {s \in PdptSlots \X Idx : Present(table[table[Root][s[1]].to][s[2]])}
PdptAt(i) == table[Root][i].to
PdAt(s) == table[PdptAt(s[1])][s[2]].to

(* The tables form a tree: no page of the pool is a table in two places.   *)
Tree ==
  /\ \A i \in PdptSlots : PdptAt(i) \in Pages \ {Root, BootPae}
  /\ \A s \in PdSlots : PdAt(s) \in Pages \ {Root, BootPae}
  /\ \A i \in PdptSlots, s \in PdSlots : PdptAt(i) # PdAt(s)
  /\ \A i, j \in PdptSlots : PdptAt(i) = PdptAt(j) => i = j
  /\ \A s, t \in PdSlots : PdAt(s) = PdAt(t) => s = t

(* TablesAllocated: the PML4 and every table reachable from it is an       *)
(* allocated page, so pm::alloc() cannot hand it out again                 *)
(* (pm.cpp:201-217); and so is the loader's old page directory.            *)
TablesAllocated ==
  /\ {Root, BootPae} \subseteq tracked
  /\ \A i \in PdptSlots : PdptAt(i) \in tracked
  /\ \A s \in PdSlots : PdAt(s) \in tracked

(* CountsAgree: a PDPT's count is the number of its entries, a PD's count  *)
(* is at least one and at most that number, since unmap() takes references *)
(* but leaves entries; and a page that can be handed out has none, as      *)
(* pm::alloc() relies on: it clears the page and not its count.            *)
CountsAgree ==
  /\ \A i \in PdptSlots : refs[PdptAt(i)] = Entries(PdptAt(i))
  /\ \A s \in PdSlots : refs[PdAt(s)] \in 1 .. Entries(PdAt(s))
  /\ \A p \in Untracked : refs[p] = 0

(***************************************************************************)
(* SoundUntilFreed: until a structure is freed the reachable tables are a  *)
(* tree of allocated pages, and their reference counts agree with it.      *)
(***************************************************************************)
Sound == Tree /\ TablesAllocated /\ CountsAgree
SoundUntilFreed == ~freed => Sound

(***************************************************************************)
(* AsAddressSpace: get() shows a partial function that map() and unmap()   *)
(* change one page at a time, and never from one physical page to another, *)
(* whatever structures a call allocates; until it frees one.               *)
(***************************************************************************)
Abstract == INSTANCE AddressSpace WITH
              NoPage <- NONE, space <- [v \in VPages |-> Get(v)], lapsed <- freed
AsAddressSpace == Abstract!Spec

=============================================================================
