----------------------------- MODULE KeepProofs -----------------------------
(***************************************************************************)
(* Proofs that outlive the first free of a paging structure: what the      *)
(* kernel started with stays mapped where it was, although unmap() frees   *)
(* directories that stay linked and alloc() hands them out again.  They    *)
(* hold as long as the pages that calls map have one PDPT; under two of    *)
(* them a directory freed from the one and reused under the other takes    *)
(* the first one's references with it.                                     *)
(***************************************************************************)
EXTENDS SystemProofs

USE FanoutAssumption, PoolAssumption, BootAssumption

-----------------------------------------------------------------------------
(* The inductive invariant.                                                *)

(* The virtual pages that calls map, and the PML4's entries that are       *)
(* present for them.                                                       *)
ClientRange == VirtStart .. (VirtEnd + MaxPages - 2)
ClientSlots == {k \in Idx : AtRoot(k) /\ \E v \in ClientRange : pml4i(v) = k}
OnePdpt == \A k, l \in ClientSlots : k = l

(* The PML4 stays allocated, points to the pool, and no entry of a page    *)
(* that is a table points to it: nothing clears or overwrites what it has. *)
MaybeTables == tracked \cup {PdptAt(k) : k \in {l \in Idx : AtRoot(l)}}
RootKept ==
  /\ Root \in tracked
  /\ \A k \in Idx : AtRoot(k) => PdptAt(k) \in Pages
  /\ \A p \in MaybeTables, k \in Idx : Present(table[p][k]) => table[p][k].to # Root

(* The pages a running call has mapped, or not yet unmapped, and all pages *)
(* that should be mapped.                                                  *)
CallHeld ==
  CASE mpc = "bind" -> start .. (start + i - 1)
    [] mpc = "free" -> (start + i) .. (start + count - 1)
    [] OTHER        -> {}
Held == OwnedPages \cup CallHeld
Residents == (0 .. 2) \cup Held

(* Until the heap has its block nothing is unmapped, and every present     *)
(* entry is counted.                                                       *)
Counted == \A p \in Pages \ {Root} : refs[p] = IF p \in tracked THEN Entries(p) ELSE 0
FirstCall ==
  /\ ~freed /\ mpc # "free"
  /\ \A v \in VPages : HasPage(v) <=> v \in Residents
  /\ Counted

(* The pages that nobody unmaps, and those that share a directory with one.*)
Pinned == (0 .. 2) \cup HeapRegion
Place(v) == <<pml4i(v), pdpti(v)>>
Protected(v) == \E p \in Pinned : Place(p) = Place(v)
Neighbours(v) == {u \in Residents : Place(u) = Place(v)}

(* PDPTs are allocated pages, and no page is two of them, or one and a     *)
(* directory; directories may be free, or linked twice.                    *)
TablesApart ==
  /\ {Root, BootPae} \subseteq tracked
  /\ \A k \in Idx : AtRoot(k) => PdptAt(k) \in Structures
  /\ \A k, l \in Idx : AtRoot(k) /\ AtRoot(l) /\ PdptAt(k) = PdptAt(l) => k = l
  /\ \A k, l \in Idx : InPdpt(k, l) => PdOf(k, l) \in Pages \ {Root, BootPae}
  /\ \A k, l, m \in Idx : AtRoot(m) /\ InPdpt(k, l) => PdOf(k, l) # PdptAt(m)

(* The directory of a pinned page is allocated, and linked once.           *)
PinnedApart ==
  \A v \in Pinned :
    /\ InPdpt(pml4i(v), pdpti(v))
    /\ pd(v) \in tracked
    /\ \A k, l \in Idx : InPdpt(k, l) /\ PdOf(k, l) = pd(v) => <<k, l>> = Place(v)

(* The heap's PDPT has a reference for each allocated directory it links,  *)
(* and a pinned page's directory has one for each page that should be      *)
(* mapped in it.                                                           *)
HeapPdpt == pdpt(kernelHeap.base)
LinkedPds == {d \in tracked : \E l \in Idx : Present(table[HeapPdpt][l]) /\ table[HeapPdpt][l].to = d}
CountsKept ==
  /\ refs[HeapPdpt] = Cardinality(LinkedPds)
  /\ \A v \in Pinned : refs[pd(v)] = Cardinality(Neighbours(v))

(* No page that shares a directory with a pinned one is held twice.        *)
HeldOnce ==
  /\ \A b, c \in owned : b # c => \A u \in PagesOf(b) \cap PagesOf(c) : ~Protected(u)
  /\ \A u \in CallHeld : Protected(u) => u \notin OwnedPages
  /\ \A u \in Held : Protected(u) => u \notin 0 .. 2

(* The pages that share a directory with a pinned one are mapped while     *)
(* they are held, and the pinned ones where they were at first.            *)
PagesKept ==
  /\ \A v \in Residents : Protected(v) => HasPage(v)
  /\ \A v \in 0 .. 2 : Get(v) = BootMap[v]
  /\ \A v \in HeapRegion : Get(v) = backing[v]

(* Until a revert no two entries of linked directories, stale ones too,    *)
(* are of the same physical page.                                          *)
InDirectory(d, k) == (\E l, m \in Idx : InPdpt(l, m) /\ PdOf(l, m) = d) /\ Present(table[d][k])
FramesOnce ==
  ~reverted =>
    \A d, e \in Pages, k, l \in Idx :
      /\ InDirectory(d, k) => \E n \in handed \cup (0 .. LoadPage) : table[d][k].to = Phys(n)
      /\ InDirectory(d, k) /\ InDirectory(e, l) /\ table[d][k].to = table[e][l].to
           => d = e /\ k = l

Kept == TablesApart /\ PinnedApart /\ CountsKept /\ HeldOnce /\ PagesKept /\ FramesOnce

KeepInv ==
  /\ SysInv
  /\ stage \in BootStages => status # "wild"
  /\ stage \in KernelStages => RootKept
  /\ stage \in {"mm", "heap"} /\ status = "running" => FirstCall
  /\ stage = "up" /\ status = "running" /\ OnePdpt => Kept
  /\ OnePdpt => status # "wild"

-----------------------------------------------------------------------------
(* The PML4.                                                               *)

(* No entry of the tables S is of the PML4. *)
Rootless(S) == {T \in Tables : \A p \in S, k \in Idx : Present(T[p][k]) => T[p][k].to # Root}

LEMMA RootlessWrite ==
  ASSUME NEW S \in SUBSET Pages, NEW T \in Rootless(S), NEW p, NEW k \in Idx,
         NEW e \in Entry, e.to # Root
  PROVE  [T EXCEPT ![p] = [T[p] EXCEPT ![k] = e]] \in Rootless(S)
<1> DEFINE U == [T EXCEPT ![p] = [T[p] EXCEPT ![k] = e]]
<1>1. T \in Tables /\ \A q \in S, l \in Idx : Present(T[q][l]) => T[q][l].to # Root
  BY DEF Rootless
<1>2. U \in Tables
  BY <1>1, WriteEntry
<1>3. ASSUME NEW q \in S, NEW l \in Idx PROVE U[q][l] = T[q][l] \/ U[q][l] = e
  <2>1. T \in [Pages -> [Idx -> Entry]]
    BY <1>1 DEF Tables
  <2> QED
    BY <2>1
<1> HIDE DEF U
<1>4. \A q \in S, l \in Idx : Present(U[q][l]) => U[q][l].to # Root
  BY <1>1, <1>3
<1> QED
  BY <1>2, <1>4 DEF Rootless, U

LEMMA RootlessClear ==
  ASSUME NEW S \in SUBSET Pages, NEW T \in Rootless(S), NEW p \in Pages
  PROVE  [T EXCEPT ![p] = ZeroPage] \in Rootless(S \cup {p})
<1> DEFINE U == [T EXCEPT ![p] = ZeroPage]
<1>1. T \in Tables /\ \A q \in S, l \in Idx : Present(T[q][l]) => T[q][l].to # Root
  BY DEF Rootless
<1>2. U \in Tables
  BY <1>1, ClearPage
<1>3. U[p] = ZeroPage /\ \A q \in Pages \ {p} : U[q] = T[q]
  BY <1>1 DEF Tables
<1>4. \A l \in Idx : ~Present(ZeroPage[l])
  BY DEF ZeroPage, Zero, Present
<1> HIDE DEF U
<1>5. \A q \in S \cup {p}, l \in Idx : Present(U[q][l]) => U[q][l].to # Root
  BY <1>1, <1>3, <1>4
<1> QED
  BY <1>2, <1>5 DEF Rootless, U

(* The walks of map() and unmap() never end in the PML4. *)
LEMMA RootNotReached ==
  ASSUME TypeOK, RootKept, NEW v \in VPages
  PROVE  /\ HasPdpt(v) => pdpt(v) \in Pages \ {Root}
         /\ HasPd(v) => pd(v) # Root
<1>1. pml4i(v) \in Idx /\ pdpti(v) \in Idx /\ Root \in Pages
  BY Indices DEF Root, Pages
<1>2. HasPdpt(v) => pdpt(v) \in Pages \ {Root} /\ pdpt(v) \in MaybeTables
  <2>1. Root \in MaybeTables
    BY DEF RootKept, MaybeTables
  <2> QED
    BY <1>1, <2>1 DEF HasPdpt, pdpt, RootKept, AtRoot, PdptAt, MaybeTables
<1>3. HasPd(v) => pd(v) # Root
  BY <1>1, <1>2 DEF HasPd, pd, RootKept
<1> QED
  BY <1>2, <1>3

(* So neither changes an entry that the PML4 has. *)
LEMMA RootMap ==
  ASSUME TypeOK, RootKept, NEW v \in VPages, NEW f \in Nat, NEW fl \in SUBSET FlagBits,
         f # Root, Map(v, f, fl)
  PROVE  RootKept' /\ \A k \in Idx : AtRoot(k) => table'[Root][k] = table[Root][k]
<1>1. /\ pml4i(v) \in Idx /\ pdpti(v) \in Idx /\ pdi(v) \in Idx /\ Root \in Pages
      /\ PageEntry(f, fl) \in Entry /\ PageEntry(f, fl).to = f
  BY Indices, EntryTypes DEF PageEntry, Root, Pages
<1>2. /\ table \in Rootless(MaybeTables) /\ table \in [Pages -> [Idx -> Entry]]
      /\ MaybeTables \in SUBSET Pages
  BY DEF RootKept, Rootless, MaybeTables, TypeOK, Tables, Entry
<1>3. ASSUME NEW N, tracked' = tracked \cup N, table' \in Rootless(MaybeTables \cup N),
             table'[Root] = table[Root]
      PROVE  RootKept' /\ \A k \in Idx : AtRoot(k) => table'[Root][k] = table[Root][k]
  <2>1. \A k : (AtRoot(k)' <=> AtRoot(k)) /\ PdptAt(k)' = PdptAt(k)
    BY <1>3 DEF AtRoot, PdptAt
  <2>2. MaybeTables' = MaybeTables \cup N
    BY <1>3, <2>1 DEF MaybeTables
  <2> QED
    BY <1>3, <2>1, <2>2 DEF RootKept, Rootless
<1>4. CASE UNCHANGED <<table, tracked>>
  <2>1. tracked' = tracked \cup {} /\ MaybeTables = MaybeTables \cup {}
    BY <1>4
  <2> QED
    BY <1>2, <1>3, <1>4, <2>1
<1>5. CASE MapEntry(v, f, fl) /\ ~Present(pde(v))
  <2>1. /\ table' = [table EXCEPT ![pd(v)] = [table[pd(v)] EXCEPT ![pdi(v)] = PageEntry(f, fl)]]
        /\ tracked' = tracked /\ pd(v) # Root
    BY <1>5, RootNotReached DEF MapEntry
  <2>2. table' \in Rootless(MaybeTables)
    BY <1>1, <1>2, <2>1, RootlessWrite
  <2>3. table'[Root] = table[Root]
    BY <1>2, <2>1
  <2>4. tracked' = tracked \cup {} /\ MaybeTables = MaybeTables \cup {}
    BY <2>1
  <2> QED
    BY <1>3, <2>2, <2>3, <2>4
<1>6. CASE MapNewPd(v, f, fl) /\ Untracked # {}
  <2> DEFINE new == Lowest(Untracked)
             T0 == [table EXCEPT ![new] = ZeroPage]
             T1 == [T0 EXCEPT ![new] = [T0[new] EXCEPT ![pdi(v)] = PageEntry(f, fl)]]
             T2 == [T1 EXCEPT ![pdpt(v)] = [T1[pdpt(v)] EXCEPT ![pdpti(v)] = TableEntry(new)]]
  <2>1. new \in Pages \ tracked
    BY <1>6, AllocPage
  <2>2. new # Root /\ pdpt(v) # Root
    BY <1>6, <2>1, RootNotReached DEF RootKept, MapNewPd
  <2>3. table' = T2 /\ tracked' = tracked \cup {new}
    BY <1>6 DEF MapNewPd
  <2> HIDE DEF new
  <2>4. MaybeTables \cup {new} \in SUBSET Pages
    BY <1>2, <2>1
  <2>5. TableEntry(new) \in Entry /\ TableEntry(new).to # Root
    BY <2>1, <2>2, EntryTypes DEF TableEntry
  <2>6. T0 \in Rootless(MaybeTables \cup {new}) /\ T0[Root] = table[Root]
    BY <1>1, <1>2, <2>1, <2>2, RootlessClear
  <2> HIDE DEF T0
  <2>7. T1 \in Rootless(MaybeTables \cup {new}) /\ T1[Root] = T0[Root]
    <3>1. T1 \in Rootless(MaybeTables \cup {new})
      BY <1>1, <2>6, <2>4, RootlessWrite
    <3>2. T0 \in [Pages -> [Idx -> Entry]]
      BY <2>6 DEF Rootless, Tables
    <3> QED
      BY <1>1, <2>2, <3>1, <3>2
  <2> HIDE DEF T1
  <2>8. T2 \in Rootless(MaybeTables \cup {new}) /\ T2[Root] = T1[Root]
    <3>1. T2 \in Rootless(MaybeTables \cup {new})
      BY <1>1, <2>5, <2>7, <2>4, RootlessWrite
    <3>2. T1 \in [Pages -> [Idx -> Entry]]
      BY <2>7 DEF Rootless, Tables
    <3> QED
      BY <1>1, <2>2, <3>1, <3>2
  <2> HIDE DEF T2
  <2> QED
    BY <1>3, <2>3, <2>6, <2>7, <2>8
<1>7. CASE MapNewPdpt(v, f, fl) /\ ~(Cardinality(Untracked) < 2)
  <2> DEFINE first == Lowest(Untracked)
             second == Lowest(Untracked \ {first})
             T00 == [table EXCEPT ![first] = ZeroPage]
             T0 == [T00 EXCEPT ![second] = ZeroPage]
             T1 == [T0 EXCEPT ![second] = [T0[second] EXCEPT ![pdi(v)] = PageEntry(f, fl)]]
             T2 == [T1 EXCEPT ![first] = [T1[first] EXCEPT ![pdpti(v)] = TableEntry(second)]]
             T3 == [T2 EXCEPT ![Root] = [T2[Root] EXCEPT ![pml4i(v)] = TableEntry(first)]]
  <2>1. first \in Pages \ tracked /\ second \in Pages \ tracked
    <3>1. Cardinality(Untracked) >= 2
      BY <1>7, UntrackedPages
    <3> QED
      BY <3>1, AllocTwoPages
  <2>2. table' = T3
    BY <1>7 DEF MapNewPdpt
  <2>3. tracked' = tracked \cup {first, second} /\ ~HasPdpt(v)
    BY <1>7 DEF MapNewPdpt
  <2> HIDE DEF second
  <2> HIDE DEF first
  <2> DEFINE S == MaybeTables \cup {first} \cup {second}
  <2>4. S \in SUBSET Pages /\ MaybeTables \cup {first} \in SUBSET Pages
    BY <1>2, <2>1
  <2>5. first # Root /\ second # Root
    BY <2>1 DEF RootKept
  <2>6. /\ TableEntry(first) \in Entry /\ TableEntry(first).to = first
        /\ TableEntry(second) \in Entry /\ TableEntry(second).to = second
    BY <2>1, EntryTypes DEF TableEntry
  <2>7. T00 \in Rootless(MaybeTables \cup {first}) /\ T00[Root] = table[Root]
    BY <1>1, <1>2, <2>1, <2>5, RootlessClear
  <2> HIDE DEF T00
  <2>8. T0 \in Rootless(S) /\ T0[Root] = T00[Root]
    <3>1. T0 \in Rootless(S)
      BY <2>1, <2>7, <2>4, RootlessClear
    <3>2. T00 \in [Pages -> [Idx -> Entry]]
      BY <2>7 DEF Rootless, Tables
    <3> QED
      BY <1>1, <2>5, <3>1, <3>2
  <2> HIDE DEF T0
  <2>9. T1 \in Rootless(S) /\ T1[Root] = T0[Root]
    <3>1. T1 \in Rootless(S)
      BY <1>1, <2>8, <2>4, RootlessWrite
    <3>2. T0 \in [Pages -> [Idx -> Entry]]
      BY <2>8 DEF Rootless, Tables
    <3> QED
      BY <1>1, <2>5, <3>1, <3>2
  <2> HIDE DEF T1
  <2>10. T2 \in Rootless(S) /\ T2[Root] = T1[Root]
    <3>1. T2 \in Rootless(S)
      BY <1>1, <2>5, <2>6, <2>9, <2>4, RootlessWrite
    <3>2. T1 \in [Pages -> [Idx -> Entry]]
      BY <2>9 DEF Rootless, Tables
    <3> QED
      BY <1>1, <2>5, <3>1, <3>2
  <2> HIDE DEF T2
  <2>11. T3 \in Rootless(S) /\ T3[Root] = [table[Root] EXCEPT ![pml4i(v)] = TableEntry(first)]
    <3>1. T3 \in Rootless(S)
      BY <1>1, <2>5, <2>6, <2>10, <2>4, RootlessWrite
    <3>2. T2 \in [Pages -> [Idx -> Entry]]
      BY <2>10 DEF Rootless, Tables
    <3> QED
      BY <1>1, <2>7, <2>8, <2>9, <2>10, <3>1, <3>2
  <2> HIDE DEF T3
  <2>12. \A k \in Idx \ {pml4i(v)} : table'[Root][k] = table[Root][k]
    BY <1>1, <1>2, <2>2, <2>11
  <2>13. PdptAt(pml4i(v))' = first /\ ~AtRoot(pml4i(v))
    BY <1>1, <1>2, <2>2, <2>3, <2>6, <2>11 DEF PdptAt, AtRoot, HasPdpt
  <2>14. \A k \in Idx : AtRoot(k)' => PdptAt(k)' \in Pages
    BY <2>1, <2>12, <2>13 DEF RootKept, AtRoot, PdptAt
  <2>15. MaybeTables' \subseteq S
    <3>1. ASSUME NEW k \in Idx, AtRoot(k)' PROVE PdptAt(k)' \in S
      <4>1. k # pml4i(v) => AtRoot(k) /\ PdptAt(k)' = PdptAt(k)
        BY <2>12, <3>1 DEF AtRoot, PdptAt
      <4> QED
        BY <2>13, <3>1, <4>1 DEF MaybeTables
    <3> QED
      BY <2>3, <3>1 DEF MaybeTables
  <2>16. table' \in Rootless(S) /\ Root \in tracked'
    BY <2>2, <2>3, <2>11 DEF RootKept
  <2> QED
    <3>1. \A p \in MaybeTables', k \in Idx : Present(table'[p][k]) => table'[p][k].to # Root
      BY <2>16, <2>15 DEF Rootless
    <3>2. \A k \in Idx : AtRoot(k) => table'[Root][k] = table[Root][k]
      BY <2>12, <2>13
    <3> QED
      BY <2>14, <2>16, <3>1, <3>2 DEF RootKept
<1>8. Panic \/ GoAstray => UNCHANGED <<table, tracked>>
  BY DEF Panic, GoAstray
<1>9. MapEntry(v, f, fl) /\ Present(pde(v)) => Panic
  BY DEF MapEntry
<1>10. MapNewPd(v, f, fl) /\ Untracked = {} => Panic
  BY DEF MapNewPd
<1>11. MapNewPdpt(v, f, fl) /\ Cardinality(Untracked) < 2 => Panic
  BY DEF MapNewPdpt
<1>12. GoAstray \/ MapEntry(v, f, fl) \/ MapNewPd(v, f, fl) \/ MapNewPdpt(v, f, fl)
  BY DEF Map
<1> QED
  BY <1>4, <1>5, <1>6, <1>7, <1>8, <1>9, <1>10, <1>11, <1>12

(* Fewer tracked pages leave it at least as true. *)
LEMMA RootSame ==
  ASSUME RootKept, table' = table, tracked' \subseteq tracked, Root \in tracked'
  PROVE  RootKept'
<1>1. \A k : (AtRoot(k)' <=> AtRoot(k)) /\ PdptAt(k)' = PdptAt(k)
  BY DEF AtRoot, PdptAt
<1>2. MaybeTables' \subseteq MaybeTables
  BY <1>1 DEF MaybeTables
<1> QED
  BY <1>1, <1>2 DEF RootKept

LEMMA RootUnmap ==
  ASSUME TypeOK, RootKept, NEW v \in VPages, Unmap(v)
  PROVE  RootKept' /\ table' = table
<1>1. table' = table /\ Root \in tracked' /\ tracked' \subseteq tracked
  <2>1. CASE UnmapFreePd(v)
    <3>1. pd(v) # Root /\ pdpt(v) # Root
      BY <2>1, RootNotReached DEF UnmapFreePd, HasPage, HasPd
    <3> QED
      BY <2>1, <3>1 DEF UnmapFreePd, Panic, Untrack, RootKept
  <2> QED
    BY <2>1 DEF Unmap, GoAstray, UnmapKeepPd, UnmapNotFound, pmvars, RootKept
<1> QED
  BY <1>1, RootSame

(* The same of all steps of the memory manager. *)
LEMMA RootStep ==
  ASSUME MemInv, RootKept, MemStep
  PROVE  RootKept' /\ \A k \in Idx : AtRoot(k) => table'[Root][k] = table[Root][k]
<1> TypeOK
  BY DEF MemInv, MemTypeOK
<1>1. ASSUME UNCHANGED <<table, tracked>>
      PROVE  RootKept' /\ \A k \in Idx : AtRoot(k) => table'[Root][k] = table[Root][k]
  BY <1>1, RootSame DEF RootKept
<1>2. CASE UNCHANGED pmvars \/ Panic \/ GoAstray
  BY <1>1, <1>2 DEF pmvars, Panic, GoAstray
<1>3. CASE \E n \in Nat, fl \in AllocFlags : AllocStart(n, fl)
  BY <1>1, <1>3 DEF AllocStart, pmvars
<1>4. CASE \E b \in owned : FreeStart(b)
  BY <1>1, <1>4 DEF FreeStart, pmvars
<1>5. CASE AllocScan \/ AllocBind \/ AllocFail \/ AllocDone \/ FreeDone
  BY <1>1, <1>5 DEF AllocScan, AllocBind, AllocFail, AllocDone, FreeDone, pmvars
<1>6. CASE BindPage
  <2>1. PICK v, n : v = start + i /\ n = pages[i + 1]
    OBVIOUS
  <2>2. Map(v, Phys(n), aflags) /\ mpc = "bind" /\ i < count
    BY <1>6, <2>1 DEF BindPage
  <2>3. v \in VPages /\ Phys(n) \in Nat /\ aflags \in SUBSET FlagBits /\ n \in Frame
    BY <2>1, <2>2, BindArguments DEF MemInv
  <2>4. Phys(n) # Root
    BY <2>3, PhysAssumption DEF Phys, Frame, Root
  <2> QED
    BY <2>2, <2>3, <2>4, RootMap
<1>7. CASE FreePage
  <2>1. PICK v : v = start + i
    OBVIOUS
  <2>2. mpc = "free" /\ i < count /\ (Unmap(v) \/ Panic)
    BY <1>7, <2>1 DEF FreePage
  <2>3. v \in VPages
    BY <2>1, <2>2, FreeArguments DEF MemInv
  <2> QED
    BY <1>1, <2>2, <2>3, RootUnmap DEF Panic
<1> QED
  BY <1>2, <1>3, <1>4, <1>5, <1>6, <1>7 DEF MemStep, CallStep

(* So the PDPTs of clients' pages only become more. *)
LEMMA SlotsStay ==
  ASSUME \A k \in Idx : AtRoot(k) => table'[Root][k] = table[Root][k]
  PROVE  ClientSlots \subseteq ClientSlots' /\ (OnePdpt' => OnePdpt)
<1>1. ClientSlots \subseteq ClientSlots'
  BY DEF ClientSlots, AtRoot
<1> QED
  BY <1>1 DEF OnePdpt

-----------------------------------------------------------------------------
(* What map() writes.                                                      *)

LEMMA ApartGet == TypeOK /\ TablesApart => GetIsByIndex
<1> SUFFICES ASSUME TypeOK, TablesApart, NEW v \in VPages
             PROVE  GetIsByIndex!(v)
  BY DEF GetIsByIndex
<1>1. pml4i(v) \in Idx /\ pdpti(v) \in Idx /\ pdi(v) \in Idx
  BY Indices
<1>2. /\ HasPdpt(v) <=> AtRoot(pml4i(v))
      /\ pdpt(v) = PdptAt(pml4i(v))
  BY DEF HasPdpt, AtRoot, pdpt, PdptAt
<1>3. /\ HasPd(v) <=> InPdpt(pml4i(v), pdpti(v))
      /\ pd(v) = PdOf(pml4i(v), pdpti(v))
  BY <1>2 DEF HasPd, InPdpt, pd, PdOf
<1>4. ~Astray(v)
  BY <1>1, <1>3 DEF Astray, TablesApart
<1>5. pde(v) = table[PdOf(pml4i(v), pdpti(v))][pdi(v)]
  BY <1>3 DEF pde
<1>6. HasPage(v) <=> InPd(pml4i(v), pdpti(v), pdi(v))
  BY <1>3, <1>4, <1>5 DEF HasPage, InPd
<1> QED
  BY <1>2, <1>3, <1>4, <1>5, <1>6 DEF Get, Leaf

LEMMA SoundApart == TypeOK /\ Sound => TablesApart
BY SoundIsByIndex DEF SoundByIndex, TreeByIndex, TablesApart, Structures, TypeOK

(* An entry e at k of the directory d; a new directory d for it, at j of   *)
(* the PDPT p; a new PDPT p for that, at h of the PML4.                    *)
Fills(d, k, e) ==
  /\ d \in Pages /\ ~Present(table[d][k])
  /\ table'[d] = [table[d] EXCEPT ![k] = e] /\ refs'[d] = refs[d] + 1
  /\ \A q \in Pages \ {d} : table'[q] = table[q] /\ refs'[q] = refs[q]
  /\ tracked' = tracked

Links(p, j, d, k, e) ==
  /\ p \in tracked /\ d \in Pages \ tracked
  /\ table'[d] = [ZeroPage EXCEPT ![k] = e]
  /\ table'[p] = [table[p] EXCEPT ![j] = TableEntry(d)]
  /\ refs'[d] = refs[d] + 1 /\ refs'[p] = refs[p] + 1
  /\ \A q \in Pages \ {d, p} : table'[q] = table[q] /\ refs'[q] = refs[q]
  /\ tracked' = tracked \cup {d}

Roots(h, p, j, d, k, e) ==
  /\ p \in Pages \ tracked /\ d \in Pages \ tracked /\ p # d
  /\ table'[d] = [ZeroPage EXCEPT ![k] = e]
  /\ table'[p] = [ZeroPage EXCEPT ![j] = TableEntry(d)]
  /\ table'[Root] = [table[Root] EXCEPT ![h] = TableEntry(p)]
  /\ refs'[d] = refs[d] + 1 /\ refs'[p] = refs[p] + 1
  /\ \A q \in Pages \ {d, p, Root} : table'[q] = table[q]
  /\ \A q \in Pages \ {d, p} : refs'[q] = refs[q]
  /\ tracked' = tracked \cup {p, d}

MapWrites(h, j, k, e) ==
  \/ InPdpt(h, j) /\ Fills(PdOf(h, j), k, e)
  \/ AtRoot(h) /\ ~InPdpt(h, j) /\ \E d : Links(PdptAt(h), j, d, k, e)
  \/ ~AtRoot(h) /\ \E p, d : Roots(h, p, j, d, k, e)

(* map() does one of these, or stops the machine. *)
LEMMA MapEffect ==
  ASSUME TypeOK, TablesApart, NEW v \in VPages, NEW f \in Nat, NEW fl \in SUBSET FlagBits,
         Map(v, f, fl), status' = "running"
  PROVE  freed' = freed /\ MapWrites(pml4i(v), pdpti(v), pdi(v), PageEntry(f, fl))
<1>1. PICK h \in Idx, j \in Idx, k \in Idx : h = pml4i(v) /\ j = pdpti(v) /\ k = pdi(v)
  BY Indices
<1>2. GetIsByIndex /\ ~Astray(v)
  BY ApartGet DEF GetIsByIndex
<1>3. /\ HasPdpt(v) <=> AtRoot(h)
      /\ pdpt(v) = PdptAt(h)
      /\ HasPd(v) <=> InPdpt(h, j)
      /\ pd(v) = PdOf(h, j)
      /\ pde(v) = table[PdOf(h, j)][k]
  BY <1>1, <1>2 DEF GetIsByIndex
<1>4. PICK e : e = PageEntry(f, fl)
  OBVIOUS
<1>5. ~Panic
  BY DEF Panic
<1>6. CASE MapEntry(v, f, fl)
  <2>1. PICK D : D = PdOf(h, j)
    OBVIOUS
  <2>2. ~Present(table[D][k]) /\ InPdpt(h, j) /\ D \in Pages
    BY <1>1, <1>3, <1>5, <1>6, <2>1 DEF MapEntry, TablesApart
  <2>3. /\ table' = [table EXCEPT ![D] = [table[D] EXCEPT ![k] = e]]
        /\ refs' = [refs EXCEPT ![D] = refs[D] + 1]
        /\ tracked' = tracked /\ freed' = freed
    BY <1>1, <1>3, <1>4, <1>5, <1>6, <2>1 DEF MapEntry, Inc
  <2>4. Fills(D, k, e)
    BY <2>2, <2>3 DEF Fills, TypeOK
  <2> QED
    BY <1>1, <1>4, <2>1, <2>2, <2>3, <2>4 DEF MapWrites
<1>7. CASE MapNewPd(v, f, fl)
  <2>1. Untracked # {}
    BY <1>5, <1>7 DEF MapNewPd
  <2>2. PICK D : D = Lowest(Untracked)
    OBVIOUS
  <2>3. PICK P : P = PdptAt(h)
    OBVIOUS
  <2>4. PICK t : t = TableEntry(D)
    OBVIOUS
  <2>5. D \in Pages \ tracked
    BY <2>1, <2>2, AllocPage
  <2>6. AtRoot(h) /\ ~InPdpt(h, j)
    BY <1>3, <1>7 DEF MapNewPd
  <2>7. P \in Pages /\ P \in tracked /\ P # D
    BY <2>3, <2>5, <2>6 DEF TablesApart, Structures, TypeOK
  <2> DEFINE T0 == [table EXCEPT ![D] = ZeroPage]
             T1 == [T0 EXCEPT ![D] = [T0[D] EXCEPT ![k] = e]]
  <2>8. table' = [T1 EXCEPT ![P] = [T1[P] EXCEPT ![j] = t]]
    BY <1>1, <1>3, <1>4, <1>7, <2>1, <2>2, <2>3, <2>4 DEF MapNewPd
  <2>9. refs' = [[refs EXCEPT ![D] = refs[D] + 1] EXCEPT ![P] = refs[P] + 1]
    BY <1>1, <1>3, <1>7, <2>1, <2>2, <2>3, <2>7 DEF MapNewPd, Inc
  <2>10. tracked' = tracked \cup {D} /\ freed' = freed
    BY <1>7, <2>1, <2>2 DEF MapNewPd
  <2>11. /\ table'[D] = [ZeroPage EXCEPT ![k] = e]
         /\ table'[P] = [table[P] EXCEPT ![j] = t]
         /\ \A p \in Pages \ {D, P} : table'[p] = table[p]
    BY <2>5, <2>7, <2>8 DEF TypeOK
  <2>12. /\ refs'[D] = refs[D] + 1 /\ refs'[P] = refs[P] + 1
         /\ \A p \in Pages \ {D, P} : refs'[p] = refs[p]
    BY <2>5, <2>7, <2>9 DEF TypeOK
  <2>13. Links(P, j, D, k, e)
    BY <2>4, <2>5, <2>7, <2>10, <2>11, <2>12 DEF Links
  <2> QED
    BY <1>1, <1>4, <2>3, <2>6, <2>10, <2>13 DEF MapWrites
<1>8. CASE MapNewPdpt(v, f, fl)
  <2>1. ~(Cardinality(Untracked) < 2)
    BY <1>5, <1>8 DEF MapNewPdpt
  <2>2. PICK P, D : P = Lowest(Untracked) /\ D = Lowest(Untracked \ {P})
    OBVIOUS
  <2>3. P \in Pages \ tracked /\ D \in Pages \ tracked /\ P # D
    <3>1. Cardinality(Untracked) >= 2
      BY <2>1, UntrackedPages
    <3> QED
      BY <2>2, <3>1, AllocTwoPages
  <2>4. ~AtRoot(h) /\ Root \in Pages /\ Root # P /\ Root # D
    BY <1>3, <1>8, <2>3 DEF MapNewPdpt, TablesApart, TypeOK
  <2> DEFINE T00 == [table EXCEPT ![P] = ZeroPage]
             T0 == [T00 EXCEPT ![D] = ZeroPage]
             T1 == [T0 EXCEPT ![D] = [T0[D] EXCEPT ![k] = e]]
             T2 == [T1 EXCEPT ![P] = [T1[P] EXCEPT ![j] = TableEntry(D)]]
  <2>5. table' = [T2 EXCEPT ![Root] = [T2[Root] EXCEPT ![h] = TableEntry(P)]]
    BY <1>1, <1>4, <1>8, <2>1, <2>2 DEF MapNewPdpt
  <2>6. refs' = [[refs EXCEPT ![D] = refs[D] + 1] EXCEPT ![P] = refs[P] + 1]
    BY <1>8, <2>1, <2>2, <2>3 DEF MapNewPdpt, Inc
  <2>7. tracked' = tracked \cup {P, D} /\ freed' = freed
    BY <1>8, <2>1, <2>2 DEF MapNewPdpt
  <2>8. /\ table'[D] = [ZeroPage EXCEPT ![k] = e]
        /\ table'[P] = [ZeroPage EXCEPT ![j] = TableEntry(D)]
        /\ table'[Root] = [table[Root] EXCEPT ![h] = TableEntry(P)]
        /\ \A p \in Pages \ {D, P, Root} : table'[p] = table[p]
    BY <2>3, <2>4, <2>5 DEF TypeOK
  <2>9. /\ refs'[D] = refs[D] + 1 /\ refs'[P] = refs[P] + 1
        /\ \A p \in Pages \ {D, P} : refs'[p] = refs[p]
    BY <2>3, <2>6 DEF TypeOK
  <2>10. Roots(h, P, j, D, k, e)
    BY <2>3, <2>7, <2>8, <2>9 DEF Roots
  <2> QED
    BY <1>1, <1>4, <2>4, <2>7, <2>10 DEF MapWrites
<1>9. ~GoAstray
  BY DEF GoAstray
<1> QED
  BY <1>2, <1>6, <1>7, <1>8, <1>9 DEF Map

-----------------------------------------------------------------------------
(* The first call.                                                         *)

LEMMA NewTable ==
  ASSUME NEW p, NEW k \in Idx, NEW e, Present(e), table'[p] = [ZeroPage EXCEPT ![k] = e]
  PROVE  Entries(p)' = 1
<1>1. Present(table'[p][k]) /\ \A n \in Idx \ {k} : ~Present(table'[p][n])
  BY DEF ZeroPage, Zero, Present
<1> QED
  BY <1>1, EntriesOne

LEMMA MoreEntries ==
  ASSUME TypeOK, NEW p \in Pages, NEW k \in Idx, NEW e, Present(e), ~Present(table[p][k]),
         table'[p] = [table[p] EXCEPT ![k] = e]
  PROVE  Entries(p)' = Entries(p) + 1
<1>1. Present(table'[p][k]) /\ \A n \in Idx \ {k} : table'[p][n] = table[p][n]
  BY DEF TypeOK
<1> QED
  BY <1>1, EntriesAdd

LEMMA MapCounted ==
  ASSUME TypeOK, Sound, Counted,
         NEW v \in VPages, NEW f \in Nat, NEW fl \in SUBSET FlagBits, Map(v, f, fl),
         status' = "running"
  PROVE  Counted'
<1>1. PICK h \in Idx, j \in Idx, k \in Idx : h = pml4i(v) /\ j = pdpti(v) /\ k = pdi(v)
  BY Indices
<1>2. PICK e : e = PageEntry(f, fl)
  OBVIOUS
<1>3. Present(e)
  BY <1>2 DEF PageEntry, Present
<1>4. SoundByIndex /\ TablesApart
  BY SoundIsByIndex, SoundApart
<1>5. MapWrites(h, j, k, e)
  BY <1>1, <1>2, <1>4, MapEffect
<1>6. \A d \in Pages : Present(TableEntry(d))
  BY DEF TableEntry, Present
<1>7. CASE InPdpt(h, j) /\ Fills(PdOf(h, j), k, e)
  <2>1. PICK d \in Pages : d = PdOf(h, j) /\ Fills(d, k, e) /\ d \in tracked \ {Root}
    BY <1>4, <1>7 DEF SoundByIndex, TreeByIndex, Structures, Fills
  <2>2. Entries(d)' = Entries(d) + 1
    BY <1>3, <2>1, MoreEntries DEF Fills
  <2> QED
    BY <2>1, <2>2, EntriesSame DEF Fills, Counted
<1>8. CASE AtRoot(h) /\ ~InPdpt(h, j) /\ \E d : Links(PdptAt(h), j, d, k, e)
  <2>1. PICK p \in Pages, d \in Pages : /\ p = PdptAt(h) /\ Links(p, j, d, k, e) /\ p # d
                                       /\ p \in tracked \ {Root} /\ d # Root
    BY <1>4, <1>8 DEF SoundByIndex, TreeByIndex, Structures, Links, TypeOK
  <2>2. ~Present(table[p][j])
    BY <1>8, <2>1 DEF InPdpt
  <2>3. Entries(p)' = Entries(p) + 1 /\ Entries(d)' = 1
    BY <1>3, <1>6, <2>1, <2>2, MoreEntries, NewTable DEF Links
  <2> QED
    BY <2>1, <2>3, EntriesSame DEF Links, Counted
<1>9. CASE ~AtRoot(h) /\ \E p, d : Roots(h, p, j, d, k, e)
  <2>1. PICK p \in Pages, d \in Pages : Roots(h, p, j, d, k, e) /\ p # Root /\ d # Root /\ p # d
    BY <1>4, <1>9 DEF SoundByIndex, Roots
  <2>2. Entries(p)' = 1 /\ Entries(d)' = 1
    BY <1>3, <1>6, <2>1, NewTable DEF Roots
  <2> QED
    BY <2>1, <2>2, EntriesSame DEF Roots, Counted
<1> QED
  BY <1>5, <1>7, <1>8, <1>9 DEF MapWrites

-----------------------------------------------------------------------------
(* What calls hold.                                                        *)

(* Steps that leave what is held to the same blocks and pages; bind a page *)
(* to the call's; unbind one; make a block of the call's; start to free    *)
(* one.  Only two of them touch the paging structures.                     *)
SameHeld == owned' = owned /\ CallHeld' = CallHeld /\ handed' = handed
Binds(v, n) ==
  /\ mpc = "bind" /\ n = pages[i + 1] /\ i + 1 \in DOMAIN pages /\ v \in ClientRange
  /\ Map(v, Phys(n), aflags) /\ Phys(n) \in Nat /\ aflags \in SUBSET FlagBits
  /\ CallHeld' = CallHeld \cup {v} /\ v \notin CallHeld
  /\ owned' = owned /\ handed' = handed \cup {n}
BindsOne == \E v \in VPages, n \in Frame : Binds(v, n)
Frees(v) ==
  /\ mpc = "free" /\ v \in ClientRange
  /\ ((HasPage(v) \/ Astray(v)) /\ Unmap(v)) \/ Panic
  /\ CallHeld' = CallHeld \ {v} /\ v \in CallHeld
  /\ owned' = owned /\ handed' = handed
FreesOne == \E v \in VPages : Frees(v)
BlockMade ==
  \E b : PagesOf(b) = CallHeld /\ owned' = owned \cup {b} /\ CallHeld' = {} /\ handed' = handed
BlockTaken ==
  \E b \in owned : /\ FreeStart(b) /\ PagesOf(b) = CallHeld' /\ owned' = owned \ {b}
                  /\ CallHeld = {} /\ handed' = handed

TablesSame == UNCHANGED <<tracked, refs, table, freed>>

LEMMA HeldSteps ==
  ASSUME MemInv, MemStep
  PROVE  /\ BindsOne \/ FreesOne \/ (TablesSame /\ (SameHeld \/ BlockMade \/ BlockTaken))
         /\ reverted => reverted'
<1>1. /\ start \in Nat /\ count \in Nat /\ i \in 0 .. count
      /\ MaxPages \in Nat /\ count <= MaxPages
  BY VirtAssumption DEF MemInv, MemTypeOK
<1>2. /\ mpc = "bind" => CallHeld = start .. (start + i - 1)
      /\ mpc = "free" => CallHeld = (start + i) .. (start + count - 1)
      /\ mpc \notin {"bind", "free"} => CallHeld = {}
  BY DEF CallHeld
<1>3. /\ mpc' = "bind" => CallHeld' = start' .. (start' + i' - 1)
      /\ mpc' = "free" => CallHeld' = (start' + i') .. (start' + count' - 1)
      /\ mpc' \notin {"bind", "free"} => CallHeld' = {}
  BY DEF CallHeld
<1>4. mpc # "idle" /\ i < count => start + i \in ClientRange
  BY <1>1, VirtAssumption DEF MemInv, CallShape, ClientRange
<1>5. CASE /\ UNCHANGED pmvars \/ Panic \/ GoAstray
           /\ UNCHANGED <<physvars, mmcall, mmhistory>>
  <2>1. TablesSame
    BY <1>5 DEF TablesSame, pmvars, Panic, GoAstray
  <2> QED
    BY <1>5, <2>1 DEF SameHeld, mmcall, mmhistory, CallHeld
<1>6. ASSUME NEW n \in Nat, NEW fl \in AllocFlags, AllocStart(n, fl)
      PROVE  TablesSame /\ SameHeld /\ reverted' = reverted
  BY <1>2, <1>3, <1>6 DEF AllocStart, Idle, TablesSame, SameHeld, pmvars, mmhistory
<1>7. ASSUME NEW b \in owned, FreeStart(b)
      PROVE  TablesSame /\ BlockTaken /\ reverted' = reverted
  <2>1. b.start \in Nat /\ b.count \in Nat
    BY VirtAssumption DEF MemInv, MemTypeOK, CallShape
  <2>2. CallHeld' = PagesOf(b)
    BY <1>3, <1>7, <2>1 DEF FreeStart, PagesOf
  <2> QED
    BY <1>2, <1>7, <2>2 DEF FreeStart, Idle, TablesSame, BlockTaken, pmvars
<1>8. CASE AllocScan
  BY <1>2, <1>3, <1>8 DEF AllocScan, TablesSame, SameHeld, pmvars, mmcall, mmhistory
<1>9. CASE AllocBind
  <2>1. mpc = "phys" /\ mpc' = "bind" /\ start' = start /\ i' = i /\ i = 0
    BY <1>9 DEF AllocBind, MemInv, CallShape
  <2>2. CallHeld' = {}
    BY <1>1, <1>3, <2>1
  <2> QED
    BY <1>2, <1>9, <2>1, <2>2 DEF AllocBind, TablesSame, SameHeld, pmvars, mmhistory
<1>10. CASE AllocFail
  BY <1>2, <1>3, <1>10 DEF AllocFail, Return, TablesSame, SameHeld, pmvars
<1>11. CASE BindPage
  <2>1. /\ mpc = "bind" /\ mpc' = "bind" /\ start' = start /\ i' = i + 1 /\ i < count
        /\ owned' = owned /\ handed' = handed \cup {pages[i + 1]} /\ reverted' = reverted
        /\ Map(start + i, Phys(pages[i + 1]), aflags)
    BY <1>11 DEF BindPage
  <2>2. PICK v, n : v = start + i /\ n = pages[i + 1]
    OBVIOUS
  <2>3. /\ v \in VPages /\ i + 1 \in DOMAIN pages /\ n \in Frame
        /\ Phys(n) \in Nat /\ aflags \in SUBSET FlagBits
    BY <2>1, <2>2, BindArguments DEF MemInv
  <2>4. CallHeld' = CallHeld \cup {v} /\ v \notin CallHeld
    BY <1>1, <1>2, <1>3, <2>1, <2>2
  <2>5. Binds(v, n)
    BY <1>4, <2>1, <2>2, <2>3, <2>4 DEF Binds
  <2> QED
    BY <2>1, <2>3, <2>5 DEF BindsOne
<1>12. CASE AllocDone
  <2> DEFINE b == [start |-> start, count |-> count, flags |-> aflags]
  <2>1. /\ mpc = "bind" /\ i = count /\ mpc' = "idle" /\ owned' = owned \cup {b}
        /\ TablesSame /\ handed' = handed /\ reverted' = reverted
    BY <1>12 DEF AllocDone, Return, TablesSame, pmvars
  <2>2. PagesOf(b) = CallHeld
    BY <1>2, <2>1 DEF PagesOf
  <2> HIDE DEF b
  <2> QED
    BY <1>3, <2>1, <2>2 DEF BlockMade
<1>13. CASE FreePage
  <2>1. /\ mpc = "free" /\ mpc' = "free" /\ start' = start /\ count' = count /\ i' = i + 1
        /\ i < count /\ owned' = owned /\ handed' = handed /\ reverted' = reverted
        /\ ((HasPage(start + i) \/ Astray(start + i)) /\ Unmap(start + i)) \/ Panic
    BY <1>13 DEF FreePage, mmhistory
  <2>2. PICK v : v = start + i
    OBVIOUS
  <2>3. v \in VPages
    BY <2>1, <2>2, FreeArguments DEF MemInv
  <2>4. CallHeld' = CallHeld \ {v} /\ v \in CallHeld
    BY <1>1, <1>2, <1>3, <2>1, <2>2
  <2>5. Frees(v)
    BY <1>4, <2>1, <2>2, <2>4 DEF Frees
  <2> QED
    BY <2>1, <2>3, <2>5 DEF FreesOne
<1>14. CASE FreeDone
  <2>1. mpc = "free" /\ mpc' = "idle" /\ i = count
    BY <1>14 DEF FreeDone, Return
  <2>2. CallHeld = {}
    BY <1>1, <1>2, <2>1
  <2> QED
    BY <1>3, <1>14, <2>1, <2>2 DEF FreeDone, TablesSame, SameHeld, pmvars, mmhistory
<1> QED
  BY <1>5, <1>6, <1>7, <1>8, <1>9, <1>10, <1>11, <1>12, <1>13, <1>14
     DEF MemStep, CallStep, mmhistory, AllocScan, AllocBind, AllocFail, FreeDone

(* What is held is a set of virtual pages, all the same until a page is    *)
(* bound or unbound. *)
LEMMA HeldPages ==
  ASSUME MemInv
  PROVE  Residents \subseteq VPages
<1>1. OwnedPages \subseteq VPages /\ 0 .. 2 \subseteq VPages
  BY ClientPages, FirstPages DEF Idx
<1>2. CallHeld \subseteq VPages
  <2> SUFFICES ASSUME NEW v \in CallHeld PROVE v \in VPages
    OBVIOUS
  <2>1. start \in Nat /\ count \in Nat /\ i \in 0 .. count
    BY VirtAssumption DEF MemInv, MemTypeOK
  <2>2. \/ mpc = "bind" /\ v \in start .. (start + i - 1)
        \/ mpc = "free" /\ v \in (start + i) .. (start + count - 1)
    BY DEF CallHeld
  <2>3. mpc # "idle" /\ v \in start .. (start + count - 1)
    BY <2>1, <2>2
  <2>4. v - start \in 0 .. (count - 1) /\ v = start + (v - start)
    BY <2>3, <2>1
  <2> QED
    BY <2>3, <2>4, CallPageInRange DEF MemInv
<1> QED
  BY <1>1, <1>2 DEF Residents, Held

LEMMA HeldResult ==
  /\ \A v, n : Binds(v, n) => Residents' = Residents \cup {v} /\ OwnedPages' = OwnedPages
  /\ \A v : Frees(v) => Residents' \cup {v} = Residents /\ OwnedPages' = OwnedPages
  /\ SameHeld \/ BlockMade \/ BlockTaken => Held' = Held /\ Residents' = Residents
<1>1. owned' = owned => OwnedPages' = OwnedPages
  BY DEF OwnedPages, PagesOf
<1>2. ASSUME BlockMade PROVE Held' = Held
  <2>1. PICK b : PagesOf(b) = CallHeld /\ owned' = owned \cup {b} /\ CallHeld' = {}
    BY <1>2 DEF BlockMade
  <2>2. OwnedPages' = OwnedPages \cup PagesOf(b)
    BY <2>1 DEF OwnedPages, PagesOf
  <2> QED
    BY <2>1, <2>2 DEF Held
<1>3. ASSUME BlockTaken PROVE Held' = Held
  <2>1. PICK b \in owned : PagesOf(b) = CallHeld' /\ owned' = owned \ {b} /\ CallHeld = {}
    BY <1>3 DEF BlockTaken
  <2>2. OwnedPages' \cup PagesOf(b) = OwnedPages
    BY <2>1 DEF OwnedPages, PagesOf
  <2> QED
    BY <2>1, <2>2 DEF Held
<1> QED
  BY <1>1, <1>2, <1>3 DEF Binds, Frees, SameHeld, Held, Residents

LEMMA FirstCallStep ==
  ASSUME MemInv, FirstCall, MemStep, status' = "running", mpc' # "free"
  PROVE  FirstCall'
<1>1. TypeOK /\ Sound
  BY DEF MemInv, MemTypeOK, SoundUntilFreed, FirstCall
<1>2. CASE BindsOne
  <2>1. PICK v \in VPages, n \in Frame : Binds(v, n)
    BY <1>2 DEF BindsOne
  <2>2. Map(v, Phys(n), aflags) /\ Phys(n) \in Nat /\ aflags \in SUBSET FlagBits
    BY <2>1 DEF Binds
  <2>3. freed' = freed /\ MapsOne(v, Phys(n))
    BY <1>1, <2>2, MapSound DEF MapOutcome
  <2>4. Counted'
    BY <1>1, <2>2, MapCounted DEF FirstCall
  <2>5. Residents' = Residents \cup {v}
    BY <2>1, HeldResult
  <2>6. \A u \in VPages : HasPage(u)' <=> u \in Residents'
    BY <2>3, <2>5 DEF FirstCall, MapsOne
  <2> QED
    BY <2>3, <2>4, <2>6 DEF FirstCall
<1>3. CASE TablesSame /\ (SameHeld \/ BlockMade \/ BlockTaken)
  <2>1. \A v : HasPage(v)' <=> HasPage(v)
    BY <1>3, GetSame DEF TablesSame
  <2>2. Counted'
    BY <1>3, EntriesSame DEF TablesSame, FirstCall, Counted
  <2> QED
    BY <1>3, <2>1, <2>2, HeldResult DEF TablesSame, FirstCall
<1>4. ~FreesOne
  BY DEF FreesOne, Frees, FirstCall
<1> QED
  BY <1>2, <1>3, <1>4, HeldSteps

(* It begins on the tables the loader left, which map the first pages. *)
LEMMA FirstCallInit ==
  ASSUME Fresh, MemInv
  PROVE  FirstCall /\ RootKept
<1>1. TypeOK /\ Inherited /\ ~freed /\ NoCalls
  BY DEF Fresh
<1>2. /\ table[Root] = [ZeroPage EXCEPT ![0] = [to |-> BootPdpt, flags |-> {F_PRESENT}]]
      /\ table[BootPae] = BootTable(2)
      /\ table[BootPdpt] = [ZeroPage EXCEPT ![0] = [to |-> BootPd, flags |-> {F_PRESENT}]]
      /\ table[BootPd] = BootTable(3)
  BY <1>1 DEF Inherited, BootContents, Root, BootPae, BootPdpt, BootPd
<1>3. \A k \in Idx : (AtRoot(k) <=> k = 0) /\ PdptAt(0) = BootPdpt
  BY <1>2, BootPages DEF AtRoot, PdptAt, Present, ZeroPage, Zero
<1>4. \A k, l \in Idx : (InPdpt(k, l) <=> k = 0 /\ l = 0) /\ PdOf(0, 0) = BootPd
  BY <1>2, <1>3, BootPages DEF InPdpt, PdOf, Present, ZeroPage, Zero
<1>5. \A n \in {2, 3}, k \in Idx :
        Present(BootTable(n)[k]) => BootTable(n)[k].to = BootMap[k] /\ k < n
  BY DEF BootTable, Present, Zero
<1>6. RootKept
  <2>1. MaybeTables = {Root, BootPae, BootPdpt, BootPd}
    BY <1>1, <1>3, BootPages DEF MaybeTables, Inherited
  <2>2. \A k \in 0 .. 2 : BootMap[k] # Root
    BY FramesAssumption DEF BootMap, Phys, Root
  <2>3. \A k \in Idx : Present(table[BootPae][k]) => table[BootPae][k].to # Root
    BY <1>2, <1>5, <2>2 DEF Idx
  <2>4. \A k \in Idx : Present(table[BootPd][k]) => table[BootPd][k].to # Root
    BY <1>2, <1>5, <2>2 DEF Idx
  <2>5. \A p \in {Root, BootPdpt}, k \in Idx : Present(table[p][k]) => table[p][k].to # Root
    <3>1. \A k \in Idx : Present(table[Root][k]) => table[Root][k].to = BootPdpt
      BY <1>3 DEF AtRoot, PdptAt
    <3>2. \A k \in Idx : Present(table[BootPdpt][k]) => table[BootPdpt][k].to = BootPd
      BY <1>3, <1>4, BootPages DEF InPdpt, PdOf
    <3> QED
      BY <3>1, <3>2 DEF Root, BootPdpt, BootPd
  <2> QED
    BY <1>1, <1>3, <2>1, <2>3, <2>4, <2>5, BootPages DEF RootKept, Inherited
<1>7. Residents = 0 .. 2
  BY <1>1 DEF Residents, Held, OwnedPages, CallHeld, NoCalls
<1>8. ASSUME NEW v \in VPages PROVE HasPage(v) <=> v \in 0 .. 2
  <2>1. Sound /\ \A u \in 0 .. 2 : HasPage(u)
    BY <1>1, InheritedSound
  <2>2. GetIsByIndex
    BY <1>1, <2>1, SoundIsByIndex, GetByIndex
  <2>3. ASSUME HasPage(v) PROVE v \in 0 .. 2
    <3>1. pml4i(v) = 0 /\ pdpti(v) = 0 /\ pdi(v) \in Idx /\ Present(table[BootPd][pdi(v)])
      BY <1>4, <2>2, <2>3, Indices DEF GetIsByIndex, InPd
    <3>2. pdi(v) < 3
      BY <1>2, <1>5, <3>1
    <3>3. pdi(v) \in VPages /\ pml4i(pdi(v)) = 0 /\ pdpti(pdi(v)) = 0 /\ pdi(pdi(v)) = pdi(v)
      BY <3>1, FirstPages
    <3>4. v = pdi(v)
      BY <3>1, <3>3, IndicesDetermine
    <3> QED
      BY <3>1, <3>2, <3>4 DEF Idx
  <2> QED
    BY <2>1, <2>3
<1>9. Counted
  BY <1>1 DEF Inherited, Counted
<1> QED
  BY <1>1, <1>6, <1>7, <1>8, <1>9 DEF FirstCall, NoCalls

-----------------------------------------------------------------------------
(* Counting pages and directories.                                         *)

LEMMA SameSize ==
  ASSUME NEW S, NEW T, IsFiniteSet(S), NEW f \in [S -> T],
         \A x, y \in S : f[x] = f[y] => x = y, \A z \in T : \E x \in S : f[x] = z
  PROVE  IsFiniteSet(T) /\ Cardinality(T) = Cardinality(S)
<1>1. f \in Surjection(S, T)
  BY DEF Surjection
<1>2. f \in Injection(S, T)
  BY DEF Injection, IsInjective
<1> QED
  BY <1>1, <1>2, FS_Surjection

(* Every triple of indices is of a page. *)
LEMMA IndicesExist ==
  ASSUME NEW h \in Idx, NEW j \in Idx, NEW k \in Idx
  PROVE  \E u \in VPages : pml4i(u) = h /\ pdpti(u) = j /\ pdi(u) = k
<1> DEFINE x == Fanout * h + j
           u == Fanout * x + k
<1>1. /\ Fanout \in Nat \ {0} /\ h \in 0 .. (Fanout - 1) /\ j \in 0 .. (Fanout - 1)
      /\ k \in 0 .. (Fanout - 1)
  BY DEF Idx
<1>2. x \in Nat /\ x <= Fanout * Fanout - 1
  <2>1. Fanout * h \in Nat /\ Fanout * h <= Fanout * (Fanout - 1)
    BY <1>1
  <2> QED
    BY <1>1, <2>1
<1>3. x \div Fanout = h
  BY <1>1, DivExact
<1>4. x % Fanout = j
  <2>1. x = Fanout * (x \div Fanout) + (x % Fanout) /\ x % Fanout \in 0 .. (Fanout - 1)
    BY <1>1, <1>2, DivMod
  <2> QED
    BY <1>1, <1>3, <2>1
<1> HIDE DEF x
<1>5. u \in Nat /\ u <= Fanout * Fanout * Fanout - 1
  <2>1. Fanout * x \in Nat /\ Fanout * x <= Fanout * (Fanout * Fanout - 1)
    BY <1>1, <1>2
  <2> QED
    BY <1>1, <2>1
<1>6. u \div Fanout = x
  BY <1>1, <1>2, DivExact
<1>7. u % Fanout = k
  <2>1. u = Fanout * (u \div Fanout) + (u % Fanout) /\ u % Fanout \in 0 .. (Fanout - 1)
    BY <1>1, <1>5, DivMod
  <2> QED
    BY <1>1, <1>2, <1>6, <2>1
<1>8. u \div (Fanout * Fanout) = h
  BY <1>1, <1>3, <1>5, <1>6, DivTwice
<1>9. u \in VPages
  BY <1>5 DEF VPages
<1> HIDE DEF u
<1> QED
  BY <1>4, <1>6, <1>7, <1>8, <1>9 DEF pml4i, pdpti, pdi

-----------------------------------------------------------------------------
(* The heap gets its block.                                                *)

LEMMA PinnedPages ==
  ASSUME MemInv, HeapBlock
  PROVE  /\ Pinned \subseteq Residents /\ Residents \subseteq VPages
         /\ HeapRegion \subseteq OwnedPages
         /\ kernelHeap.base \in HeapRegion \cap ClientRange
<1>1. PICK b \in owned : b.start = kernelHeap.base /\ HeapRegion = PagesOf(b)
  BY DEF HeapBlock
<1>2. b.start \in VirtStart .. (VirtEnd - 1) /\ b.count \in 1 .. MaxPages
  BY DEF MemInv, MemTypeOK, CallShape
<1>3. HeapRegion \subseteq OwnedPages
  BY <1>1 DEF OwnedPages
<1>4. b.start \in PagesOf(b) \cap ClientRange
  BY <1>2, VirtAssumption DEF PagesOf, ClientRange
<1> QED
  BY <1>1, <1>3, <1>4, HeldPages DEF Pinned, Residents, Held

LEMMA PinnedApartFirst ==
  ASSUME MemInv, FirstCall, HeapBlock
  PROVE  TablesApart /\ PinnedApart
<1>1. TypeOK /\ Sound
  BY DEF MemInv, MemTypeOK, SoundUntilFreed, FirstCall
<1>2. SoundByIndex /\ GetIsByIndex /\ TablesApart
  BY <1>1, SoundIsByIndex, GetByIndex, SoundApart
<1>3. ASSUME NEW v \in Pinned
      PROVE  /\ InPdpt(pml4i(v), pdpti(v))
             /\ pd(v) \in tracked
             /\ \A k, l \in Idx : InPdpt(k, l) /\ PdOf(k, l) = pd(v) => <<k, l>> = Place(v)
  <2>1. v \in VPages /\ HasPage(v)
    BY PinnedPages DEF FirstCall
  <2>2. PICK h \in Idx, j \in Idx : h = pml4i(v) /\ j = pdpti(v)
    BY <2>1, Indices
  <2>3. InPdpt(h, j) /\ pd(v) = PdOf(h, j)
    BY <1>2, <2>1, <2>2 DEF GetIsByIndex, InPd
  <2> QED
    BY <1>2, <2>2, <2>3 DEF SoundByIndex, TreeByIndex, Structures, Place
<1> QED
  BY <1>2, <1>3 DEF PinnedApart

LEMMA CountsKeptFirst ==
  ASSUME MemInv, FirstCall, HeapBlock
  PROVE  CountsKept
<1>1. TypeOK /\ Sound
  BY DEF MemInv, MemTypeOK, SoundUntilFreed, FirstCall
<1>2. SoundByIndex /\ GetIsByIndex
  BY <1>1, SoundIsByIndex, GetByIndex
<1>3. refs[HeapPdpt] = Cardinality(LinkedPds)
  <2>1. kernelHeap.base \in VPages /\ HasPage(kernelHeap.base)
    BY PinnedPages DEF FirstCall, Residents, Held
  <2>2. PICK h \in Idx : h = pml4i(kernelHeap.base)
    BY <2>1, Indices
  <2>3. PICK P : P = PdptAt(h)
    OBVIOUS
  <2>4. AtRoot(h) /\ HeapPdpt = P
    BY <1>2, <2>1, <2>2, <2>3 DEF HeapPdpt, GetIsByIndex, InPd, InPdpt
  <2>5. refs[P] = Cardinality(PresentIn(P)) /\ IsFiniteSet(PresentIn(P))
    BY <1>2, <2>3, <2>4, EntriesNat DEF SoundByIndex, CountsByIndex
  <2>6. \A l \in Idx : l \in PresentIn(P) <=> InPdpt(h, l)
    BY <2>3, <2>4 DEF PresentIn, InPdpt
  <2>7. \A l \in Idx : table[P][l].to = PdOf(h, l)
    BY <2>3 DEF PdOf
  <2> DEFINE f == [l \in PresentIn(P) |-> PdOf(h, l)]
  <2>8. f \in [PresentIn(P) -> LinkedPds]
    BY <1>2, <2>4, <2>6, <2>7 DEF LinkedPds, PresentIn, SoundByIndex, TreeByIndex, Structures
  <2>9. \A k, l \in PresentIn(P) : f[k] = f[l] => k = l
    BY <1>2, <2>6 DEF PresentIn, SoundByIndex, TreeByIndex
  <2>10. \A d \in LinkedPds : \E l \in PresentIn(P) : f[l] = d
    BY <2>4, <2>7 DEF LinkedPds, PresentIn
  <2> HIDE DEF f
  <2>11. Cardinality(LinkedPds) = Cardinality(PresentIn(P))
    BY <2>5, <2>8, <2>9, <2>10, SameSize
  <2> QED
    BY <2>4, <2>5, <2>11
<1>4. ASSUME NEW v \in Pinned PROVE refs[pd(v)] = Cardinality(Neighbours(v))
  <2>1. v \in VPages /\ HasPage(v)
    BY PinnedPages DEF FirstCall
  <2>2. PICK h \in Idx, j \in Idx : h = pml4i(v) /\ j = pdpti(v)
    BY <2>1, Indices
  <2>3. PICK d : d = pd(v)
    OBVIOUS
  <2>4. InPdpt(h, j) /\ d = PdOf(h, j) /\ d \in tracked \ {Root} /\ d \in Pages
    BY <1>1, <1>2, <2>1, <2>2, <2>3
       DEF GetIsByIndex, InPd, SoundByIndex, TreeByIndex, Structures, TypeOK
  <2>5. refs[d] = Cardinality(PresentIn(d)) /\ IsFiniteSet(PresentIn(d))
    BY <2>4, EntriesNat DEF FirstCall, Counted
  <2>6. ASSUME NEW u \in VPages, Place(u) = Place(v)
        PROVE  u \in Residents <=> pdi(u) \in PresentIn(d)
    <3>1. pml4i(u) = h /\ pdpti(u) = j /\ pdi(u) \in Idx
      BY <2>2, <2>6, Indices DEF Place
    <3>2. HasPage(u) <=> InPd(h, j, pdi(u))
      BY <1>2, <3>1 DEF GetIsByIndex
    <3> QED
      BY <2>4, <3>1, <3>2 DEF FirstCall, InPd, PresentIn
  <2>7. \A u \in Neighbours(v) : u \in VPages /\ Place(u) = Place(v) /\ u \in Residents
    BY PinnedPages DEF Neighbours
  <2> DEFINE f == [u \in Neighbours(v) |-> pdi(u)]
  <2>8. f \in [Neighbours(v) -> PresentIn(d)]
    BY <2>6, <2>7
  <2>9. \A u, w \in Neighbours(v) : pdi(u) = pdi(w) => u = w
    BY <2>7, IndicesDetermine DEF Place
  <2>10. ASSUME NEW k \in PresentIn(d) PROVE \E u \in Neighbours(v) : pdi(u) = k
    <3>1. PICK u \in VPages : pml4i(u) = h /\ pdpti(u) = j /\ pdi(u) = k
      BY IndicesExist DEF PresentIn
    <3>2. Place(u) = Place(v)
      BY <2>2, <3>1 DEF Place
    <3> QED
      BY <2>6, <3>1, <3>2 DEF Neighbours
  <2> QED
    <3>1. IsFiniteSet(Neighbours(v))
      <4>1. f \in Injection(Neighbours(v), PresentIn(d))
        BY <2>8, <2>9 DEF Injection, IsInjective
      <4> HIDE DEF f
      <4> QED
        BY <2>5, <4>1, FS_Injection
    <3>2. /\ \A u, w \in Neighbours(v) : f[u] = f[w] => u = w
          /\ \A k \in PresentIn(d) : \E u \in Neighbours(v) : f[u] = k
      BY <2>9, <2>10
    <3> HIDE DEF f
    <3>3. Cardinality(PresentIn(d)) = Cardinality(Neighbours(v))
      BY <2>8, <3>1, <3>2, SameSize
    <3> QED
      BY <2>3, <2>5, <3>3
<1> QED
  BY <1>3, <1>4 DEF CountsKept

(* Clients' pages are not those the loader mapped. *)
LEMMA OwnedNotFirst ==
  ASSUME MemInv, ~freed
  PROVE  OwnedPages \cap (0 .. 2) = {}
<1> SUFFICES ASSUME NEW u \in OwnedPages, u \in 0 .. 2 PROVE FALSE
  OBVIOUS
<1>1. PICK n \in handed : Get(u) = Phys(n)
  BY DEF MemInv, BlocksInv, BlocksMapped
<1>2. n \in Nat /\ n > LoadPage
  BY LoaderPagesAssumption, PhysAssumption, FramesAssumption DEF MemInv, CallShape, Frame
<1>3. Get(u) = BootMap[u]
  BY DEF MemInv, LoaderKept
<1> QED
  BY <1>1, <1>2, <1>3, FramesAssumption, LoaderPagesAssumption DEF BootMap, Phys

LEMMA FramesOnceFirst ==
  ASSUME MemInv, FirstCall, mpc = "idle"
  PROVE  FramesOnce
<1> SUFFICES ASSUME ~reverted PROVE FramesOnce
  BY DEF FramesOnce
<1>1. TypeOK /\ Sound
  BY DEF MemInv, MemTypeOK, SoundUntilFreed, FirstCall
<1>2. SoundByIndex /\ GetIsByIndex
  BY <1>1, SoundIsByIndex, GetByIndex
<1>3. Residents = (0 .. 2) \cup OwnedPages
  BY DEF Residents, Held, CallHeld
<1>4. ASSUME NEW d \in Pages, NEW k \in Idx, InDirectory(d, k)
      PROVE  \E u \in Residents, h \in Idx, j \in Idx :
               /\ HasPage(u) /\ pml4i(u) = h /\ pdpti(u) = j /\ pdi(u) = k
               /\ InPdpt(h, j) /\ PdOf(h, j) = d /\ Get(u) = table[d][k].to
  <2>1. PICK h \in Idx, j \in Idx : InPdpt(h, j) /\ PdOf(h, j) = d
    BY <1>4 DEF InDirectory
  <2>2. PICK u \in VPages : pml4i(u) = h /\ pdpti(u) = j /\ pdi(u) = k
    BY IndicesExist
  <2>3. HasPage(u) /\ Get(u) = table[d][k].to
    BY <1>2, <1>4, <2>1, <2>2 DEF GetIsByIndex, InPd, Leaf, InDirectory
  <2> QED
    BY <2>1, <2>2, <2>3 DEF FirstCall
<1>5. ASSUME NEW u \in Residents PROVE \E n \in handed \cup (0 .. LoadPage) : Get(u) = Phys(n)
  <2>1. CASE u \in 0 .. 2
    <3>1. Get(u) = BootMap[u]
      BY <2>1 DEF MemInv, LoaderKept, FirstCall
    <3> QED
      BY <2>1, <3>1, FramesAssumption, LoaderPagesAssumption DEF BootMap
  <2> QED
    BY <1>3, <2>1 DEF MemInv, BlocksInv, BlocksMapped, FirstCall
<1>6. \A u, v \in Residents : Get(u) = Get(v) => u = v
  BY <1>3, OwnFrames DEF FramesOwn, FirstCall, BootMap
<1>7. ASSUME NEW d \in Pages, NEW e \in Pages, NEW k \in Idx, NEW l \in Idx
      PROVE  /\ InDirectory(d, k) => \E n \in handed \cup (0 .. LoadPage) : table[d][k].to = Phys(n)
             /\ InDirectory(d, k) /\ InDirectory(e, l) /\ table[d][k].to = table[e][l].to
                  => d = e /\ k = l
  <2>1. InDirectory(d, k) => \E n \in handed \cup (0 .. LoadPage) : table[d][k].to = Phys(n)
    BY <1>4, <1>5
  <2>2. ASSUME InDirectory(d, k), InDirectory(e, l), table[d][k].to = table[e][l].to
        PROVE  d = e /\ k = l
    <3>1. PICK u \in Residents : /\ pdi(u) = k /\ PdOf(pml4i(u), pdpti(u)) = d
                                 /\ Get(u) = table[d][k].to
      BY <1>4, <2>2
    <3>2. PICK w \in Residents : /\ pdi(w) = l /\ PdOf(pml4i(w), pdpti(w)) = e
                                 /\ Get(w) = table[e][l].to
      BY <1>4, <2>2
    <3> QED
      BY <1>6, <2>2, <3>1, <3>2
  <2> QED
    BY <2>1, <2>2
<1> QED
  BY <1>7 DEF FramesOnce

(* All is kept at first. *)
HeapBegins == HeapBlock /\ mpc = "idle" /\ \A v \in HeapRegion : Get(v) = backing[v]

LEMMA KeptFirst == MemInv /\ FirstCall /\ HeapBegins => Kept
<1> SUFFICES ASSUME MemInv, FirstCall, HeapBlock, mpc = "idle",
                    \A v \in HeapRegion : Get(v) = backing[v]
             PROVE  Kept
  BY DEF HeapBegins
<1>1. CallHeld = {} /\ ~freed
  BY DEF CallHeld, FirstCall
<1>2. HeldOnce
  <2>1. \A b, c \in owned : b # c => PagesOf(b) \cap PagesOf(c) = {}
    BY <1>1 DEF MemInv, BlocksInv, BlocksMapped
  <2> QED
    BY <1>1, <2>1, OwnedNotFirst DEF HeldOnce, Held
<1>3. PagesKept
  BY <1>1, HeldPages DEF PagesKept, FirstCall, MemInv, LoaderKept
<1> QED
  BY <1>2, <1>3, PinnedApartFirst, CountsKeptFirst, FramesOnceFirst DEF Kept

-----------------------------------------------------------------------------
(* Steps of a kernel that is up.                                           *)

Up == MemInv /\ HeapBlock /\ OnePdpt /\ Kept
SamePins == kernelHeap' = kernelHeap /\ backing' = backing

LEMMA PinsSame ==
  ASSUME SamePins
  PROVE  HeapRegion' = HeapRegion /\ Pinned' = Pinned /\ \A v : Protected(v)' <=> Protected(v)
<1>1. HeapRegion' = HeapRegion
  BY DEF SamePins, HeapRegion
<1>2. Pinned' = Pinned
  BY <1>1 DEF Pinned
<1> QED
  BY <1>1, <1>2 DEF Protected, Place

LEMMA WalksSame ==
  ASSUME table' = table
  PROVE  /\ \A k : (AtRoot(k)' <=> AtRoot(k)) /\ PdptAt(k)' = PdptAt(k)
         /\ \A k, l : (InPdpt(k, l)' <=> InPdpt(k, l)) /\ PdOf(k, l)' = PdOf(k, l)
         /\ \A d, k : InDirectory(d, k)' <=> InDirectory(d, k)
         /\ \A v : pdpt(v)' = pdpt(v) /\ pd(v)' = pd(v)
         /\ \A v : (HasPage(v)' <=> HasPage(v)) /\ Get(v)' = Get(v)
<1>1. \A k : (AtRoot(k)' <=> AtRoot(k)) /\ PdptAt(k)' = PdptAt(k)
  BY DEF AtRoot, PdptAt
<1>2. \A k, l : (InPdpt(k, l)' <=> InPdpt(k, l)) /\ PdOf(k, l)' = PdOf(k, l)
  BY <1>1 DEF InPdpt, PdOf
<1>3. \A d, k : InDirectory(d, k)' <=> InDirectory(d, k)
  BY <1>2 DEF InDirectory
<1>4. \A v : pdpt(v)' = pdpt(v) /\ pd(v)' = pd(v)
  BY DEF pdpt, pd
<1> QED
  BY <1>1, <1>2, <1>3, <1>4, GetSame

LEMMA CountsFinite ==
  ASSUME MemInv
  PROVE  IsFiniteSet(LinkedPds) /\ \A v : IsFiniteSet(Neighbours(v))
<1>1. IsFiniteSet(Pages) /\ IsFiniteSet(VPages)
  BY FS_Interval DEF Pages, VPages
<1>2. LinkedPds \subseteq Pages
  BY DEF LinkedPds, MemInv, MemTypeOK, TypeOK
<1>3. \A v : Neighbours(v) \subseteq VPages
  BY HeldPages DEF Neighbours
<1> QED
  BY <1>1, <1>2, <1>3, FS_Subset

(* The one PDPT that clients' pages have is the heap's. *)
LEMMA HeapSlot ==
  ASSUME Up
  PROVE  \E s \in Idx :
           /\ AtRoot(s) /\ s \in ClientSlots /\ HeapPdpt = PdptAt(s) /\ HeapPdpt \in Structures
           /\ \A v \in ClientRange : v \in VPages /\ (AtRoot(pml4i(v)) => pml4i(v) = s)
<1>1. PICK s : s = pml4i(kernelHeap.base)
  OBVIOUS
<1>2. kernelHeap.base \in HeapRegion \cap ClientRange /\ kernelHeap.base \in VPages
  BY PinnedPages DEF Up, Pinned
<1>3. s \in Idx
  BY <1>1, <1>2, Indices
<1>4. AtRoot(s)
  BY <1>1, <1>2 DEF Up, Kept, PinnedApart, Pinned, InPdpt
<1>5. s \in ClientSlots
  BY <1>1, <1>2, <1>3, <1>4 DEF ClientSlots
<1>6. HeapPdpt = PdptAt(s) /\ HeapPdpt \in Structures
  BY <1>1, <1>3, <1>4 DEF HeapPdpt, pdpt, PdptAt, Up, Kept, TablesApart
<1>7. ASSUME NEW v \in ClientRange PROVE v \in VPages /\ (AtRoot(pml4i(v)) => pml4i(v) = s)
  <2>1. v \in VPages
    BY VirtAssumption DEF ClientRange, VPages
  <2>2. pml4i(v) \in Idx
    BY <2>1, Indices
  <2> QED
    BY <1>5, <2>1, <2>2 DEF ClientSlots, Up, OnePdpt
<1> QED
  BY <1>3, <1>4, <1>5, <1>6, <1>7

(* What a pinned page's place is. *)
LEMMA PinnedPlace ==
  ASSUME Up, NEW v \in Pinned
  PROVE  /\ v \in Residents /\ v \in VPages /\ pd(v) = PdOf(pml4i(v), pdpti(v))
         /\ pml4i(v) \in Idx /\ pdpti(v) \in Idx /\ InPdpt(pml4i(v), pdpti(v))
         /\ pd(v) \in Structures /\ Protected(v)
         /\ \A k \in Idx : AtRoot(k) => pd(v) # PdptAt(k)
         /\ \A u \in VPages : HasPage(u) /\ pd(u) = pd(v) <=> HasPage(u) /\ Place(u) = Place(v)
         /\ refs[pd(v)] = Cardinality(Neighbours(v))
<1>1. TypeOK /\ TablesApart /\ GetIsByIndex
  BY ApartGet DEF Up, MemInv, MemTypeOK, Kept
<1>2. v \in Residents /\ v \in VPages
  BY PinnedPages DEF Up
<1>3. pml4i(v) \in Idx /\ pdpti(v) \in Idx /\ pd(v) = PdOf(pml4i(v), pdpti(v))
  BY <1>1, <1>2, Indices DEF GetIsByIndex
<1>4. /\ InPdpt(pml4i(v), pdpti(v)) /\ pd(v) \in tracked
      /\ \A k, l \in Idx : InPdpt(k, l) /\ PdOf(k, l) = pd(v) => <<k, l>> = Place(v)
  BY DEF Up, Kept, PinnedApart
<1>5. pd(v) \in Structures /\ \A k \in Idx : AtRoot(k) => pd(v) # PdptAt(k)
  BY <1>1, <1>3, <1>4 DEF TablesApart, Structures
<1>6. ASSUME NEW u \in VPages, HasPage(u) PROVE pd(u) = pd(v) <=> Place(u) = Place(v)
  <2>1. pml4i(u) \in Idx /\ pdpti(u) \in Idx /\ pd(u) = PdOf(pml4i(u), pdpti(u))
    BY <1>1, Indices DEF GetIsByIndex
  <2>2. InPdpt(pml4i(u), pdpti(u))
    BY <1>1, <1>6 DEF GetIsByIndex, InPd
  <2> QED
    BY <1>3, <1>4, <2>1, <2>2 DEF Place
<1> QED
  BY <1>2, <1>3, <1>4, <1>5, <1>6 DEF Protected, Up, Kept, CountsKept

LEMMA KeptSame ==
  ASSUME Up, SamePins, TablesSame, SameHeld \/ BlockMade \/ BlockTaken, reverted => reverted'
  PROVE  Kept'
<1>1. TablesApart /\ PinnedApart /\ CountsKept /\ HeldOnce /\ PagesKept /\ FramesOnce
  BY DEF Up, Kept
<1>2. tracked' = tracked /\ refs' = refs /\ table' = table
  BY DEF TablesSame
<1>3. /\ \A k : (AtRoot(k)' <=> AtRoot(k)) /\ PdptAt(k)' = PdptAt(k)
      /\ \A k, l : (InPdpt(k, l)' <=> InPdpt(k, l)) /\ PdOf(k, l)' = PdOf(k, l)
      /\ \A d, k : InDirectory(d, k)' <=> InDirectory(d, k)
      /\ \A v : pdpt(v)' = pdpt(v) /\ pd(v)' = pd(v)
      /\ \A v : (HasPage(v)' <=> HasPage(v)) /\ Get(v)' = Get(v)
  BY <1>2, WalksSame
<1>4. Held' = Held /\ Residents' = Residents /\ handed' = handed
  BY HeldResult DEF SameHeld, BlockMade, BlockTaken
<1>5. HeapRegion' = HeapRegion /\ Pinned' = Pinned /\ \A v : Protected(v)' <=> Protected(v)
  BY PinsSame
<1>6. TablesApart'
  BY <1>1, <1>2, <1>3 DEF TablesApart, Structures
<1>7. PinnedApart'
  BY <1>1, <1>2, <1>3, <1>5 DEF PinnedApart, Place
<1>8. CountsKept'
  <2>1. HeapPdpt' = HeapPdpt
    BY <1>2 DEF HeapPdpt, pdpt, SamePins
  <2>2. LinkedPds' = LinkedPds
    BY <1>2, <2>1 DEF LinkedPds
  <2>3. \A v : Neighbours(v)' = Neighbours(v)
    BY <1>4 DEF Neighbours, Place
  <2> QED
    BY <1>1, <1>2, <1>3, <1>5, <2>1, <2>2, <2>3 DEF CountsKept
<1>9. HeldOnce'
  <2>1. \A u \in Held' : Protected(u)' => u \notin 0 .. 2
    BY <1>1, <1>4, <1>5 DEF HeldOnce
  <2>2. CASE SameHeld
    <3>1. OwnedPages' = OwnedPages
      BY <2>2 DEF SameHeld, OwnedPages, PagesOf
    <3> QED
      BY <1>1, <1>5, <2>1, <2>2, <3>1 DEF HeldOnce, SameHeld, PagesOf
  <2>3. CASE BlockMade
    <3>1. PICK b : PagesOf(b) = CallHeld /\ owned' = owned \cup {b} /\ CallHeld' = {}
      BY <2>3 DEF BlockMade
    <3>2. \A c \in owned : \A u \in PagesOf(b) \cap PagesOf(c) : ~Protected(u)
      BY <1>1, <3>1 DEF HeldOnce, OwnedPages
    <3> QED
      BY <1>1, <1>5, <2>1, <3>1, <3>2 DEF HeldOnce, PagesOf
  <2>4. CASE BlockTaken
    <3>1. PICK b \in owned : PagesOf(b) = CallHeld' /\ owned' = owned \ {b}
      BY <2>4 DEF BlockTaken
    <3>2. ASSUME NEW u \in CallHeld', Protected(u) PROVE u \notin OwnedPages'
      <4>1. \A c \in owned \ {b} : u \notin PagesOf(c)
        BY <1>1, <3>1, <3>2 DEF HeldOnce
      <4> QED
        BY <3>1, <4>1 DEF OwnedPages, PagesOf
    <3> QED
      BY <1>1, <1>5, <2>1, <3>1, <3>2 DEF HeldOnce, PagesOf
  <2> QED
    BY <2>2, <2>3, <2>4
<1>10. PagesKept'
  <2>1. backing' = backing
    BY DEF SamePins
  <2> QED
    BY <1>1, <1>3, <1>4, <1>5, <2>1 DEF PagesKept
<1>11. FramesOnce'
  BY <1>1, <1>2, <1>3, <1>4 DEF FramesOnce
<1> QED
  BY <1>6, <1>7, <1>8, <1>9, <1>10, <1>11 DEF Kept

(* A page that is unbound leaves the neighbours of the pinned pages it     *)
(* shares a directory with, and one of them stays.                         *)
LEMMA NeighbourLeaves ==
  ASSUME Up, NEW v \in VPages, Frees(v), NEW p \in Pinned
  PROVE  /\ Place(v) # Place(p) => Neighbours(p)' = Neighbours(p)
         /\ Place(v) = Place(p) => /\ Neighbours(p)' = Neighbours(p) \ {v}
                                   /\ v \in Neighbours(p) /\ p \in Neighbours(p) \ {v}
<1>1. Residents' \cup {v} = Residents /\ OwnedPages' = OwnedPages
  BY HeldResult
<1>2. \A u : Place(u)' = Place(u)
  BY DEF Place
<1>3. Place(v) # Place(p) => Neighbours(p)' = Neighbours(p)
  BY <1>1, <1>2 DEF Neighbours
<1>4. ASSUME Place(v) = Place(p)
      PROVE  /\ Neighbours(p)' = Neighbours(p) \ {v}
             /\ v \in Neighbours(p) /\ p \in Neighbours(p) \ {v}
  <2>1. Protected(v)
    BY <1>4 DEF Protected
  <2>2. v \in CallHeld /\ CallHeld' = CallHeld \ {v}
    BY DEF Frees
  <2>3. v \notin OwnedPages /\ v \notin 0 .. 2
    BY <2>1, <2>2 DEF Up, Kept, HeldOnce, Held
  <2>4. v \notin Residents'
    BY <1>1, <2>2, <2>3 DEF Residents, Held
  <2>5. p # v
    BY <2>3, PinnedPages DEF Up, Pinned
  <2> QED
    BY <1>1, <1>2, <1>4, <2>4, <2>5, PinnedPlace DEF Neighbours
<1> QED
  BY <1>3, <1>4

LEMMA KeptFrees ==
  ASSUME Up, SamePins, NEW v \in VPages, Frees(v), status' = "running", reverted => reverted'
  PROVE  Kept'
<1>1. TablesApart /\ PinnedApart /\ CountsKept /\ HeldOnce /\ PagesKept /\ FramesOnce
  BY DEF Up, Kept
<1>2. TypeOK /\ GetIsByIndex
  BY <1>1, ApartGet DEF Up, MemInv, MemTypeOK
<1>3. HasPage(v) /\ (UnmapKeepPd(v) \/ UnmapFreePd(v))
  <2>1. ~Panic /\ ~GoAstray
    BY DEF Panic, GoAstray
  <2> QED
    BY <1>2, <2>1 DEF Frees, Unmap, UnmapNotFound, GetIsByIndex
<1>4. PICK d \in Pages, P \in Pages, k \in Idx :
        /\ d = pd(v) /\ P = pdpt(v) /\ k = pml4i(v) /\ AtRoot(k) /\ P = PdptAt(k) /\ P = HeapPdpt
        /\ P \in Structures /\ d \notin {Root, BootPae}
        /\ \A m \in Idx : AtRoot(m) => d # PdptAt(m)
        /\ \E l \in Idx : Present(table[P][l]) /\ table[P][l].to = d
  <2>1. PICK k \in Idx, l \in Idx : k = pml4i(v) /\ l = pdpti(v)
    BY Indices
  <2>2. InPdpt(k, l) /\ pd(v) = PdOf(k, l) /\ pdpt(v) = PdptAt(k) /\ AtRoot(k)
    BY <1>2, <1>3, <2>1 DEF GetIsByIndex, InPd, InPdpt
  <2>3. PdptAt(k) = HeapPdpt /\ HeapPdpt \in Structures
    BY <2>1, <2>2, HeapSlot DEF Frees
  <2>4. PdOf(k, l) \in Pages \ {Root, BootPae} /\ \A m \in Idx : AtRoot(m) => PdOf(k, l) # PdptAt(m)
    BY <1>1, <2>2 DEF TablesApart
  <2>5. Present(table[PdptAt(k)][l]) /\ table[PdptAt(k)][l].to = PdOf(k, l)
    BY <2>2 DEF InPdpt, PdOf
  <2> QED
    BY <1>2, <2>1, <2>2, <2>3, <2>4, <2>5 DEF Structures, TypeOK
<1>5. /\ IsFiniteSet(LinkedPds) /\ \A p : IsFiniteSet(Neighbours(p))
      /\ Cardinality(LinkedPds) \in Nat /\ \A p : Cardinality(Neighbours(p)) \in Nat
  BY CountsFinite, FS_CardinalityType DEF Up
<1>6. refs \in [Pages -> Nat]
  BY <1>2 DEF TypeOK
(* A directory that loses its last reference is not that of a pinned page. *)
<1>7. ASSUME NEW p \in Pinned, pd(p) = d
      PROVE  /\ Place(v) = Place(p) /\ refs[d] = Cardinality(Neighbours(p)) /\ refs[d] >= 2
             /\ Cardinality(Neighbours(p)') = refs[d] - 1
  <2>1. Place(v) = Place(p) /\ refs[d] = Cardinality(Neighbours(p))
    BY <1>3, <1>4, <1>7, PinnedPlace
  <2>2. /\ Neighbours(p)' = Neighbours(p) \ {v}
        /\ v \in Neighbours(p) /\ p \in Neighbours(p) \ {v}
    BY <2>1, NeighbourLeaves
  <2> DEFINE N == Neighbours(p)
  <2>3. IsFiniteSet(N) /\ v \in N /\ p \in N \ {v}
    BY <1>5, <2>2
  <2> HIDE DEF N
  <2>4. Cardinality(N \ {v}) = Cardinality(N) - 1 /\ IsFiniteSet(N \ {v})
    BY <2>3, FS_RemoveElement
  <2>5. Cardinality(N \ {v}) \in Nat /\ Cardinality(N \ {v}) # 0
    BY <2>3, <2>4, FS_EmptySet, FS_CardinalityType
  <2>6. Cardinality(N) \in Nat
    BY <2>3, FS_CardinalityType
  <2>7. Cardinality(N) >= 2
    BY <2>4, <2>5, <2>6
  <2> QED
    BY <2>1, <2>2, <2>4, <2>7 DEF N
<1>8. \A p \in Pinned : pd(p) # d => Cardinality(Neighbours(p)') = refs[pd(p)]
  <2>1. \A p \in Pinned : pd(p) # d => Place(v) # Place(p)
    BY <1>3, <1>4, PinnedPlace
  <2> QED
    BY <2>1, NeighbourLeaves, PinnedPlace
<1>9. \A p \in Pinned : pd(p) \in Structures /\ pd(p) # P
  BY <1>4, PinnedPlace
<1>10. HeapRegion' = HeapRegion /\ Pinned' = Pinned /\ \A u : Protected(u)' <=> Protected(u)
  BY PinsSame
<1>11. /\ table' = table
       /\ tracked' \subseteq tracked /\ {Root, BootPae} \subseteq tracked'
       /\ \A k1 \in Idx : AtRoot(k1) => PdptAt(k1) \in tracked'
       /\ \A p \in Pinned : /\ pd(p) \in tracked'
                            /\ refs'[pd(p)] = Cardinality(Neighbours(p)')
       /\ refs'[P] = Cardinality({e \in tracked' : \E l \in Idx : Present(table[P][l]) /\ table[P][l].to = e})
  <2>1. LinkedPds = {e \in tracked : \E l \in Idx : Present(table[P][l]) /\ table[P][l].to = e}
    BY <1>4 DEF LinkedPds
  <2>2. refs[P] = Cardinality(LinkedPds)
    BY <1>1, <1>4 DEF CountsKept
  <2>3. P # d
    BY <1>4
  <2>4. CASE UnmapKeepPd(v)
    <3>1. /\ table' = table /\ tracked' = tracked
          /\ refs' = [refs EXCEPT ![d] = Dec(refs[d])]
      BY <1>4, <2>4 DEF UnmapKeepPd
    <3>2. refs'[P] = refs[P] /\ \A q \in Pages \ {d} : refs'[q] = refs[q]
      BY <1>6, <2>3, <3>1
    <3>3. ASSUME NEW p \in Pinned PROVE refs'[pd(p)] = Cardinality(Neighbours(p)')
      <4>1. CASE pd(p) = d
        <5>1. refs'[d] = Dec(refs[d])
          BY <1>6, <3>1
        <5>2. Dec(refs[d]) = refs[d] - 1
          BY <1>6, <1>7, <4>1 DEF Dec
        <5> QED
          BY <1>7, <4>1, <5>1, <5>2
      <4>2. CASE pd(p) # d
        BY <1>2, <1>8, <1>9, <3>2, <4>2 DEF Structures, TypeOK
      <4> QED
        BY <4>1, <4>2
    <3> QED
      BY <1>1, <1>9, <2>1, <2>2, <3>1, <3>2, <3>3 DEF TablesApart, Structures
  <2>5. CASE UnmapFreePd(v)
    <3> DEFINE r == [refs EXCEPT ![d] = 0]
               freePdpt == Dec(r[P]) = 0
    <3>1. Dec(refs[d]) = 0 /\ r[P] = refs[P]
      BY <1>4, <1>6, <2>3, <2>5 DEF UnmapFreePd
    <3>2. ASSUME NEW p \in Pinned PROVE pd(p) # d
      <4>1. pd(p) = d => Dec(refs[d]) = refs[d] - 1 /\ refs[d] >= 2
        BY <1>6, <1>7 DEF Dec
      <4> QED
        BY <1>6, <3>1, <4>1
    <3>3. ~Panic
      BY DEF Panic
    <3>4. ~(d \notin tracked \/ (freePdpt /\ P \notin tracked \ {d}))
      BY <1>4, <2>5, <3>3 DEF UnmapFreePd, Untrack
    <3>5. /\ refs' = [r EXCEPT ![P] = Dec(r[P])]
          /\ tracked' = IF freePdpt THEN (tracked \ {d}) \ {P} ELSE tracked \ {d}
          /\ table' = table
      BY <1>4, <2>5, <3>3 DEF UnmapFreePd, Untrack
    <3>6. d \in LinkedPds
      BY <1>4, <2>1, <3>4
    <3>7. \E e \in LinkedPds : e # d
      <4>1. kernelHeap.base \in Pinned
        BY PinnedPages DEF Up, Pinned
      <4>2. PICK e : e = pd(kernelHeap.base)
        OBVIOUS
      <4>3. e \in tracked /\ e # d
        BY <3>2, <4>1, <4>2, PinnedPlace DEF Structures
      <4>4. pdpti(kernelHeap.base) \in Idx /\ InPdpt(pml4i(kernelHeap.base), pdpti(kernelHeap.base))
        BY <4>1, PinnedPlace
      <4>5. \E l \in Idx : Present(table[HeapPdpt][l]) /\ table[HeapPdpt][l].to = e
        BY <4>2, <4>4 DEF HeapPdpt, pd, pdpt, InPdpt, PdptAt
      <4> QED
        BY <4>3, <4>5 DEF LinkedPds
    <3> DEFINE L == LinkedPds
    <3>8. IsFiniteSet(L) /\ d \in L /\ (\E e \in L : e # d) /\ refs[P] = Cardinality(L)
      BY <1>5, <2>2, <3>6, <3>7
    <3> HIDE DEF L
    <3>9. Cardinality(L \ {d}) = Cardinality(L) - 1 /\ IsFiniteSet(L \ {d})
      BY <3>8, FS_RemoveElement
    <3>10. Cardinality(L \ {d}) \in Nat /\ Cardinality(L \ {d}) # 0
      BY <3>8, <3>9, FS_EmptySet, FS_CardinalityType
    <3>11. Dec(refs[P]) = Cardinality(L \ {d}) /\ Dec(refs[P]) # 0
      BY <1>6, <3>8, <3>9, <3>10 DEF Dec
    <3>12. tracked' = tracked \ {d}
      BY <3>1, <3>5, <3>11
    <3>13. refs'[P] = Dec(refs[P]) /\ \A q \in Pages \ {d, P} : refs'[q] = refs[q]
      BY <1>6, <2>3, <3>1, <3>5
    <3>14. {e \in tracked' : \E l \in Idx : Present(table[P][l]) /\ table[P][l].to = e} = L \ {d}
      BY <2>1, <3>12 DEF L
    <3>15. \A p \in Pinned : pd(p) \in tracked' /\ refs'[pd(p)] = Cardinality(Neighbours(p)')
      BY <1>2, <1>8, <1>9, <3>2, <3>12, <3>13 DEF Structures, TypeOK
    <3>16. {Root, BootPae} \subseteq tracked' /\ \A k1 \in Idx : AtRoot(k1) => PdptAt(k1) \in tracked'
      BY <1>1, <1>4, <3>12 DEF TablesApart, Structures
    <3> HIDE DEF r
    <3> QED
      BY <3>5, <3>11, <3>12, <3>13, <3>14, <3>15, <3>16
  <2> QED
    BY <1>3, <2>4, <2>5
<1>12. /\ \A k1 : (AtRoot(k1)' <=> AtRoot(k1)) /\ PdptAt(k1)' = PdptAt(k1)
       /\ \A k1, l : (InPdpt(k1, l)' <=> InPdpt(k1, l)) /\ PdOf(k1, l)' = PdOf(k1, l)
       /\ \A d1, k1 : InDirectory(d1, k1)' <=> InDirectory(d1, k1)
       /\ \A u : pdpt(u)' = pdpt(u) /\ pd(u)' = pd(u)
       /\ \A u : (HasPage(u)' <=> HasPage(u)) /\ Get(u)' = Get(u)
  BY <1>11, WalksSame
<1>13. TablesApart'
  BY <1>1, <1>11, <1>12 DEF TablesApart, Structures
<1>14. PinnedApart'
  BY <1>1, <1>10, <1>11, <1>12 DEF PinnedApart, Place
<1>15. CountsKept'
  <2>1. HeapPdpt' = P
    BY <1>4, <1>11 DEF HeapPdpt, pdpt, SamePins
  <2>2. LinkedPds' = {e \in tracked' : \E l \in Idx : Present(table[P][l]) /\ table[P][l].to = e}
    BY <1>11, <2>1 DEF LinkedPds
  <2> QED
    BY <1>10, <1>11, <1>12, <2>1, <2>2 DEF CountsKept
<1>16. Residents' \subseteq Residents /\ OwnedPages' = OwnedPages /\ owned' = owned
       /\ CallHeld' \subseteq CallHeld /\ handed' = handed
  BY HeldResult DEF Frees
<1>17. HeldOnce'
  BY <1>1, <1>10, <1>16 DEF HeldOnce, Held, PagesOf
<1>18. PagesKept'
  BY <1>1, <1>10, <1>12, <1>16 DEF PagesKept, SamePins
<1>19. FramesOnce'
  BY <1>1, <1>11, <1>12, <1>16 DEF FramesOnce
<1> QED
  BY <1>13, <1>14, <1>15, <1>17, <1>18, <1>19 DEF Kept

(* The physical page that is bound is a new one until a revert. *)
LEMMA NewFrame ==
  ASSUME MemInv, NEW v \in VPages, NEW n \in Frame, Binds(v, n), ~reverted
  PROVE  \A m \in handed \cup (0 .. LoadPage) : Phys(m) # Phys(n)
<1>1. n = pages[i + 1] /\ i + 1 \in DOMAIN pages /\ mpc = "bind" /\ i \in Nat
  BY DEF Binds, MemInv, MemTypeOK
<1>2. n \notin handed
  BY <1>1 DEF MemInv, BitmapInv, TakenNew
<1>3. handed \subseteq Nat /\ n \in Nat /\ n > LoadPage
  BY LoaderPagesAssumption, PhysAssumption, FramesAssumption DEF MemInv, CallShape, Frame
<1>4. ASSUME NEW m \in handed \cup (0 .. LoadPage) PROVE m \in Nat /\ m # n
  BY <1>2, <1>3, <1>4, FramesAssumption
<1> QED
  BY <1>3, <1>4 DEF Phys

(* A page that is bound joins the neighbours it has, and is held once. *)
LEMMA NeighbourJoins ==
  ASSUME Up, NEW v \in VPages, NEW n \in Frame, Binds(v, n), ~HasPage(v), NEW p \in Pinned
  PROVE  /\ Place(v) # Place(p) => Neighbours(p)' = Neighbours(p)
         /\ Place(v) = Place(p) => /\ Neighbours(p)' = Neighbours(p) \cup {v}
                                   /\ v \notin Neighbours(p)
<1>1. Residents' = Residents \cup {v}
  BY HeldResult
<1>2. \A u : Place(u)' = Place(u)
  BY DEF Place
<1>3. ASSUME Place(v) = Place(p) PROVE v \notin Residents
  <2>1. Protected(v)
    BY <1>3 DEF Protected
  <2> QED
    BY <2>1 DEF Up, Kept, PagesKept
<1> QED
  BY <1>1, <1>2, <1>3 DEF Neighbours

LEMMA HeldJoins ==
  ASSUME Up, SamePins, NEW v \in VPages, NEW n \in Frame, Binds(v, n), ~HasPage(v)
  PROVE  HeldOnce'
<1>1. OwnedPages' = OwnedPages /\ owned' = owned /\ CallHeld' = CallHeld \cup {v}
  BY HeldResult DEF Binds
<1>2. Protected(v) => v \notin Residents
  BY DEF Up, Kept, PagesKept
<1>3. \A u : Protected(u)' <=> Protected(u)
  BY PinsSame
<1> QED
  BY <1>1, <1>2, <1>3 DEF Up, Kept, HeldOnce, Held, Residents, PagesOf

(* map() fills an entry of a directory that is linked. *)
LEMMA KeptFills ==
  ASSUME Up, SamePins, NEW v \in VPages, NEW n \in Frame, Binds(v, n), reverted => reverted',
         NEW h \in Idx, NEW j \in Idx, NEW k \in Idx, NEW d, NEW e,
         h = pml4i(v), j = pdpti(v), k = pdi(v), d = PdOf(h, j), e.to = Phys(n), Present(e),
         InPdpt(h, j), Fills(d, k, e)
  PROVE  Kept'
<1>1. TablesApart /\ PinnedApart /\ CountsKept /\ HeldOnce /\ PagesKept /\ FramesOnce
  BY DEF Up, Kept
<1>2. TypeOK /\ GetIsByIndex
  BY <1>1, ApartGet DEF Up, MemInv, MemTypeOK
<1>3. /\ d \in Pages \ {Root, BootPae} /\ \A m \in Idx : AtRoot(m) => d # PdptAt(m)
      /\ ~Present(table[d][k]) /\ tracked' = tracked
      /\ table'[d][k] = e /\ (\A l \in Idx \ {k} : table'[d][l] = table[d][l])
      /\ (\A q \in Pages \ {d} : table'[q] = table[q] /\ refs'[q] = refs[q])
      /\ refs'[d] = refs[d] + 1
  <2>1. d \in Pages \ {Root, BootPae} /\ \A m \in Idx : AtRoot(m) => d # PdptAt(m)
    BY <1>1 DEF TablesApart
  <2>2. table[d] \in [Idx -> [to : Nat, flags : SUBSET FlagBits]]
    BY <1>2, <2>1 DEF TypeOK
  <2> QED
    BY <2>1, <2>2 DEF Fills
<1>4. ~HasPage(v) /\ pd(v) = d
  BY <1>2, <1>3 DEF GetIsByIndex, InPd
<1>5. Root \in Pages
  BY <1>1, <1>2 DEF TablesApart, TypeOK
<1>6. table'[Root] = table[Root] /\ \A m \in Idx : AtRoot(m) => table'[PdptAt(m)] = table[PdptAt(m)]
  BY <1>1, <1>2, <1>3, <1>5 DEF TablesApart, Structures, TypeOK
<1>7. /\ \A l : (AtRoot(l)' <=> AtRoot(l)) /\ PdptAt(l)' = PdptAt(l)
      /\ \A l \in Idx : \A m : InPdpt(l, m)' <=> InPdpt(l, m)
      /\ \A l \in Idx : \A m : AtRoot(l) => PdOf(l, m)' = PdOf(l, m)
  <2>1. \A l : (AtRoot(l)' <=> AtRoot(l)) /\ PdptAt(l)' = PdptAt(l)
    BY <1>6 DEF AtRoot, PdptAt
  <2> QED
    BY <1>6, <2>1 DEF InPdpt, PdOf
<1>8. TablesApart'
  BY <1>1, <1>3, <1>7 DEF TablesApart, Structures, InPdpt
<1>9. GetIsByIndex'
  <2>1. TypeOK'
    BY <1>2, MapType DEF Binds
  <2>2. TypeOK' /\ TablesApart' => GetIsByIndex'
    BY ApartGet, PTL
  <2> QED
    BY <1>8, <2>1, <2>2
<1>10. HeapRegion' = HeapRegion /\ Pinned' = Pinned /\ \A u : Protected(u)' <=> Protected(u)
  BY PinsSame
(* Pages that are mapped stay so. *)
<1>11. ASSUME NEW u \in VPages, HasPage(u) PROVE HasPage(u)' /\ Get(u)' = Get(u)
  <2>1. PICK l \in Idx, m \in Idx, q \in Idx : l = pml4i(u) /\ m = pdpti(u) /\ q = pdi(u)
    BY Indices
  <2>2. PICK c : c = PdOf(l, m)
    OBVIOUS
  <2>3. InPdpt(l, m) /\ Present(table[c][q]) /\ Get(u) = table[c][q].to /\ c \in Pages
    BY <1>1, <1>2, <1>11, <2>1, <2>2 DEF GetIsByIndex, InPd, Leaf, TablesApart
  <2>4. table'[c][q] = table[c][q]
    BY <1>3, <2>3
  <2>5. InPdpt(l, m)' /\ PdOf(l, m)' = c
    BY <1>7, <2>2, <2>3 DEF InPdpt
  <2>6. InPd(l, m, q)' /\ Leaf(l, m, q)' = table[c][q].to
    BY <2>3, <2>4, <2>5 DEF InPd, Leaf
  <2> QED
    BY <1>9, <2>1, <2>3, <2>6 DEF GetIsByIndex
<1>12. HasPage(v)'
  <2>1. InPd(h, j, k)'
    BY <1>3, <1>7 DEF InPd, InPdpt
  <2> QED
    BY <1>9, <2>1 DEF GetIsByIndex
<1>13. \A p \in Pinned : pd(p)' = pd(p)
  <2> SUFFICES ASSUME NEW p \in Pinned PROVE pd(p)' = pd(p)
    OBVIOUS
  <2>1. PICK l \in Idx, m \in Idx : l = pml4i(p) /\ m = pdpti(p)
    BY PinnedPlace
  <2>2. InPdpt(l, m) /\ pd(p) = PdOf(l, m) /\ p \in VPages
    BY <2>1, PinnedPlace
  <2>3. pd(p)' = PdOf(l, m)'
    BY <1>9, <2>1, <2>2 DEF GetIsByIndex
  <2> QED
    BY <1>7, <2>2, <2>3 DEF InPdpt
<1>14. PinnedApart'
  <2> SUFFICES ASSUME NEW p \in Pinned
               PROVE  /\ InPdpt(pml4i(p), pdpti(p))'
                      /\ pd(p)' \in tracked'
                      /\ \A l, m \in Idx : InPdpt(l, m)' /\ PdOf(l, m)' = pd(p)' => <<l, m>> = Place(p)
    BY <1>10 DEF PinnedApart, Place
  <2>1. pml4i(p) \in Idx /\ pdpti(p) \in Idx
    BY PinnedPlace
  <2> QED
    BY <1>1, <1>3, <1>7, <1>13, <2>1 DEF PinnedApart, InPdpt
<1>15. CountsKept'
  <2>1. PICK s \in Idx : AtRoot(s) /\ HeapPdpt = PdptAt(s) /\ HeapPdpt \in Structures
    BY HeapSlot
  <2>2. HeapPdpt' = HeapPdpt
    BY <1>6 DEF HeapPdpt, pdpt, SamePins
  <2>3. PICK P \in Pages : P = HeapPdpt /\ P # d
    BY <1>2, <1>3, <2>1 DEF Structures, TypeOK
  <2>4. table'[P] = table[P] /\ refs'[P] = refs[P]
    BY <1>3, <2>3
  <2>5. LinkedPds' = LinkedPds
    BY <1>3, <2>2, <2>3, <2>4 DEF LinkedPds
  <2>6. ASSUME NEW p \in Pinned PROVE refs'[pd(p)] = Cardinality(Neighbours(p)')
    <3>1. /\ pd(p) = PdOf(pml4i(p), pdpti(p)) /\ pd(p) \in Pages
          /\ refs[pd(p)] = Cardinality(Neighbours(p))
      BY <1>2, PinnedPlace DEF Structures, TypeOK
    <3>2. CASE pd(p) = d
      <4>1. Place(v) = Place(p)
        BY <1>1, <3>2 DEF PinnedApart, Place
      <4>2. Neighbours(p)' = Neighbours(p) \cup {v} /\ v \notin Neighbours(p)
        BY <1>4, <4>1, NeighbourJoins
      <4>3. IsFiniteSet(Neighbours(p))
        BY CountsFinite DEF Up
      <4>4. Cardinality(Neighbours(p)') = Cardinality(Neighbours(p)) + 1
        BY <4>2, <4>3, FS_AddElement
      <4> QED
        BY <1>3, <3>1, <3>2, <4>4
    <3>3. CASE pd(p) # d
      <4>1. Place(v) # Place(p)
        BY <3>1, <3>3 DEF Place
      <4>2. Neighbours(p)' = Neighbours(p)
        BY <1>4, <4>1, NeighbourJoins
      <4> QED
        BY <1>3, <3>1, <3>3, <4>2
    <3> QED
      BY <3>2, <3>3
  <2> QED
    BY <1>1, <1>10, <1>13, <2>2, <2>3, <2>4, <2>5, <2>6 DEF CountsKept
<1>16. HeldOnce'
  BY <1>4, HeldJoins
<1>17. PagesKept'
  <2>1. Residents' = Residents \cup {v}
    BY HeldResult
  <2>2. \A u \in Residents' : Protected(u)' => HasPage(u)'
    BY <1>1, <1>10, <1>11, <1>12, <2>1, HeldPages DEF PagesKept, Up
  <2>3. ASSUME NEW u \in Pinned PROVE Get(u)' = Get(u)
    BY <1>1, <1>11, PinnedPlace DEF PagesKept
  <2> QED
    BY <1>1, <1>10, <2>2, <2>3 DEF PagesKept, Pinned, SamePins
<1>18. FramesOnce'
  <2> SUFFICES ASSUME ~reverted' PROVE FramesOnce'
    BY DEF FramesOnce
  <2>1. ~reverted /\ \A m \in handed \cup (0 .. LoadPage) : Phys(m) # Phys(n)
    BY NewFrame DEF Up
  <2>2. handed' = handed \cup {n}
    BY DEF Binds
  <2>3. ASSUME NEW c \in Pages, NEW q \in Idx, InDirectory(c, q)'
        PROVE  \/ c = d /\ q = k /\ table'[c][q].to = Phys(n)
               \/ InDirectory(c, q) /\ table'[c][q] = table[c][q] /\ ~(c = d /\ q = k)
    <3>1. \E l, m \in Idx : InPdpt(l, m) /\ PdOf(l, m) = c
      BY <1>7, <2>3 DEF InDirectory, InPdpt
    <3> QED
      BY <1>3, <2>3, <3>1 DEF InDirectory
  <2>4. \A c \in Pages, q \in Idx :
          InDirectory(c, q) => \E m \in handed \cup (0 .. LoadPage) : table[c][q].to = Phys(m)
    BY <1>1, <2>1 DEF FramesOnce
  <2>5. \A b, c \in Pages, l, q \in Idx :
          InDirectory(b, l) /\ InDirectory(c, q) /\ table[b][l].to = table[c][q].to => b = c /\ l = q
    BY <1>1, <2>1 DEF FramesOnce
  <2>6. ASSUME NEW b \in Pages, NEW c \in Pages, NEW l \in Idx, NEW q \in Idx
        PROVE  /\ InDirectory(b, l)' => \E m \in handed' \cup (0 .. LoadPage) : table'[b][l].to = Phys(m)
               /\ InDirectory(b, l)' /\ InDirectory(c, q)' /\ table'[b][l].to = table'[c][q].to
                    => b = c /\ l = q
    BY <2>1, <2>2, <2>3, <2>4, <2>5
  <2> QED
    BY <2>6 DEF FramesOnce
<1> QED
  BY <1>8, <1>14, <1>15, <1>16, <1>17, <1>18 DEF Kept

(* map() links a new directory, which may be one that was freed and is     *)
(* still linked elsewhere: under the heap's PDPT, and not at the place of a*)
(* pinned page, where there is one.                                        *)
LEMMA KeptLinks ==
  ASSUME Up, SamePins, NEW v \in VPages, NEW n \in Frame, Binds(v, n), reverted => reverted',
         NEW h \in Idx, NEW j \in Idx, NEW k \in Idx, NEW P, NEW d, NEW e,
         h = pml4i(v), j = pdpti(v), k = pdi(v), P = PdptAt(h), e.to = Phys(n), Present(e),
         AtRoot(h), ~InPdpt(h, j), Links(P, j, d, k, e)
  PROVE  Kept'
<1>1. TablesApart /\ PinnedApart /\ CountsKept /\ HeldOnce /\ PagesKept /\ FramesOnce
  BY DEF Up, Kept
<1>2. TypeOK /\ GetIsByIndex
  BY <1>1, ApartGet DEF Up, MemInv, MemTypeOK
<1>3. P = HeapPdpt /\ P \in Structures /\ P \in Pages
  BY <1>2, HeapSlot DEF Binds, Structures, TypeOK
<1>4. /\ d \in Pages \ tracked /\ d \notin {Root, BootPae} /\ d # P
      /\ \A m \in Idx : AtRoot(m) => d # PdptAt(m)
      /\ Root \in Pages /\ Root # P
  BY <1>1, <1>2, <1>3 DEF Links, TablesApart, Structures, TypeOK
<1>5. /\ Present(table'[d][k]) /\ table'[d][k] = e /\ \A l \in Idx \ {k} : ~Present(table'[d][l])
  BY DEF Links, ZeroPage, Zero, Present
<1>6. /\ Present(table'[P][j]) /\ table'[P][j].to = d
      /\ \A l \in Idx \ {j} : table'[P][l] = table[P][l]
  <2>1. table[P] \in [Idx -> [to : Nat, flags : SUBSET FlagBits]]
    BY <1>2, <1>3 DEF TypeOK
  <2>2. table'[P] = [table[P] EXCEPT ![j] = TableEntry(d)]
    BY DEF Links
  <2>3. table'[P][j] = TableEntry(d)
    BY <2>1, <2>2
  <2> QED
    BY <2>1, <2>2, <2>3 DEF TableEntry, Present
<1>7. /\ \A q \in Pages \ {d, P} : table'[q] = table[q] /\ refs'[q] = refs[q]
      /\ refs'[P] = refs[P] + 1 /\ tracked' = tracked \cup {d}
  BY DEF Links
<1>8. table'[Root] = table[Root]
  BY <1>4, <1>7
<1>9. \A l : (AtRoot(l)' <=> AtRoot(l)) /\ PdptAt(l)' = PdptAt(l)
  BY <1>8 DEF AtRoot, PdptAt
<1>10. \A l \in Idx, m \in Idx :
         AtRoot(l) /\ <<l, m>> # <<h, j>> => table'[PdptAt(l)][m] = table[PdptAt(l)][m]
  <2> SUFFICES ASSUME NEW l \in Idx, NEW m \in Idx, AtRoot(l), <<l, m>> # <<h, j>>
               PROVE  table'[PdptAt(l)][m] = table[PdptAt(l)][m]
    OBVIOUS
  <2>1. PdptAt(l) \in Pages \ {d}
    BY <1>1, <1>2, <1>4 DEF TablesApart, Structures, TypeOK
  <2>2. CASE l = h
    BY <1>6, <2>2
  <2>3. CASE l # h
    BY <1>1, <1>7, <2>1, <2>3 DEF TablesApart
  <2> QED
    BY <2>2, <2>3
<1>11. InPdpt(h, j)' /\ PdOf(h, j)' = d
  BY <1>6, <1>9 DEF InPdpt, PdOf
<1>12. \A l \in Idx, m \in Idx : <<l, m>> # <<h, j>> =>
         (InPdpt(l, m)' <=> InPdpt(l, m)) /\ (AtRoot(l) => PdOf(l, m)' = PdOf(l, m))
  BY <1>9, <1>10 DEF InPdpt, PdOf
<1>13. TablesApart'
  <2>1. {Root, BootPae} \subseteq tracked' /\ \A l \in Idx : AtRoot(l)' => PdptAt(l)' \in Structures'
    BY <1>1, <1>7, <1>9 DEF TablesApart, Structures
  <2>2. \A l, m \in Idx : AtRoot(l)' /\ AtRoot(m)' /\ PdptAt(l)' = PdptAt(m)' => l = m
    BY <1>1, <1>9 DEF TablesApart
  <2>3. ASSUME NEW l \in Idx, NEW m \in Idx, InPdpt(l, m)'
        PROVE  /\ PdOf(l, m)' \in Pages \ {Root, BootPae}
               /\ \A q \in Idx : AtRoot(q)' => PdOf(l, m)' # PdptAt(q)'
    <3>1. CASE <<l, m>> = <<h, j>>
      BY <1>4, <1>9, <1>11, <3>1
    <3>2. CASE <<l, m>> # <<h, j>>
      <4>1. InPdpt(l, m) /\ PdOf(l, m)' = PdOf(l, m)
        BY <1>12, <2>3, <3>2 DEF InPdpt
      <4> QED
        BY <1>1, <1>9, <4>1 DEF TablesApart
    <3> QED
      BY <3>1, <3>2
  <2> QED
    BY <2>1, <2>2, <2>3 DEF TablesApart
<1>14. GetIsByIndex'
  <2>1. TypeOK'
    BY <1>2, MapType DEF Binds
  <2>2. TypeOK' /\ TablesApart' => GetIsByIndex'
    BY ApartGet, PTL
  <2> QED
    BY <1>13, <2>1, <2>2
<1>15. HeapRegion' = HeapRegion /\ Pinned' = Pinned /\ \A u : Protected(u)' <=> Protected(u)
  BY PinsSame
<1>16. ~HasPage(v)
  BY <1>2 DEF GetIsByIndex, InPd
(* The directories of pinned pages stay as they are. *)
<1>17. ASSUME NEW p \in Pinned
       PROVE  /\ pd(p) \in Structures /\ pd(p) \in Pages \ {d, P} /\ Place(p) # <<h, j>>
              /\ InPdpt(pml4i(p), pdpti(p))' /\ pd(p)' = pd(p)
              /\ PdOf(pml4i(p), pdpti(p))' = pd(p)
  <2>1. PICK l \in Idx, m \in Idx : l = pml4i(p) /\ m = pdpti(p)
    BY PinnedPlace
  <2>2. InPdpt(l, m) /\ pd(p) = PdOf(l, m) /\ p \in VPages /\ pd(p) \in Structures
    BY <2>1, PinnedPlace
  <2>3. <<l, m>> # <<h, j>>
    BY <2>2
  <2>4. InPdpt(l, m)' /\ PdOf(l, m)' = pd(p)
    BY <1>12, <2>2, <2>3 DEF InPdpt
  <2>5. pd(p)' = PdOf(l, m)'
    BY <1>14, <2>1, <2>2 DEF GetIsByIndex
  <2>6. pd(p) \in Pages \ {d} /\ pd(p) # P
    BY <1>2, <1>4, <2>2, PinnedPlace DEF Structures, TypeOK
  <2> QED
    BY <2>1, <2>2, <2>3, <2>4, <2>5, <2>6 DEF Place
<1>18. PinnedApart'
  <2> SUFFICES ASSUME NEW p \in Pinned
               PROVE  \A l, m \in Idx : InPdpt(l, m)' /\ PdOf(l, m)' = pd(p)' => <<l, m>> = Place(p)
    BY <1>7, <1>15, <1>17 DEF PinnedApart, Place, Structures
  <2> SUFFICES ASSUME NEW l \in Idx, NEW m \in Idx, InPdpt(l, m)', PdOf(l, m)' = pd(p)'
               PROVE  <<l, m>> = Place(p)
    OBVIOUS
  <2>1. <<l, m>> # <<h, j>>
    BY <1>11, <1>17
  <2>2. InPdpt(l, m) /\ PdOf(l, m) = pd(p)
    BY <1>12, <1>17, <2>1 DEF InPdpt
  <2> QED
    BY <1>1, <2>2 DEF PinnedApart
<1>19. ~Protected(v)
  BY <1>17 DEF Protected, Place
<1>20. CountsKept'
  <2>1. HeapPdpt' = P
    BY <1>3, <1>8 DEF HeapPdpt, pdpt, SamePins
  <2>2. LinkedPds' = LinkedPds \cup {d}
    <3>1. ASSUME NEW c PROVE c \in LinkedPds' <=> c \in LinkedPds \cup {d}
      <4>1. ~Present(table[P][j])
        BY DEF InPdpt
      <4>2. c = d => c \in LinkedPds'
        BY <1>6, <1>7, <2>1 DEF LinkedPds
      <4>3. c # d => (c \in LinkedPds' <=> c \in LinkedPds)
        BY <1>3, <1>6, <1>7, <2>1, <4>1 DEF LinkedPds
      <4> QED
        BY <4>2, <4>3
    <3> QED
      BY <3>1
  <2>3. d \notin LinkedPds /\ IsFiniteSet(LinkedPds)
    BY <1>4, CountsFinite DEF LinkedPds, Up
  <2>4. Cardinality(LinkedPds') = Cardinality(LinkedPds) + 1
    BY <2>2, <2>3, FS_AddElement
  <2>5. refs'[P] = Cardinality(LinkedPds')
    BY <1>1, <1>3, <1>7, <2>4 DEF CountsKept
  <2>6. ASSUME NEW p \in Pinned PROVE refs'[pd(p)] = Cardinality(Neighbours(p)')
    <3>1. Place(v) # Place(p)
      BY <1>17 DEF Place
    <3>2. Neighbours(p)' = Neighbours(p)
      BY <1>16, <3>1, NeighbourJoins
    <3> QED
      BY <1>7, <1>17, <3>2, PinnedPlace
  <2> QED
    BY <1>15, <1>17, <2>1, <2>5, <2>6 DEF CountsKept
<1>21. HeldOnce'
  BY <1>16, HeldJoins
<1>22. PagesKept'
  <2>1. Residents' = Residents \cup {v}
    BY HeldResult
  <2>2. ASSUME NEW u \in VPages, Protected(u), HasPage(u) PROVE HasPage(u)' /\ Get(u)' = Get(u)
    <3>1. PICK p \in Pinned : Place(p) = Place(u)
      BY <2>2 DEF Protected
    <3>2. PICK l \in Idx, m \in Idx, q \in Idx : l = pml4i(u) /\ m = pdpti(u) /\ q = pdi(u)
      BY Indices
    <3>3. l = pml4i(p) /\ m = pdpti(p)
      BY <3>1, <3>2 DEF Place
    <3>4. PICK c : c = pd(p)
      OBVIOUS
    <3>5. c = PdOf(l, m) /\ InPdpt(l, m)' /\ PdOf(l, m)' = c /\ table'[c] = table[c]
      BY <1>7, <1>17, <3>3, <3>4, PinnedPlace
    <3>6. Present(table[c][q]) /\ Get(u) = table[c][q].to
      BY <1>2, <2>2, <3>2, <3>5 DEF GetIsByIndex, InPd, Leaf
    <3>7. InPd(l, m, q)' /\ Leaf(l, m, q)' = table[c][q].to
      BY <3>5, <3>6 DEF InPd, Leaf
    <3> QED
      BY <1>14, <3>2, <3>6, <3>7 DEF GetIsByIndex
  <2>3. \A u \in Residents' : Protected(u)' => HasPage(u)'
    BY <1>1, <1>15, <1>19, <2>1, <2>2, HeldPages DEF PagesKept, Up
  <2>4. ASSUME NEW u \in Pinned PROVE Get(u)' = Get(u)
    BY <1>1, <2>2, PinnedPlace DEF PagesKept
  <2> QED
    BY <1>1, <1>15, <2>3, <2>4 DEF PagesKept, Pinned, SamePins
<1>23. FramesOnce'
  <2> SUFFICES ASSUME ~reverted' PROVE FramesOnce'
    BY DEF FramesOnce
  <2>1. ~reverted /\ \A m \in handed \cup (0 .. LoadPage) : Phys(m) # Phys(n)
    BY NewFrame DEF Up
  <2>2. handed' = handed \cup {n}
    BY DEF Binds
  <2>3. ASSUME NEW c \in Pages, NEW q \in Idx, InDirectory(c, q)'
        PROVE  \/ c = d /\ q = k /\ table'[c][q].to = Phys(n)
               \/ InDirectory(c, q) /\ table'[c][q] = table[c][q] /\ ~(c = d /\ q = k)
    <3>1. CASE c = d
      BY <1>5, <2>3, <3>1 DEF InDirectory
    <3>2. CASE c # d
      <4>1. PICK l \in Idx, m \in Idx : InPdpt(l, m)' /\ PdOf(l, m)' = c
        BY <2>3 DEF InDirectory
      <4>2. <<l, m>> # <<h, j>>
        BY <1>11, <3>2, <4>1
      <4>3. InPdpt(l, m) /\ PdOf(l, m) = c
        BY <1>12, <4>1, <4>2 DEF InPdpt
      <4>4. c # P
        BY <1>1, <4>3 DEF TablesApart
      <4> QED
        BY <1>7, <2>3, <3>2, <4>3, <4>4 DEF InDirectory
    <3> QED
      BY <3>1, <3>2
  <2>4. \A c \in Pages, q \in Idx :
          InDirectory(c, q) => \E m \in handed \cup (0 .. LoadPage) : table[c][q].to = Phys(m)
    BY <1>1, <2>1 DEF FramesOnce
  <2>5. \A b, c \in Pages, l, q \in Idx :
          InDirectory(b, l) /\ InDirectory(c, q) /\ table[b][l].to = table[c][q].to => b = c /\ l = q
    BY <1>1, <2>1 DEF FramesOnce
  <2>6. ASSUME NEW b \in Pages, NEW c \in Pages, NEW l \in Idx, NEW q \in Idx
        PROVE  /\ InDirectory(b, l)' => \E m \in handed' \cup (0 .. LoadPage) : table'[b][l].to = Phys(m)
               /\ InDirectory(b, l)' /\ InDirectory(c, q)' /\ table'[b][l].to = table'[c][q].to
                    => b = c /\ l = q
    BY <2>1, <2>2, <2>3, <2>4, <2>5
  <2> QED
    BY <2>6 DEF FramesOnce
<1> QED
  BY <1>13, <1>18, <1>20, <1>21, <1>22, <1>23 DEF Kept

(* map() of a call, as long as the one PDPT is the heap's. *)
LEMMA KeptBinds ==
  ASSUME Up, SamePins, NEW v \in VPages, NEW n \in Frame, Binds(v, n), status' = "running",
         reverted => reverted', OnePdpt', \A k \in Idx : AtRoot(k) => table'[Root][k] = table[Root][k]
  PROVE  Kept'
<1>1. TypeOK /\ TablesApart
  BY DEF Up, Kept, MemInv, MemTypeOK
<1>2. PICK h \in Idx, j \in Idx, k \in Idx : h = pml4i(v) /\ j = pdpti(v) /\ k = pdi(v)
  BY Indices
<1>3. PICK e : e = PageEntry(Phys(n), aflags)
  OBVIOUS
<1>4. Present(e) /\ e.to = Phys(n)
  BY <1>3 DEF PageEntry, Present
<1>5. MapWrites(h, j, k, e)
  BY <1>1, <1>2, <1>3, MapEffect DEF Binds
<1>6. CASE InPdpt(h, j) /\ Fills(PdOf(h, j), k, e)
  BY <1>2, <1>4, <1>6, KeptFills
<1>7. CASE AtRoot(h) /\ ~InPdpt(h, j) /\ \E d : Links(PdptAt(h), j, d, k, e)
  BY <1>2, <1>4, <1>7, KeptLinks
<1>8. CASE ~AtRoot(h) /\ \E p, d : Roots(h, p, j, d, k, e)
  <2>1. PICK p, d : Roots(h, p, j, d, k, e)
    BY <1>8
  <2>2. table[Root] \in [Idx -> [to : Nat, flags : SUBSET FlagBits]]
    BY <1>1 DEF TypeOK, TablesApart
  <2>3. table'[Root][h] = TableEntry(p)
    BY <2>1, <2>2 DEF Roots
  <2>4. AtRoot(h)'
    BY <2>3 DEF AtRoot, TableEntry, Present
  <2>5. h \in ClientSlots'
    BY <1>2, <2>4 DEF Binds, ClientSlots
  <2>6. PICK s \in Idx : AtRoot(s) /\ s \in ClientSlots
    BY HeapSlot
  <2>7. s \in ClientSlots'
    BY <2>6, SlotsStay
  <2> QED
    BY <1>8, <2>5, <2>6, <2>7 DEF OnePdpt
<1> QED
  BY <1>5, <1>6, <1>7, <1>8 DEF MapWrites

-----------------------------------------------------------------------------
(* The invariant.                                                          *)

LEMMA EarlyNotWild ==
  ASSUME EarlyStep, status # "wild"
  PROVE  status' # "wild"
BY DEF EarlyStep, BootStep, LoaderStep, KernelEnters, NewPdpt, MapLow, MapHigh, EnablePaging, Switch,
       FindLoadAddr, calculateLoadAddr, LoadAddrFound, CheckElf, SkipSegment, LoadSegment, PmDisable,
       NewPml4, MapLoader, LongStep, MapKernel, ApplyPml4, FillLoaderData, LongEnter, Validate,
       LoaderPanic, PageFault, Retain, Panic, pmvars

LEMMA KeepInitInv == SysInit => KeepInv
<1> SUFFICES ASSUME SysInit PROVE KeepInv
  OBVIOUS
<1>1. stage = "pdpt" /\ status = "running"
  BY DEF SysInit, BootInit
<1> QED
  BY <1>1, SysInitInv DEF KeepInv, KernelStages

LEMMA KeepEarly ==
  ASSUME KeepInv, EarlyStep
  PROVE  KeepInv'
<1>1. SysInv' /\ stage \in BootStages /\ stage' \in BootStages
  BY EarlyInv, EarlyOnly, EarlyStages DEF KeepInv, SysInv, EarlyStep
<1>2. status' # "wild"
  BY <1>1, EarlyNotWild DEF KeepInv
<1>3. stage' \notin KernelStages
  BY <1>1 DEF BootStages, PaeStages, LongStages, KernelStages
<1> QED
  BY <1>1, <1>2, <1>3 DEF KeepInv, KernelStages

LEMMA FirstCallInitNext == Fresh' /\ MemInv' => FirstCall' /\ RootKept'
BY FirstCallInit, PTL

LEMMA KeepInitMemory ==
  ASSUME KeepInv, InitMemory
  PROVE  KeepInv'
<1>1. SysInv' /\ Fresh' /\ MemInv'
  BY InitMemoryInv, InitMemoryFresh, FreshNext DEF KeepInv
<1>2. FirstCall' /\ RootKept'
  BY <1>1, FirstCallInitNext
<1>3. stage' = "mm" /\ status' = "running"
  BY DEF InitMemory, At, pmvars
<1> QED
  BY <1>1, <1>2, <1>3 DEF KeepInv, BootStages, PaeStages, LongStages

(* Late steps go on from a running machine, and leave what is pinned.      *)
LEMMA LateRunning ==
  ASSUME LateStep, status' = "running"
  PROVE  status = "running"
BY DEF LateStep, HeapAsks, MemoryStep, HeapGets, Calls, At, CallStep, AllocScan, AllocBind, AllocFail,
       BindPage, AllocDone, FreePage, FreeDone, Map, pmvars

LEMMA LatePins ==
  ASSUME LateStep, stage = "up"
  PROVE  SamePins /\ stage' = "up"
BY DEF LateStep, HeapAsks, MemoryStep, HeapGets, Calls, At, SamePins, bootvars

LEMMA KeptStep ==
  ASSUME KeepInv, LateStep, stage = "up", status' = "running", OnePdpt'
  PROVE  Kept'
<1>1. MemStep /\ MemInv /\ HeapBlock /\ RootKept /\ status = "running" /\ SamePins
  BY LateSteps, LateRunning, LatePins DEF KeepInv, SysInv, HeapKept
<1>2. \A k \in Idx : AtRoot(k) => table'[Root][k] = table[Root][k]
  BY <1>1, RootStep
<1>3. Up
  BY <1>1, <1>2, SlotsStay DEF KeepInv, Up
<1>4. /\ BindsOne \/ FreesOne \/ (TablesSame /\ (SameHeld \/ BlockMade \/ BlockTaken))
      /\ reverted => reverted'
  BY <1>1, HeldSteps
<1>5. CASE BindsOne
  BY <1>1, <1>2, <1>3, <1>4, <1>5, KeptBinds DEF BindsOne
<1>6. CASE FreesOne
  BY <1>1, <1>3, <1>4, <1>6, KeptFrees DEF FreesOne
<1>7. CASE TablesSame /\ (SameHeld \/ BlockMade \/ BlockTaken)
  BY <1>1, <1>3, <1>4, <1>7, KeptSame
<1> QED
  BY <1>4, <1>5, <1>6, <1>7

LEMMA KeptFirstNext == MemInv' /\ FirstCall' /\ HeapBegins' => Kept'
BY KeptFirst, PTL

(* The heap gets its block. *)
LEMMA KeptBegins ==
  ASSUME KeepInv, LateStep, stage # "up", stage' = "up", status' = "running"
  PROVE  Kept'
<1>1. HeapGets
  BY DEF LateStep, HeapAsks, MemoryStep, Calls, At, bootvars
<1>2. stage = "heap" /\ status = "running" /\ mpc = "idle" /\ UNCHANGED <<pmvars, mmcall>>
  BY <1>1 DEF HeapGets, At
<1>3. FirstCall
  BY <1>2 DEF KeepInv
<1>4. mpc' = "idle" /\ freed' = freed
  BY <1>2 DEF mmcall, pmvars
<1>5. FirstCall' /\ MemInv'
  BY <1>3, <1>4, LateSteps, FirstCallStep DEF KeepInv
<1>6. HeapBegins'
  <2>1. HeapKept'
    BY HeapPart DEF KeepInv
  <2> QED
    BY <1>3, <1>4, <2>1 DEF HeapKept, HeapBegins, FirstCall
<1> QED
  BY <1>4, <1>5, <1>6, KeptFirstNext

(* Only a walk that goes astray makes the machine run wild. *)
LEMMA WildStrays ==
  ASSUME MemInv, LateStep, status # "wild", status' = "wild"
  PROVE  status = "running" /\ \E v \in VPages : Astray(v)
<1>1. CASE HeapAsks
  BY <1>1 DEF HeapAsks, AllocStart, pmvars
<1>2. CASE HeapGets
  BY <1>2 DEF HeapGets, Panic, pmvars
<1>3. CASE MemoryStep
  <2>1. CASE BindPage
    <3>1. PICK v, f : v = start + i /\ f = Phys(pages[i + 1])
      OBVIOUS
    <3>2. v \in VPages
      BY <2>1, <3>1, BindArguments DEF BindPage, MemInv
    <3>3. Map(v, f, aflags)
      BY <2>1, <3>1 DEF BindPage
    <3> QED
      BY <3>2, <3>3 DEF Map, MapEntry, MapNewPd, MapNewPdpt, Panic
  <2>2. CASE FreePage
    <3>1. PICK v : v = start + i
      OBVIOUS
    <3>2. v \in VPages
      BY <2>2, <3>1, FreeArguments DEF FreePage, MemInv
    <3>3. Unmap(v) \/ Panic
      BY <2>2, <3>1 DEF FreePage
    <3> QED
      BY <3>2, <3>3 DEF Unmap, UnmapKeepPd, UnmapFreePd, UnmapNotFound, Panic, pmvars
  <2> QED
    BY <1>3, <2>1, <2>2 DEF MemoryStep, CallStep, AllocScan, AllocBind, AllocFail, AllocDone, FreeDone,
                            pmvars
<1>4. CASE Calls
  <2>1. PICK n \in Counts : AllocAstray(n)
    BY <1>4 DEF Calls, ClientCalls, AllocNone, AllocTooMany, AllocStart, FreeStart, Panic, pmvars,
                memvars
  <2>2. PICK r : r = LastTried(n)
    OBVIOUS
  <2>3. n \in 1 .. MaxPages /\ Idle /\ \E v \in Examined(r, n) : Astray(v)
    BY <2>1, <2>2 DEF AllocAstray, StraysLooking
  <2>4. PICK v \in VirtStart .. (r + n - 1) : Astray(v) /\ \E s \in VirtStart .. r : v \in s .. (s + n - 1)
    BY <2>3 DEF Examined
  <2>5. r \in Int /\ r <= VirtEnd - 1
    <3>1. Rooms(n) \subseteq VirtStart .. (VirtEnd - 1) /\ Rooms(n) \subseteq Nat
      BY VirtAssumption DEF Rooms
    <3>2. Rooms(n) # {} => Lowest(Rooms(n)) \in Rooms(n)
      BY <3>1, LowestInSet
    <3> QED
      BY <2>2, <3>1, <3>2, VirtAssumption DEF LastTried
  <2>6. v \in VPages
    BY <2>3, <2>4, <2>5, VirtAssumption DEF VPages
  <2> QED
    BY <2>3, <2>4, <2>6 DEF Idle
<1> QED
  BY <1>1, <1>2, <1>3, <1>4 DEF LateStep

LEMMA NotWild ==
  ASSUME KeepInv, LateStep, OnePdpt'
  PROVE  status' # "wild"
<1>1. MemStep /\ MemInv /\ RootKept /\ TypeOK /\ stage \in KernelStages
  BY LateSteps DEF KeepInv, MemInv, MemTypeOK
<1>2. OnePdpt
  BY <1>1, RootStep, SlotsStay
<1>3. status = "running" => TablesApart
  <2>1. CASE stage = "up"
    BY <1>2, <2>1 DEF KeepInv, Kept
  <2>2. CASE stage \in {"mm", "heap"} /\ status = "running"
    <3>1. ~freed
      BY <2>2 DEF KeepInv, FirstCall
    <3> QED
      BY <1>1, <3>1, SoundApart DEF MemInv, SoundUntilFreed
  <2> QED
    BY <1>1, <2>1, <2>2 DEF KernelStages
<1>4. status = "running" => \A v \in VPages : ~Astray(v)
  BY <1>1, <1>3, ApartGet DEF GetIsByIndex
<1> QED
  BY <1>1, <1>2, <1>4, WildStrays DEF KeepInv

LEMMA KeepLate ==
  ASSUME KeepInv, LateStep
  PROVE  KeepInv'
<1>1. SysInv' /\ MemStep /\ MemInv /\ MemInv' /\ stage \in KernelStages /\ stage' \in KernelStages
  BY LateSteps, LateInv DEF KeepInv
<1>2. RootKept'
  BY <1>1, RootStep DEF KeepInv
<1>3. ASSUME stage' \in {"mm", "heap"}, status' = "running" PROVE FirstCall'
  <2>1. stage \in {"mm", "heap"} /\ status = "running"
    BY <1>1, <1>3, LateRunning, LatePins DEF KernelStages
  <2>2. FirstCall
    BY <2>1 DEF KeepInv
  <2>3. mpc' # "free"
    BY <2>1, <2>2 DEF LateStep, HeapAsks, MemoryStep, HeapGets, Calls, At, CallStep, AllocScan,
                      AllocBind, AllocFail, BindPage, AllocDone, FreePage, FreeDone, AllocStart,
                      Return, FirstCall, mmcall
  <2> QED
    BY <1>1, <1>3, <2>2, <2>3, FirstCallStep
<1>4. ASSUME stage' = "up", status' = "running", OnePdpt' PROVE Kept'
  BY <1>4, KeptStep, KeptBegins
<1>5. OnePdpt' => status' # "wild"
  BY NotWild
<1>6. stage' \notin BootStages
  BY <1>1 DEF KernelStages, BootStages, PaeStages, LongStages
<1> QED
  BY <1>1, <1>2, <1>3, <1>4, <1>5, <1>6 DEF KeepInv

LEMMA KeepStutter ==
  ASSUME KeepInv, UNCHANGED sysvars
  PROVE  KeepInv'
<1>1. SysInv'
  BY SysStepInv DEF KeepInv
<1>2. stage' = stage /\ status' = status
  BY DEF sysvars, bootvars, pmvars
<1>3. CASE stage \in BootStages
  <2>1. stage \notin KernelStages /\ status # "wild"
    BY <1>3 DEF BootStages, PaeStages, LongStages, KernelStages, KeepInv
  <2> QED
    BY <1>1, <1>2, <2>1 DEF KeepInv, KernelStages
<1>4. CASE stage \in KernelStages
  <2>1. stage' \notin BootStages
    BY <1>2, <1>4 DEF BootStages, PaeStages, LongStages, KernelStages
  <2>2. RootKept'
    BY <1>4, RootSame DEF sysvars, pmvars, KeepInv, RootKept
  <2>3. OnePdpt' <=> OnePdpt
    <3>1. ClientSlots' = ClientSlots
      BY DEF sysvars, pmvars, ClientSlots, AtRoot
    <3> QED
      BY <3>1 DEF OnePdpt
  <2>4. TablesSame /\ SameHeld /\ SamePins /\ reverted' = reverted /\ mpc' = mpc /\ MemStep
    BY DEF sysvars, pmvars, mmcall, mmhistory, TablesSame, SameHeld, SamePins, MemStep, CallHeld
  <2>5. MemInv
    BY <1>4 DEF KeepInv, SysInv
  <2>6. ASSUME stage \in {"mm", "heap"}, status = "running" PROVE FirstCall'
    <3>1. FirstCall
      BY <2>6 DEF KeepInv
    <3> QED
      BY <1>2, <2>4, <2>5, <2>6, <3>1, FirstCallStep DEF FirstCall
  <2>7. ASSUME stage = "up", status = "running", OnePdpt PROVE Kept'
    <3>1. Up
      BY <2>5, <2>7 DEF KeepInv, SysInv, HeapKept, Up
    <3> QED
      BY <2>4, <3>1, KeptSame
  <2> QED
    BY <1>1, <1>2, <2>1, <2>2, <2>3, <2>6, <2>7 DEF KeepInv
<1> QED
  BY <1>1, <1>3, <1>4 DEF KeepInv, SysInv

LEMMA KeepStepInv == KeepInv /\ [SysNext]_sysvars => KeepInv'
<1> SUFFICES ASSUME KeepInv, [SysNext]_sysvars PROVE KeepInv'
  OBVIOUS
<1>1. CASE Loading \/ EnterKernel \/ Constructors \/ TakeOver
  BY <1>1, EarlySteps, KeepEarly DEF KeepInv
<1>2. CASE InitMemory
  BY <1>2, KeepInitMemory
<1>3. CASE LateStep
  BY <1>3, KeepLate
<1>4. CASE UNCHANGED sysvars
  BY <1>4, KeepStutter
<1> QED
  BY <1>1, <1>2, <1>3, <1>4 DEF SysNext, Running, KernelStep, LateStep, Stops

LEMMA KeepInvariant == SysSpec => []KeepInv
BY KeepInitInv, KeepStepInv, PTL DEF SysSpec

-----------------------------------------------------------------------------
(* What it means.                                                          *)

(***************************************************************************)
(* CodeStays: as long as the pages that calls map have one PDPT, the CPU   *)
(* finds the loader, the stack and the paging structures where they are,   *)
(* whatever directories unmap() freed and alloc() handed out again while   *)
(* they were still linked (pm.cpp:83-131, :201-237).                       *)
(***************************************************************************)
THEOREM CodeStays == SysSpec => [](OnePdpt => CodeStaysMapped)
<1>1. KeepInv => (OnePdpt => CodeStaysMapped)
  <2> SUFFICES ASSUME KeepInv, OnePdpt, status = "running" PROVE CodeStaysMapped
    BY DEF CodeStaysMapped
  <2>1. CASE stage \in BootStages
    BY <2>1, CodeFound DEF KeepInv, SysInv
  <2>2. CASE stage \in KernelStages
    <3>1. \A v \in 0 .. 2 : Get(v) = BootMap[v]
      <4>1. CASE stage = "up"
        BY <4>1 DEF KeepInv, Kept, PagesKept
      <4>2. CASE stage # "up"
        BY <2>2, <4>2 DEF KernelStages, KeepInv, FirstCall, SysInv, MemInv, LoaderKept
      <4> QED
        BY <4>1, <4>2
    <3>2. stage \notin PagedStages
      BY <2>2 DEF KernelStages, PagedStages
    <3> QED
      BY <3>1, <3>2, CpuFindsCode DEF KeepInv, SysInv
  <2> QED
    BY <2>1, <2>2 DEF KeepInv, SysInv
<1> QED
  BY <1>1, KeepInvariant, PTL

(***************************************************************************)
(* HeapStaysMapped: under the same condition the kernel's page and every   *)
(* page of its heap keep the physical page they started with, also after   *)
(* structures were freed and allocations reverted: the heap's block is     *)
(* never freed, and keeps its directory and the PDPT above referenced      *)
(* (pm.cpp:119-131, mm.cpp:77-84).                                         *)
(***************************************************************************)
THEOREM HeapStaysMapped ==
  SysSpec => [](OnePdpt /\ stage = "up" /\ status = "running" =>
                  /\ \A v \in DOMAIN BootMap : Get(v) = BootMap[v]
                  /\ \A v \in HeapRegion : Get(v) = backing[v])
<1>1. KeepInv => (OnePdpt /\ stage = "up" /\ status = "running" =>
                    /\ \A v \in DOMAIN BootMap : Get(v) = BootMap[v]
                    /\ \A v \in HeapRegion : Get(v) = backing[v])
  BY DEF KeepInv, Kept, PagesKept, BootMap
<1> QED
  BY <1>1, KeepInvariant, PTL

(***************************************************************************)
(* HeapKeepsPages: and until an allocation is reverted no block of another *)
(* client is on one of those physical pages, so that all of                *)
(* HeapKeepsItsPages holds although structures have been freed and reused  *)
(* (pm.cpp:119-131, mm.cpp:34-94).                                         *)
(***************************************************************************)
THEOREM HeapKeepsPages == SysSpec => [](OnePdpt /\ ~reverted => HeapKeepsItsPages)
<1>1. KeepInv => (OnePdpt /\ ~reverted => HeapKeepsItsPages)
  <2> SUFFICES ASSUME KeepInv, OnePdpt, ~reverted, stage = "up", status = "running"
               PROVE  HeapKeepsItsPages
    BY DEF HeapKeepsItsPages
  <2>1. MemInv /\ HeapBlock /\ Kept
    BY DEF KeepInv, SysInv, HeapKept, KernelStages
  <2>2. TypeOK /\ GetIsByIndex /\ Up
    BY <2>1, ApartGet DEF Up, Kept, MemInv, MemTypeOK
  <2>3. DOMAIN BootMap = 0 .. 2 /\ Pinned = HeapRegion \cup DOMAIN BootMap
    BY DEF BootMap, Pinned
  <2>4. ASSUME NEW u \in VPages, HasPage(u)
        PROVE  /\ pd(u) \in Pages /\ pdi(u) \in Idx /\ Get(u) = table[pd(u)][pdi(u)].to
               /\ Get(u) # NONE /\ InDirectory(pd(u), pdi(u))
    <3>1. PICK h \in Idx, j \in Idx, k \in Idx : h = pml4i(u) /\ j = pdpti(u) /\ k = pdi(u)
      BY Indices
    <3>2. InPd(h, j, k) /\ pd(u) = PdOf(h, j) /\ Get(u) = table[PdOf(h, j)][k].to
      BY <2>2, <2>4, <3>1 DEF GetIsByIndex, Leaf
    <3>3. PdOf(h, j) \in Pages
      BY <2>1, <3>2 DEF Kept, TablesApart, InPd
    <3>4. table[PdOf(h, j)][k].to \in Nat
      BY <2>2, <3>3 DEF TypeOK
    <3> QED
      BY <3>1, <3>2, <3>3, <3>4 DEF NONE, InDirectory, InPd
  <2>5. ASSUME NEW v \in Pinned, NEW u \in OwnedPages, Get(u) = Get(v) PROVE u = v
    <3>1. v \in VPages /\ HasPage(v)
      BY <2>1, <2>2, PinnedPlace DEF Kept, PagesKept
    <3>2. u \in VPages /\ HasPage(u)
      BY <2>1, <2>4, <2>5, <3>1, ClientPages DEF Get
    <3>3. pd(u) = pd(v) /\ pdi(u) = pdi(v)
      BY <2>1, <2>4, <2>5, <3>1, <3>2 DEF Kept, FramesOnce
    <3>4. Place(u) = Place(v)
      BY <2>2, <3>2, <3>3, PinnedPlace
    <3> QED
      BY <3>1, <3>2, <3>3, <3>4, IndicesDetermine DEF Place
  <2> QED
    BY <2>1, <2>3, <2>5 DEF HeapKeepsItsPages, Kept, PagesKept
<1> QED
  BY <1>1, KeepInvariant, PTL

(***************************************************************************)
(* NoWalkAstray: under the same condition no walk of get(), map() or       *)
(* unmap() takes memory outside the pool for a table, also not through a   *)
(* directory that was freed and linked again: a page that is freed and     *)
(* still linked can only come back as a directory (pm.cpp:31-56, :83-131). *)
(***************************************************************************)
THEOREM NoWalkAstray == SysSpec => [](OnePdpt => status # "wild")
<1>1. KeepInv => (OnePdpt => status # "wild")
  BY DEF KeepInv
<1> QED
  BY <1>1, KeepInvariant, PTL
=============================================================================
