---------------------------- MODULE PagingProofs ----------------------------
(***************************************************************************)
(* Proofs about the kernel's paging structures, for every fanout, pool and *)
(* set of pages that clients map and unmap.                                *)
(***************************************************************************)
EXTENDS Paging, TLAPS, FiniteSetTheorems

USE FanoutAssumption, PoolAssumption

-----------------------------------------------------------------------------
(* The first free page of the pool.                                        *)

(* A non-empty set of numbers has a least one: what alloc() finds. *)
LEMMA LowestInSet ==
  ASSUME NEW S \in SUBSET Nat, S # {}
  PROVE  Lowest(S) \in S /\ \A q \in S : Lowest(S) <= q
<1> DEFINE Less == {ss \in Nat \X Nat : ss[1] < ss[2]}
<1>1. IsWellFoundedOn(Less, Nat)
  BY NatLessThanWellFounded DEF OpToRel
<1>2. PICK x \in S : \A y \in S : ~(<<y, x>> \in Less)
  <2> HIDE DEF Less
  <2> QED
    BY <1>1, WFMin
<1>3. ASSUME NEW y \in S PROVE x <= y
  <2>1. <<y, x>> \notin Less /\ x \in Nat /\ y \in Nat
    BY <1>2
  <2> QED
    BY <2>1
<1> QED
  BY <1>3 DEF Lowest

-----------------------------------------------------------------------------
(* The indices of a virtual page.                                          *)

(* Quotient and remainder determine a number. *)
LEMMA DivMod ==
  ASSUME NEW a \in Nat, NEW b \in Nat \ {0}
  PROVE  /\ a \div b \in Nat /\ a % b \in 0 .. (b - 1)
         /\ a = b * (a \div b) + (a % b)
OBVIOUS

(* A quotient is as small as its number allows. *)
LEMMA DivBelow ==
  ASSUME NEW a \in Nat, NEW b \in Nat \ {0}, NEW c \in Nat, a < b * c
  PROVE  a \div b < c
<1> DEFINE q == a \div b
<1>1. q \in Nat /\ b * q <= a
  BY DivMod
<1>2. ASSUME q >= c PROVE FALSE
  <2>1. b * (q - c) >= 0 /\ b * q = b * (q - c) + b * c
    BY <1>1, <1>2
  <2> QED
    BY <1>1, <2>1
<1> QED
  BY <1>1, <1>2

(* A page has an entry at each level. *)
LEMMA Indices ==
  ASSUME NEW v \in VPages
  PROVE  pml4i(v) \in Idx /\ pdpti(v) \in Idx /\ pdi(v) \in Idx
<1>1. v \in Nat /\ v < (Fanout * Fanout) * Fanout /\ Fanout * Fanout \in Nat \ {0}
  BY DEF VPages
<1>2. pml4i(v) \in Nat /\ pml4i(v) < Fanout
  BY <1>1, DivBelow, DivMod DEF pml4i
<1>3. v \div Fanout \in Nat
  BY <1>1, DivMod
<1>4. pdpti(v) \in 0 .. (Fanout - 1) /\ pdi(v) \in 0 .. (Fanout - 1)
  BY <1>1, <1>3, DivMod DEF pdpti, pdi
<1> QED
  BY <1>2, <1>4 DEF Idx

(* A number made of a quotient and a remainder has that quotient. *)
LEMMA DivExact ==
  ASSUME NEW n \in Nat \ {0}, NEW x \in Nat, NEW y \in 0 .. (n - 1)
  PROVE  (n * x + y) \div n = x
<1> DEFINE w == n * x + y
           z == w \div n
           r == w % n
<1>1. w \in Nat
  OBVIOUS
<1>2. z \in Nat /\ r \in 0 .. (n - 1) /\ w = n * z + r
  <2> HIDE DEF w
  <2> QED
    BY <1>1, DivMod
<1>3. n * x + y = n * z + r
  BY <1>2
<1> HIDE DEF w, z, r
<1>4. CASE x > z
  <2>1. n * (x - z) >= n /\ n * x = n * z + n * (x - z)
    BY <1>2, <1>4
  <2> QED
    BY <1>2, <1>3, <2>1
<1>5. CASE z > x
  <2>1. n * (z - x) >= n /\ n * z = n * x + n * (z - x)
    BY <1>2, <1>5
  <2> QED
    BY <1>2, <1>3, <2>1
<1> QED
  BY <1>2, <1>4, <1>5 DEF w, z

(* Dividing twice is dividing by the square. *)
LEMMA DivTwice ==
  ASSUME NEW a \in Nat, NEW b \in Nat \ {0}
  PROVE  (a \div b) \div b = a \div (b * b)
<1> DEFINE q == a \div b
           r == a % b
           p == q \div b
           t == q % b
<1>1. q \in Nat /\ r \in 0 .. (b - 1) /\ a = b * q + r
  BY DivMod
<1>2. p \in Nat /\ t \in 0 .. (b - 1) /\ q = b * p + t
  BY <1>1, DivMod
<1> HIDE DEF q, r, p, t
<1>3. a = (b * b) * p + (b * t + r)
  BY <1>1, <1>2
<1>4. b * t + r \in 0 .. ((b * b) - 1)
  <2>1. b * t <= b * (b - 1) /\ b * t >= 0
    BY <1>2
  <2> QED
    BY <1>1, <1>2, <2>1
<1>5. b * b \in Nat \ {0}
  OBVIOUS
<1> QED
  BY <1>2, <1>3, <1>4, <1>5, DivExact DEF p, q

(* Pages with the same indices are the same page. *)
LEMMA IndicesDetermine ==
  ASSUME NEW u \in VPages, NEW v \in VPages,
         pml4i(u) = pml4i(v), pdpti(u) = pdpti(v), pdi(u) = pdi(v)
  PROVE  u = v
<1>1. u \in Nat /\ v \in Nat /\ Fanout \in Nat \ {0}
  BY DEF VPages
<1> DEFINE qu == u \div Fanout
           qv == v \div Fanout
<1>2. qu \in Nat /\ qv \in Nat
  BY <1>1, DivMod
<1>3. qu \div Fanout = qv \div Fanout
  BY <1>1, DivTwice DEF pml4i
<1>4. qu % Fanout = qv % Fanout
  BY DEF pdpti
<1>5. qu = qv
  <2> HIDE DEF qu, qv
  <2>1. qu = Fanout * (qu \div Fanout) + (qu % Fanout)
    BY <1>1, <1>2, DivMod
  <2>2. qv = Fanout * (qv \div Fanout) + (qv % Fanout)
    BY <1>1, <1>2, DivMod
  <2> QED
    BY <2>1, <2>2, <1>3, <1>4
<1>6. u % Fanout = v % Fanout
  BY DEF pdi
<1>7. u = Fanout * (u \div Fanout) + (u % Fanout)
  BY <1>1, DivMod
<1>8. v = Fanout * (v \div Fanout) + (v % Fanout)
  BY <1>1, DivMod
<1> QED
  BY <1>5, <1>6, <1>7, <1>8

-----------------------------------------------------------------------------
(* The types.                                                              *)

Entry == [to : Nat, flags : SUBSET FlagBits]
Tables == [Pages -> [Idx -> Entry]]

(* Writing an entry of a page of the pool, or of none, gives tables again. *)
LEMMA WriteEntry ==
  ASSUME NEW T \in Tables, NEW p, NEW k \in Idx, NEW e \in Entry
  PROVE  [T EXCEPT ![p] = [T[p] EXCEPT ![k] = e]] \in Tables
BY DEF Tables

(* Clearing a page gives tables again. *)
LEMMA ClearPage ==
  ASSUME NEW T \in Tables, NEW p
  PROVE  [T EXCEPT ![p] = ZeroPage] \in Tables
BY DEF Tables, ZeroPage, Zero, Entry, FlagBits

(* So does writing a count to the counters. *)
LEMMA WriteCount ==
  ASSUME NEW R \in [Pages -> Nat], NEW p, NEW n, p \in Pages => n \in Nat
  PROVE  [R EXCEPT ![p] = n] \in [Pages -> Nat]
OBVIOUS

(* The entries that map() writes are entries. *)
LEMMA EntryTypes ==
  /\ \A f \in Nat, fl \in SUBSET FlagBits : PageEntry(f, fl) \in Entry
  /\ \A p \in Pages : TableEntry(p) \in Entry
BY DEF PageEntry, TableEntry, Entry, FlagBits, F_PRESENT, F_RW, F_PS, Pages

(* The pages that are not tracked are pages, and finitely many. *)
LEMMA UntrackedPages ==
  /\ Untracked \subseteq Pages /\ Untracked \subseteq Nat
  /\ IsFiniteSet(Untracked) /\ Cardinality(Untracked) \in Nat
<1>1. IsFiniteSet(Pages)
  BY FS_Interval DEF Pages
<1>2. Untracked \in SUBSET Pages /\ Pages \subseteq Nat
  BY DEF Untracked, Pages
<1>3. IsFiniteSet(Untracked)
  BY <1>1, <1>2, FS_Subset
<1>4. Cardinality(Untracked) \in Nat
  BY <1>3, FS_CardinalityType
<1> QED
  BY <1>2, <1>3, <1>4

(* What alloc() returns while the pool is not exhausted. *)
LEMMA AllocPage ==
  ASSUME Untracked # {}
  PROVE  Lowest(Untracked) \in Pages \ tracked
BY LowestInSet, UntrackedPages DEF Untracked

(* What it returns the second time, while two pages are left. *)
LEMMA AllocTwoPages ==
  ASSUME Cardinality(Untracked) >= 2
  PROVE  LET first == Lowest(Untracked)
             second == Lowest(Untracked \ {first})
         IN  first \in Pages \ tracked /\ second \in Pages \ tracked /\ first # second
<1> DEFINE first == Lowest(Untracked)
           rest == Untracked \ {first}
<1>1. Untracked # {}
  BY FS_EmptySet
<1>2. first \in Untracked
  BY <1>1, LowestInSet, UntrackedPages
<1>3. rest # {}
  <2>1. Cardinality(rest) = Cardinality(Untracked) - 1
    BY <1>2, UntrackedPages, FS_RemoveElement
  <2> QED
    BY <2>1, UntrackedPages, FS_EmptySet
<1>4. Lowest(rest) \in rest
  <2>1. rest \in SUBSET Nat
    BY UntrackedPages
  <2> HIDE DEF rest
  <2> QED
    BY <1>3, <2>1, LowestInSet
<1> QED
  BY <1>2, <1>4 DEF Untracked

(* Each kind of step keeps the types.                                      *)

LEMMA MapEntryType ==
  ASSUME TypeOK, NEW v \in VPages, NEW f \in Nat, NEW fl \in SUBSET FlagBits,
         MapEntry(v, f, fl)
  PROVE  TypeOK'
<1>1. CASE Present(pde(v))
  BY <1>1 DEF MapEntry, Panic, TypeOK
<1>2. CASE ~Present(pde(v))
  <2>1. table' \in Tables
    <3>1. table' = [table EXCEPT ![pd(v)] = [table[pd(v)] EXCEPT ![pdi(v)] = PageEntry(f, fl)]]
      BY <1>2 DEF MapEntry
    <3> QED
      BY <3>1, WriteEntry, EntryTypes, Indices DEF TypeOK, Tables, Entry
  <2>2. refs' \in [Pages -> Nat]
    BY <1>2 DEF MapEntry, TypeOK, Inc
  <2> QED
    BY <1>2, <2>1, <2>2 DEF MapEntry, TypeOK, Tables, Entry
<1> QED
  BY <1>1, <1>2

LEMMA MapNewPdType ==
  ASSUME TypeOK, NEW v \in VPages, NEW f \in Nat, NEW fl \in SUBSET FlagBits,
         MapNewPd(v, f, fl)
  PROVE  TypeOK'
<1>1. CASE Untracked = {}
  BY <1>1 DEF MapNewPd, Panic, TypeOK
<1>2. CASE Untracked # {}
  <2> DEFINE new == Lowest(Untracked)
             T0 == [table EXCEPT ![new] = ZeroPage]
             T1 == [T0 EXCEPT ![new] = [T0[new] EXCEPT ![pdi(v)] = PageEntry(f, fl)]]
             T2 == [T1 EXCEPT ![pdpt(v)] = [T1[pdpt(v)] EXCEPT ![pdpti(v)] = TableEntry(new)]]
  <2>1. new \in Pages
    BY <1>2, AllocPage
  <2>2. table' = T2
    BY <1>2 DEF MapNewPd
  <2> HIDE DEF new
  <2>3. T0 \in Tables
    BY ClearPage DEF TypeOK, Tables, Entry
  <2> HIDE DEF T0
  <2>4. T1 \in Tables
    BY <2>3, WriteEntry, EntryTypes, Indices
  <2> HIDE DEF T1
  <2>5. T2 \in Tables
    BY <2>1, <2>4, WriteEntry, EntryTypes, Indices
  <2>6. refs' \in [Pages -> Nat]
    BY <1>2 DEF MapNewPd, TypeOK, Inc
  <2>7. tracked' \subseteq Pages
    BY <1>2, <2>1 DEF MapNewPd, TypeOK, new
  <2>8. table' \in Tables
    BY <2>2, <2>5
  <2> QED
    BY <1>2, <2>6, <2>7, <2>8 DEF MapNewPd, TypeOK, Tables, Entry
<1> QED
  BY <1>1, <1>2

LEMMA MapNewPdptType ==
  ASSUME TypeOK, NEW v \in VPages, NEW f \in Nat, NEW fl \in SUBSET FlagBits,
         MapNewPdpt(v, f, fl)
  PROVE  TypeOK'
<1>1. CASE Cardinality(Untracked) < 2
  BY <1>1 DEF MapNewPdpt, Panic, TypeOK
<1>2. CASE ~(Cardinality(Untracked) < 2)
  <2> DEFINE first == Lowest(Untracked)
             second == Lowest(Untracked \ {first})
             T00 == [table EXCEPT ![first] = ZeroPage]
             T0 == [T00 EXCEPT ![second] = ZeroPage]
             T1 == [T0 EXCEPT ![second] = [T0[second] EXCEPT ![pdi(v)] = PageEntry(f, fl)]]
             T2 == [T1 EXCEPT ![first] = [T1[first] EXCEPT ![pdpti(v)] = TableEntry(second)]]
             T3 == [T2 EXCEPT ![Root] = [T2[Root] EXCEPT ![pml4i(v)] = TableEntry(first)]]
  <2>1. first \in Pages /\ second \in Pages
    <3>1. Cardinality(Untracked) >= 2
      BY <1>2, UntrackedPages
    <3> QED
      BY <3>1, AllocTwoPages
  <2>2. table' = T3
    BY <1>2 DEF MapNewPdpt
  <2>3. tracked' = tracked \cup {first, second}
    BY <1>2 DEF MapNewPdpt
  <2> HIDE DEF second
  <2> HIDE DEF first
  <2>4. T00 \in Tables
    BY ClearPage DEF TypeOK, Tables, Entry
  <2> HIDE DEF T00
  <2>5. T0 \in Tables
    BY <2>4, ClearPage
  <2> HIDE DEF T0
  <2>6. T1 \in Tables
    BY <2>5, WriteEntry, EntryTypes, Indices
  <2> HIDE DEF T1
  <2>7. T2 \in Tables
    BY <2>1, <2>6, WriteEntry, EntryTypes, Indices
  <2> HIDE DEF T2
  <2>8. table' \in Tables
    BY <2>1, <2>2, <2>7, WriteEntry, EntryTypes, Indices
  <2>9. refs' \in [Pages -> Nat]
    <3> DEFINE R1 == [refs EXCEPT ![second] = refs[second] + 1]
    <3>1. refs' = [R1 EXCEPT ![first] = refs[first] + 1]
      BY <1>2 DEF MapNewPdpt, Inc, first, second
    <3>2. R1 \in [Pages -> Nat]
      BY WriteCount DEF TypeOK
    <3> HIDE DEF R1
    <3> QED
      BY <2>1, <3>1, <3>2, WriteCount DEF TypeOK
  <2> QED
    BY <1>2, <2>1, <2>3, <2>8, <2>9 DEF MapNewPdpt, TypeOK, Tables, Entry
<1> QED
  BY <1>1, <1>2

(* map() keeps the types. *)
LEMMA MapType ==
  ASSUME TypeOK, NEW v \in VPages, NEW f \in Nat, NEW fl \in SUBSET FlagBits,
         Map(v, f, fl)
  PROVE  TypeOK'
<1>1. CASE Astray(v) /\ GoAstray
  BY <1>1 DEF GoAstray, TypeOK
<1> QED
  BY <1>1, MapEntryType, MapNewPdType, MapNewPdptType DEF Map

(* unmap() keeps the types. *)
LEMMA UnmapType ==
  ASSUME TypeOK, NEW v, Unmap(v)
  PROVE  TypeOK'
<1>1. CASE Astray(v) /\ GoAstray
  BY <1>1 DEF GoAstray, TypeOK
<1>2. CASE UnmapKeepPd(v)
  <2>1. refs' \in [Pages -> Nat]
    <3>1. pd(v) \in Pages => Dec(refs[pd(v)]) \in Nat
      BY DEF TypeOK, Dec
    <3> QED
      BY <1>2, <3>1, WriteCount DEF UnmapKeepPd, TypeOK
  <2> QED
    BY <1>2, <2>1 DEF UnmapKeepPd, TypeOK
<1>3. CASE UnmapFreePd(v)
  <2>1. ASSUME Panic PROVE TypeOK'
    BY <2>1 DEF Panic, TypeOK
  <2>2. ASSUME ~Panic PROVE TypeOK'
    <3> DEFINE r == [refs EXCEPT ![pd(v)] = 0]
    <3>1. refs' = [r EXCEPT ![pdpt(v)] = Dec(r[pdpt(v)])]
      BY <1>3, <2>2 DEF UnmapFreePd
    <3>2. r \in [Pages -> Nat]
      BY WriteCount DEF TypeOK
    <3> HIDE DEF r
    <3>3. refs' \in [Pages -> Nat]
      BY <3>1, <3>2, WriteCount DEF Dec
    <3>4. tracked' \subseteq Pages
      BY <1>3, <2>2 DEF UnmapFreePd, TypeOK, Untrack
    <3> QED
      BY <1>3, <2>2, <3>3, <3>4 DEF UnmapFreePd, TypeOK
  <2> QED
    BY <2>1, <2>2
<1>4. CASE UnmapNotFound(v)
  BY <1>4 DEF UnmapNotFound, TypeOK, pmvars
<1> QED
  BY <1>1, <1>2, <1>3, <1>4 DEF Unmap

-----------------------------------------------------------------------------
(* Counting entries.                                                       *)

PresentIn(p) == {k \in Idx : Present(table[p][k])}

(* A table has finitely many entries. *)
LEMMA EntriesNat ==
  ASSUME NEW p
  PROVE  /\ IsFiniteSet(PresentIn(p)) /\ Entries(p) = Cardinality(PresentIn(p))
         /\ Entries(p) \in Nat
<1>1. IsFiniteSet(Idx)
  BY FS_Interval DEF Idx
<1>2. PresentIn(p) \in SUBSET Idx
  BY DEF PresentIn
<1>3. IsFiniteSet(PresentIn(p))
  BY <1>1, <1>2, FS_Subset
<1>4. Entries(p) = Cardinality(PresentIn(p))
  BY DEF Entries, PresentIn
<1> QED
  BY <1>3, <1>4, FS_CardinalityType

(* A table with an entry present counts at least one. *)
LEMMA EntriesPositive ==
  ASSUME NEW p, NEW k \in Idx, Present(table[p][k])
  PROVE  Entries(p) >= 1
<1>1. PresentIn(p) # {}
  BY DEF PresentIn
<1> QED
  BY <1>1, EntriesNat, FS_EmptySet

(* An entry that becomes present is one more; a table that keeps its       *)
(* entries keeps its count.                                                *)
LEMMA EntriesAdd ==
  ASSUME NEW p, NEW k \in Idx, ~Present(table[p][k]), Present(table'[p][k]),
         \A n \in Idx \ {k} : Present(table'[p][n]) <=> Present(table[p][n])
  PROVE  Entries(p)' = Entries(p) + 1
<1>1. PresentIn(p)' = PresentIn(p) \cup {k} /\ k \notin PresentIn(p)
  BY DEF PresentIn
<1>2. Cardinality(PresentIn(p) \cup {k}) = Cardinality(PresentIn(p)) + 1
  BY <1>1, EntriesNat, FS_AddElement
<1>3. Entries(p)' = Cardinality(PresentIn(p)')
  BY DEF Entries, PresentIn
<1> QED
  BY <1>1, <1>2, <1>3, EntriesNat

LEMMA EntriesSame ==
  ASSUME NEW p, table'[p] = table[p]
  PROVE  Entries(p)' = Entries(p)
BY DEF Entries

(* A cleared table with one entry set counts one. *)
LEMMA EntriesOne ==
  ASSUME NEW p, NEW k \in Idx, Present(table'[p][k]),
         \A n \in Idx \ {k} : ~Present(table'[p][n])
  PROVE  Entries(p)' = 1
<1>1. PresentIn(p)' = {k}
  BY DEF PresentIn
<1>2. Entries(p)' = Cardinality(PresentIn(p)')
  BY DEF Entries, PresentIn
<1> QED
  BY <1>1, <1>2, FS_Singleton

-----------------------------------------------------------------------------
(* The pool the loader leaves has the types. *)
LEMMA InitType == Init => TypeOK
<1> SUFFICES ASSUME Init PROVE TypeOK
  OBVIOUS
<1>1. ASSUME NEW p \in Pages PROVE BootContents(p) \in [Idx -> Entry]
  <2>1. BootMap \in [0 .. 2 -> Nat]
    BY FramesAssumption DEF BootMap, Phys
  <2> QED
    BY <2>1 DEF BootContents, BootTable, ZeroPage, Zero, Idx, Entry, FlagBits, F_PRESENT, F_PS,
                Root, BootPae, BootPdpt, BootPd
<1>2. table \in [Pages -> [Idx -> Entry]]
  BY <1>1 DEF Init
<1>3. refs \in [Pages -> Nat]
  BY EntriesNat DEF Init
<1>4. tracked \subseteq Pages
  BY DEF Init, Pages, Root, BootPae, BootPdpt, BootPd
<1> QED
  BY <1>2, <1>3, <1>4 DEF Init, TypeOK, Entry

(***************************************************************************)
(* TypeCorrect: the pool, its tracking bits and its counters hold what     *)
(* their types allow, whatever clients map and unmap, and in whatever      *)
(* order structures are freed and reused.                                  *)
(***************************************************************************)
THEOREM TypeCorrect == Spec => []TypeOK
<1>1. ASSUME TypeOK, [Next]_pmvars PROVE TypeOK'
  <2>1. ASSUME NEW v \in MapSet, NEW f \in Frames, Map(v, Phys(f), {}) PROVE TypeOK'
    <3>1. Phys(f) \in Nat /\ {} \in SUBSET FlagBits /\ v \in VPages
      BY FramesAssumption, ClientPagesAssumption DEF Phys
    <3> QED
      BY <1>1, <2>1, <3>1, MapType
  <2>2. ASSUME NEW v \in UnmapSet, Unmap(v) PROVE TypeOK'
    BY <1>1, <2>2, UnmapType
  <2>3. CASE UNCHANGED pmvars
    BY <1>1, <2>3 DEF pmvars, TypeOK
  <2> QED
    BY <1>1, <2>1, <2>2, <2>3 DEF Next, Stopped
<1> QED
  BY <1>1, InitType, PTL DEF Spec

-----------------------------------------------------------------------------
(* The tree of tables, by the indices of the path to each entry.           *)

AtRoot(i) == Present(table[Root][i])
InPdpt(i, j) == AtRoot(i) /\ Present(table[PdptAt(i)][j])
PdOf(i, j) == table[PdptAt(i)][j].to
InPd(i, j, k) == InPdpt(i, j) /\ Present(table[PdOf(i, j)][k])
Leaf(i, j, k) == table[PdOf(i, j)][k].to

Structures == tracked \ {Root, BootPae}

TreeByIndex ==
  /\ \A i \in Idx : AtRoot(i) => PdptAt(i) \in Structures
  /\ \A i, j \in Idx : InPdpt(i, j) => PdOf(i, j) \in Structures
  /\ \A i, m, n \in Idx : AtRoot(i) /\ InPdpt(m, n) => PdptAt(i) # PdOf(m, n)
  /\ \A i, m \in Idx : AtRoot(i) /\ AtRoot(m) /\ PdptAt(i) = PdptAt(m) => i = m
  /\ \A i, j, m, n \in Idx :
       InPdpt(i, j) /\ InPdpt(m, n) /\ PdOf(i, j) = PdOf(m, n) => i = m /\ j = n

CountsByIndex ==
  /\ \A i \in Idx : AtRoot(i) => refs[PdptAt(i)] = Entries(PdptAt(i))
  /\ \A i, j \in Idx : InPdpt(i, j) => refs[PdOf(i, j)] \in 1 .. Entries(PdOf(i, j))
  /\ \A p \in Pages \ tracked : refs[p] = 0

SoundByIndex == {Root, BootPae} \subseteq tracked /\ TreeByIndex /\ CountsByIndex

(* The slots of the property are the indices of the present entries. *)
LEMMA Slots ==
  /\ \A i \in Idx : i \in PdptSlots <=> AtRoot(i)
  /\ PdptSlots \subseteq Idx
  /\ \A i, j \in Idx : <<i, j>> \in PdSlots <=> InPdpt(i, j)
  /\ \A i, j \in Idx : PdAt(<<i, j>>) = PdOf(i, j)
  /\ \A s \in PdSlots : s[1] \in Idx /\ s[2] \in Idx /\ s = <<s[1], s[2]>>
BY DEF PdptSlots, AtRoot, PdSlots, InPdpt, PdAt, PdOf, PdptAt

(* Soundness is the same by slots and by indices. *)
LEMMA SoundIsByIndex == TypeOK => (Sound <=> SoundByIndex)
<1> SUFFICES ASSUME TypeOK PROVE Sound <=> SoundByIndex
  OBVIOUS
<1>1. ASSUME Sound PROVE SoundByIndex
  <2>1. TreeByIndex
    <3>1. \A i \in Idx : AtRoot(i) => PdptAt(i) \in Structures
      BY <1>1, Slots DEF Sound, Tree, TablesAllocated, Structures
    <3>2. \A i, j \in Idx : InPdpt(i, j) => PdOf(i, j) \in Structures
      BY <1>1, Slots DEF Sound, Tree, TablesAllocated, Structures
    <3>3. ASSUME NEW i \in Idx, NEW m \in Idx, NEW n \in Idx, AtRoot(i), InPdpt(m, n)
          PROVE  PdptAt(i) # PdOf(m, n)
      <4>1. i \in PdptSlots /\ <<m, n>> \in PdSlots /\ PdAt(<<m, n>>) = PdOf(m, n)
        BY <3>3, Slots
      <4> QED
        BY <1>1, <4>1 DEF Sound, Tree
    <3>4. \A i, m \in Idx : AtRoot(i) /\ AtRoot(m) /\ PdptAt(i) = PdptAt(m) => i = m
      BY <1>1, Slots DEF Sound, Tree
    <3>5. ASSUME NEW i \in Idx, NEW j \in Idx, NEW m \in Idx, NEW n \in Idx,
                 InPdpt(i, j), InPdpt(m, n), PdOf(i, j) = PdOf(m, n)
          PROVE  i = m /\ j = n
      <4>1. <<i, j>> \in PdSlots /\ <<m, n>> \in PdSlots
        BY <3>5, Slots
      <4>2. PdAt(<<i, j>>) = PdAt(<<m, n>>)
        BY <3>5, Slots
      <4>3. <<i, j>> = <<m, n>>
        BY <1>1, <4>1, <4>2 DEF Sound, Tree
      <4> QED
        BY <4>3
    <3> QED
      BY <3>1, <3>2, <3>3, <3>4, <3>5 DEF TreeByIndex
  <2>2. CountsByIndex
    BY <1>1, Slots DEF Sound, CountsAgree, CountsByIndex, Untracked
  <2> QED
    BY <1>1, <2>1, <2>2 DEF Sound, TablesAllocated, SoundByIndex
<1>2. ASSUME SoundByIndex PROVE Sound
  <2>1. \A s \in PdSlots : InPdpt(s[1], s[2]) /\ PdAt(s) = PdOf(s[1], s[2])
    BY Slots
  <2>2. Tree
    <3>1. \A s \in PdSlots : PdAt(s) \in Pages \ {Root, BootPae}
      BY <1>2, <2>1, Slots DEF SoundByIndex, TreeByIndex, Structures, TypeOK
    <3>2. \A i \in PdptSlots, s \in PdSlots : PdptAt(i) # PdAt(s)
      BY <1>2, <2>1, Slots DEF SoundByIndex, TreeByIndex
    <3>3. \A s, t \in PdSlots : PdAt(s) = PdAt(t) => s = t
      BY <1>2, <2>1, Slots DEF SoundByIndex, TreeByIndex
    <3>4. \A i \in PdptSlots : PdptAt(i) \in Pages \ {Root, BootPae}
      BY <1>2, Slots DEF SoundByIndex, TreeByIndex, Structures, TypeOK
    <3>5. \A i, j \in PdptSlots : PdptAt(i) = PdptAt(j) => i = j
      BY <1>2, Slots DEF SoundByIndex, TreeByIndex
    <3> QED
      BY <3>1, <3>2, <3>3, <3>4, <3>5 DEF Tree
  <2>4. TablesAllocated
    BY <1>2, <2>1, Slots DEF SoundByIndex, TreeByIndex, Structures, TablesAllocated
  <2>3. CountsAgree
    BY <1>2, <2>1, Slots DEF SoundByIndex, CountsAgree, CountsByIndex, Untracked
  <2> QED
    BY <2>2, <2>3, <2>4 DEF Sound
<1> QED
  BY <1>1, <1>2

(* What a step that maps one page does to the pages there are: it adds the *)
(* one at i, j, k, with target f, and leaves the others where they are.    *)
Adds(i, j, k, f) ==
  /\ ~InPd(i, j, k) /\ InPd(i, j, k)' /\ Leaf(i, j, k)' = f
  /\ \A l, m, n \in Idx :
       <<l, m, n>> # <<i, j, k>> =>
         /\ InPd(l, m, n)' <=> InPd(l, m, n)
         /\ InPd(l, m, n) => Leaf(l, m, n)' = Leaf(l, m, n)

(* Filling an absent entry of a page directory.                            *)
LEMMA FillEntry ==
  ASSUME TypeOK, TypeOK', SoundByIndex,
         NEW i \in Idx, NEW j \in Idx, NEW k \in Idx, NEW D, NEW e,
         InPdpt(i, j), ~InPd(i, j, k), D = PdOf(i, j), Present(e),
         tracked' = tracked,
         table' = [table EXCEPT ![D] = [table[D] EXCEPT ![k] = e]],
         refs' = [refs EXCEPT ![D] = refs[D] + 1]
  PROVE  SoundByIndex' /\ Adds(i, j, k, e.to)
<1>1. D \in Pages /\ D # Root /\ Root \in Pages /\ ~Present(table[D][k])
  BY DEF SoundByIndex, TreeByIndex, Structures, TypeOK, InPd, Pages, Root
<1>2. \A l \in Idx : AtRoot(l) => PdptAt(l) \in Pages /\ PdptAt(l) # D
  BY DEF SoundByIndex, TreeByIndex, Structures, TypeOK
<1>3. \A p \in Pages : p # D => table'[p] = table[p]
  BY DEF TypeOK
<1>4. table'[D] = [table[D] EXCEPT ![k] = e] /\ table[D] \in [Idx -> Entry]
  BY <1>1 DEF TypeOK, Entry
<1>5. \A l \in Idx : (AtRoot(l)' <=> AtRoot(l)) /\ PdptAt(l)' = PdptAt(l)
  BY <1>1, <1>3 DEF AtRoot, PdptAt
<1>6. \A l, m \in Idx : (InPdpt(l, m)' <=> InPdpt(l, m))
                        /\ (InPdpt(l, m) => PdOf(l, m)' = PdOf(l, m))
  BY <1>2, <1>3, <1>5 DEF InPdpt, PdOf
<1>7. \A p \in Pages : Entries(p) \in Nat
                       /\ (p # D => Entries(p)' = Entries(p) /\ refs'[p] = refs[p])
  BY <1>3, EntriesNat, EntriesSame DEF TypeOK
<1>8. Entries(D)' = Entries(D) + 1 /\ refs'[D] = refs[D] + 1
  <2>1. Present(table'[D][k]) /\ \A n \in Idx \ {k} : table'[D][n] = table[D][n]
    BY <1>4
  <2>2. Entries(D)' = Entries(D) + 1
    BY <1>1, <2>1, EntriesAdd
  <2> QED
    BY <1>1, <2>2 DEF TypeOK
<1>9. TreeByIndex'
  BY <1>5, <1>6 DEF SoundByIndex, TreeByIndex, Structures
<1>10. CountsByIndex'
  <2>1. \A l \in Idx : AtRoot(l)' => refs'[PdptAt(l)'] = Entries(PdptAt(l))'
    BY <1>2, <1>5, <1>7 DEF SoundByIndex, CountsByIndex, Entries
  <2>2. ASSUME NEW l \in Idx, NEW m \in Idx, InPdpt(l, m)'
        PROVE  refs'[PdOf(l, m)'] \in 1 .. Entries(PdOf(l, m))'
    <3>1. PICK p \in Pages : p = PdOf(l, m)
      BY <1>6, <2>2 DEF SoundByIndex, TreeByIndex, Structures, TypeOK
    <3>2. refs[p] \in 1 .. Entries(p)
      BY <1>6, <2>2, <3>1 DEF SoundByIndex, CountsByIndex
    <3>3. refs'[p] \in 1 .. Entries(p)'
      BY <1>7, <1>8, <3>2
    <3>4. PdOf(l, m)' = p
      BY <1>6, <2>2, <3>1
    <3> QED
      BY <3>3, <3>4 DEF Entries
  <2>3. \A p \in Pages \ tracked' : refs'[p] = 0
    BY <1>7 DEF SoundByIndex, TreeByIndex, Structures, CountsByIndex
  <2> QED
    BY <2>1, <2>2, <2>3 DEF CountsByIndex
<1>11. Adds(i, j, k, e.to)
  <2>1. InPd(i, j, k)' /\ Leaf(i, j, k)' = e.to
    BY <1>4, <1>6 DEF InPd, Leaf
  <2>2. ASSUME NEW l \in Idx, NEW m \in Idx, NEW n \in Idx, <<l, m, n>> # <<i, j, k>>, InPdpt(l, m)
        PROVE  table'[PdOf(l, m)][n] = table[PdOf(l, m)][n]
    <3>1. CASE l = i /\ m = j
      BY <1>4, <2>2, <3>1
    <3>2. CASE ~(l = i /\ m = j)
      <4>1. PdOf(l, m) \in Pages /\ PdOf(l, m) # D
        BY <2>2, <3>2 DEF SoundByIndex, TreeByIndex, Structures, TypeOK
      <4> QED
        BY <1>3, <4>1
    <3> QED
      BY <3>1, <3>2
  <2> QED
    BY <1>6, <2>1, <2>2 DEF Adds, InPd, Leaf
<1> QED
  BY <1>9, <1>10, <1>11 DEF SoundByIndex

(* Linking a new page directory to a PDPT, with one entry.                 *)
LEMMA LinkPd ==
  ASSUME TypeOK, TypeOK', SoundByIndex,
         NEW i \in Idx, NEW j \in Idx, NEW k \in Idx, NEW P, NEW D, NEW e, NEW t,
         AtRoot(i), ~InPdpt(i, j), P = PdptAt(i), D \in Pages \ tracked,
         Present(e), Present(t), t.to = D,
         tracked' = tracked \cup {D},
         table'[D] = [ZeroPage EXCEPT ![k] = e],
         table'[P] = [table[P] EXCEPT ![j] = t],
         refs'[D] = refs[D] + 1, refs'[P] = refs[P] + 1,
         \A p \in Pages \ {D, P} : table'[p] = table[p] /\ refs'[p] = refs[p]
  PROVE  SoundByIndex' /\ Adds(i, j, k, e.to)
<1>1. /\ P \in Pages /\ P # Root /\ Root \in Pages /\ D # Root /\ D # P
      /\ P \in Structures /\ BootPae # D
  BY DEF SoundByIndex, TreeByIndex, Structures, TypeOK, Pages, Root
<1>2. \A l \in Idx : AtRoot(l) => PdptAt(l) \in Pages \ {D} /\ (l # i => PdptAt(l) # P)
  BY DEF SoundByIndex, TreeByIndex, Structures, TypeOK
<1>3. \A l, m \in Idx : InPdpt(l, m) => PdOf(l, m) \in Pages \ {D, P}
  BY <1>1 DEF SoundByIndex, TreeByIndex, Structures, TypeOK
<1>4. /\ table'[P][j] = t /\ \A n \in Idx \ {j} : table'[P][n] = table[P][n]
      /\ table'[D][k] = e /\ \A n \in Idx \ {k} : ~Present(table'[D][n])
  <2>1. table[P] \in [Idx -> Entry]
    BY <1>1 DEF TypeOK, Entry
  <2> QED
    BY <2>1 DEF ZeroPage, Zero, Present
<1>5. \A l \in Idx : (AtRoot(l)' <=> AtRoot(l)) /\ PdptAt(l)' = PdptAt(l)
  BY <1>1 DEF AtRoot, PdptAt
<1>6. InPdpt(i, j)' /\ PdOf(i, j)' = D
  BY <1>4, <1>5 DEF InPdpt, PdOf
<1>7. \A l, m \in Idx : ~(l = i /\ m = j) =>
         /\ InPdpt(l, m)' <=> InPdpt(l, m)
         /\ InPdpt(l, m) => PdOf(l, m)' = PdOf(l, m)
  <2> SUFFICES ASSUME NEW l \in Idx, NEW m \in Idx, ~(l = i /\ m = j), AtRoot(l)
               PROVE  table'[PdptAt(l)][m] = table[PdptAt(l)][m]
    BY <1>5 DEF InPdpt, PdOf
  <2>1. CASE l = i
    BY <1>4, <2>1
  <2>2. CASE l # i
    BY <1>2, <2>2
  <2> QED
    BY <2>1, <2>2
<1>8. \A p \in Pages : Entries(p) \in Nat /\ (p \notin {D, P} => Entries(p)' = Entries(p))
  BY EntriesNat, EntriesSame
<1>9. Entries(D)' = 1 /\ refs'[D] = 1
  <2>1. Present(table'[D][k])
    BY <1>4
  <2>2. Entries(D)' = 1
    BY <1>4, <2>1, EntriesOne
  <2>3. refs[D] = 0
    BY DEF SoundByIndex, CountsByIndex
  <2> QED
    BY <2>2, <2>3
<1>10. Entries(P)' = Entries(P) + 1 /\ refs'[P] = Entries(P)'
  <2>1. ~Present(table[P][j])
    BY DEF InPdpt
  <2>2. Entries(P)' = Entries(P) + 1
    <3>1. Present(table'[P][j])
      BY <1>4
    <3>2. \A n \in Idx \ {j} : Present(table'[P][n]) <=> Present(table[P][n])
      BY <1>4
    <3> QED
      BY <2>1, <3>1, <3>2, EntriesAdd
  <2>3. refs[P] = Entries(P)
    BY DEF SoundByIndex, CountsByIndex
  <2> QED
    BY <2>2, <2>3
<1>11. TreeByIndex'
  <2>1. \A l \in Idx : AtRoot(l)' => PdptAt(l)' \in Structures'
    BY <1>5 DEF SoundByIndex, TreeByIndex, Structures
  <2>2. \A l, m \in Idx : InPdpt(l, m)' => PdOf(l, m)' \in Structures'
    BY <1>1, <1>6, <1>7 DEF SoundByIndex, TreeByIndex, Structures
  <2>3. \A l, m, n \in Idx : AtRoot(l)' /\ InPdpt(m, n)' => PdptAt(l)' # PdOf(m, n)'
    BY <1>2, <1>5, <1>6, <1>7 DEF SoundByIndex, TreeByIndex
  <2>4. \A l, m \in Idx : AtRoot(l)' /\ AtRoot(m)' /\ PdptAt(l)' = PdptAt(m)' => l = m
    BY <1>5 DEF SoundByIndex, TreeByIndex
  <2>5. \A l, o, m, n \in Idx :
          InPdpt(l, o)' /\ InPdpt(m, n)' /\ PdOf(l, o)' = PdOf(m, n)' => l = m /\ o = n
    BY <1>3, <1>6, <1>7 DEF SoundByIndex, TreeByIndex
  <2> QED
    BY <2>1, <2>2, <2>3, <2>4, <2>5 DEF TreeByIndex
<1>12. CountsByIndex'
  <2>1. ASSUME NEW l \in Idx, AtRoot(l)' PROVE refs'[PdptAt(l)'] = Entries(PdptAt(l))'
    <3>1. PICK p \in Pages : p = PdptAt(l) /\ p # D /\ refs[p] = Entries(p)
      BY <1>2, <1>5, <2>1 DEF SoundByIndex, CountsByIndex
    <3>2. refs'[p] = Entries(p)'
      BY <1>8, <1>10, <3>1
    <3> QED
      BY <1>5, <3>1, <3>2 DEF Entries
  <2>2. ASSUME NEW l \in Idx, NEW m \in Idx, InPdpt(l, m)'
        PROVE  refs'[PdOf(l, m)'] \in 1 .. Entries(PdOf(l, m))'
    <3>1. PICK p : p = PdOf(l, m)'
      OBVIOUS
    <3>2. CASE l = i /\ m = j
      <4>1. p = D
        BY <1>6, <3>1, <3>2
      <4>2. refs'[p] \in 1 .. Entries(p)'
        BY <1>9, <4>1
      <4> QED
        BY <3>1, <4>2 DEF Entries
    <3>3. CASE ~(l = i /\ m = j)
      <4>1. p = PdOf(l, m) /\ InPdpt(l, m) /\ p \in Pages \ {D, P}
        BY <1>3, <1>7, <2>2, <3>1, <3>3
      <4>2. refs[p] \in 1 .. Entries(p)
        BY <4>1 DEF SoundByIndex, CountsByIndex
      <4>3. refs'[p] \in 1 .. Entries(p)'
        BY <1>8, <4>1, <4>2
      <4> QED
        BY <3>1, <4>3 DEF Entries
    <3> QED
      BY <3>2, <3>3
  <2>3. \A p \in Pages \ tracked' : refs'[p] = 0
    BY <1>1 DEF SoundByIndex, Structures, CountsByIndex
  <2> QED
    BY <2>1, <2>2, <2>3 DEF CountsByIndex
<1>13. Adds(i, j, k, e.to)
  <2>1. ~InPd(i, j, k) /\ InPd(i, j, k)' /\ Leaf(i, j, k)' = e.to
    BY <1>4, <1>6 DEF InPd, Leaf
  <2>2. ASSUME NEW l \in Idx, NEW m \in Idx, NEW n \in Idx, <<l, m, n>> # <<i, j, k>>
        PROVE  /\ InPd(l, m, n)' <=> InPd(l, m, n)
               /\ InPd(l, m, n) => Leaf(l, m, n)' = Leaf(l, m, n)
    <3>1. CASE l = i /\ m = j
      BY <1>4, <1>6, <2>2, <3>1 DEF InPd
    <3>2. CASE ~(l = i /\ m = j)
      BY <1>3, <1>7, <3>2 DEF InPd, Leaf
    <3> QED
      BY <3>1, <3>2
  <2> QED
    BY <2>1, <2>2 DEF Adds
<1> QED
  BY <1>11, <1>12, <1>13 DEF SoundByIndex

(* Linking a new PDPT to the PML4, with a new page directory.              *)
LEMMA LinkPdpt ==
  ASSUME TypeOK, TypeOK', SoundByIndex,
         NEW i \in Idx, NEW j \in Idx, NEW k \in Idx,
         NEW P, NEW D, NEW e,
         P \in Pages \ tracked, D \in Pages \ tracked, P # D,
         ~AtRoot(i), Present(e),
         tracked' = tracked \cup {P, D},
         table'[D] = [ZeroPage EXCEPT ![k] = e],
         table'[P] = [ZeroPage EXCEPT ![j] = TableEntry(D)],
         table'[Root] = [table[Root] EXCEPT ![i] = TableEntry(P)],
         refs'[D] = refs[D] + 1, refs'[P] = refs[P] + 1,
         \A p \in Pages \ {D, P, Root} : table'[p] = table[p],
         \A p \in Pages \ {D, P} : refs'[p] = refs[p]
  PROVE  SoundByIndex' /\ Adds(i, j, k, e.to)
<1> DEFINE t == TableEntry(D)
           r == TableEntry(P)
<1>0. Present(t) /\ t.to = D /\ Present(r) /\ r.to = P
  BY DEF TableEntry, Present
<1> HIDE DEF t, r
<1>1. Root \in Pages /\ Root \notin {P, D} /\ BootPae \notin {P, D}
  BY DEF SoundByIndex, TypeOK
<1>2. \A l \in Idx : AtRoot(l) => PdptAt(l) \in Pages \ {D, P, Root}
  BY DEF SoundByIndex, TreeByIndex, Structures, TypeOK
<1>3. \A l, m \in Idx : InPdpt(l, m) => PdOf(l, m) \in Pages \ {D, P, Root}
  BY DEF SoundByIndex, TreeByIndex, Structures, TypeOK
<1>4. /\ table'[Root][i] = r /\ \A n \in Idx \ {i} : table'[Root][n] = table[Root][n]
      /\ table'[P][j] = t /\ \A n \in Idx \ {j} : ~Present(table'[P][n])
      /\ table'[D][k] = e /\ \A n \in Idx \ {k} : ~Present(table'[D][n])
  <2>1. table[Root] \in [Idx -> Entry]
    BY <1>1 DEF TypeOK, Entry
  <2> QED
    BY <2>1 DEF ZeroPage, Zero, Present, t, r
<1>5. AtRoot(i)' /\ PdptAt(i)' = P
  BY <1>0, <1>4 DEF AtRoot, PdptAt
<1>6. \A l \in Idx \ {i} : (AtRoot(l)' <=> AtRoot(l)) /\ PdptAt(l)' = PdptAt(l)
  BY <1>4 DEF AtRoot, PdptAt
<1>7. InPdpt(i, j)' /\ PdOf(i, j)' = D /\ \A m \in Idx \ {j} : ~InPdpt(i, m)'
  BY <1>0, <1>4, <1>5 DEF InPdpt, PdOf
<1>8. \A l \in Idx \ {i}, m \in Idx :
         /\ InPdpt(l, m)' <=> InPdpt(l, m)
         /\ InPdpt(l, m) => PdOf(l, m)' = PdOf(l, m)
  BY <1>2, <1>6 DEF InPdpt, PdOf
<1>9. \A m \in Idx : ~InPdpt(i, m)
  BY DEF InPdpt
<1>10. \A p \in Pages \ {D, P, Root} : Entries(p) \in Nat /\ Entries(p)' = Entries(p)
  BY EntriesNat, EntriesSame
<1>11. Entries(D)' = 1 /\ refs'[D] = 1
  <2>1. Present(table'[D][k]) /\ \A n \in Idx \ {k} : ~Present(table'[D][n])
    BY <1>4
  <2>2. Entries(D)' = 1
    BY <2>1, EntriesOne
  <2>3. refs[D] = 0
    BY DEF SoundByIndex, CountsByIndex
  <2> QED
    BY <2>2, <2>3
<1>12. Entries(P)' = 1 /\ refs'[P] = 1
  <2>1. Present(table'[P][j]) /\ \A n \in Idx \ {j} : ~Present(table'[P][n])
    BY <1>0, <1>4
  <2>2. Entries(P)' = 1
    BY <2>1, EntriesOne
  <2>3. refs[P] = 0
    BY DEF SoundByIndex, CountsByIndex
  <2> QED
    BY <2>2, <2>3
<1>13. TreeByIndex'
  <2>1. \A l \in Idx : AtRoot(l)' => PdptAt(l)' \in Structures'
    BY <1>1, <1>5, <1>6 DEF SoundByIndex, TreeByIndex, Structures
  <2>2. \A l, m \in Idx : InPdpt(l, m)' => PdOf(l, m)' \in Structures'
    BY <1>1, <1>7, <1>8 DEF SoundByIndex, TreeByIndex, Structures
  <2>3. \A l, m, n \in Idx : AtRoot(l)' /\ InPdpt(m, n)' => PdptAt(l)' # PdOf(m, n)'
    <3> SUFFICES ASSUME NEW l \in Idx, NEW m \in Idx, NEW n \in Idx, AtRoot(l)', InPdpt(m, n)'
                 PROVE  PdptAt(l)' # PdOf(m, n)'
      OBVIOUS
    <3>1. \/ l = i /\ PdptAt(l)' = P
          \/ l # i /\ AtRoot(l) /\ PdptAt(l)' = PdptAt(l)
      BY <1>5, <1>6
    <3>2. \/ PdOf(m, n)' = D
          \/ InPdpt(m, n) /\ PdOf(m, n)' = PdOf(m, n)
      BY <1>7, <1>8
    <3> QED
      BY <1>2, <1>3, <3>1, <3>2 DEF SoundByIndex, TreeByIndex
  <2>4. \A l, m \in Idx : AtRoot(l)' /\ AtRoot(m)' /\ PdptAt(l)' = PdptAt(m)' => l = m
    BY <1>2, <1>5, <1>6 DEF SoundByIndex, TreeByIndex
  <2>5. \A l, o, m, n \in Idx :
          InPdpt(l, o)' /\ InPdpt(m, n)' /\ PdOf(l, o)' = PdOf(m, n)' => l = m /\ o = n
    <3> SUFFICES ASSUME NEW l \in Idx, NEW o \in Idx, NEW m \in Idx, NEW n \in Idx,
                        InPdpt(l, o)', InPdpt(m, n)', PdOf(l, o)' = PdOf(m, n)'
                 PROVE  l = m /\ o = n
      OBVIOUS
    <3>1. \/ l = i /\ o = j /\ PdOf(l, o)' = D
          \/ InPdpt(l, o) /\ PdOf(l, o)' = PdOf(l, o)
      BY <1>7, <1>8
    <3>2. \/ m = i /\ n = j /\ PdOf(m, n)' = D
          \/ InPdpt(m, n) /\ PdOf(m, n)' = PdOf(m, n)
      BY <1>7, <1>8
    <3> QED
      BY <1>3, <3>1, <3>2 DEF SoundByIndex, TreeByIndex
  <2> QED
    BY <2>1, <2>2, <2>3, <2>4, <2>5 DEF TreeByIndex
<1>14. CountsByIndex'
  <2>1. ASSUME NEW l \in Idx, AtRoot(l)' PROVE refs'[PdptAt(l)'] = Entries(PdptAt(l))'
    <3>1. PICK p : p = PdptAt(l)'
      OBVIOUS
    <3>2. CASE l = i
      BY <1>5, <1>12, <3>1, <3>2 DEF Entries
    <3>3. CASE l # i
      <4>1. p \in Pages \ {D, P, Root} /\ refs[p] = Entries(p)
        BY <1>2, <1>6, <2>1, <3>1, <3>3 DEF SoundByIndex, CountsByIndex
      <4>2. refs'[p] = Entries(p)'
        BY <1>10, <4>1
      <4> QED
        BY <3>1, <4>2 DEF Entries
    <3> QED
      BY <3>2, <3>3
  <2>2. ASSUME NEW l \in Idx, NEW m \in Idx, InPdpt(l, m)'
        PROVE  refs'[PdOf(l, m)'] \in 1 .. Entries(PdOf(l, m))'
    <3>1. PICK p : p = PdOf(l, m)'
      OBVIOUS
    <3>2. CASE l = i
      <4>1. p = D
        BY <1>7, <2>2, <3>1, <3>2
      <4>2. refs'[p] \in 1 .. Entries(p)'
        BY <1>11, <4>1
      <4> QED
        BY <3>1, <4>2 DEF Entries
    <3>3. CASE l # i
      <4>1. p = PdOf(l, m) /\ InPdpt(l, m) /\ p \in Pages \ {D, P, Root}
        BY <1>3, <1>8, <2>2, <3>1, <3>3
      <4>2. refs[p] \in 1 .. Entries(p)
        BY <4>1 DEF SoundByIndex, CountsByIndex
      <4>3. refs'[p] \in 1 .. Entries(p)'
        BY <1>10, <4>1, <4>2
      <4> QED
        BY <3>1, <4>3 DEF Entries
    <3> QED
      BY <3>2, <3>3
  <2>3. \A p \in Pages \ tracked' : refs'[p] = 0
    BY DEF SoundByIndex, Structures, CountsByIndex
  <2> QED
    BY <2>1, <2>2, <2>3 DEF CountsByIndex
<1>15. Adds(i, j, k, e.to)
  <2>1. ~InPd(i, j, k) /\ InPd(i, j, k)' /\ Leaf(i, j, k)' = e.to
    BY <1>4, <1>7, <1>9 DEF InPd, Leaf
  <2>2. ASSUME NEW l \in Idx, NEW m \in Idx, NEW n \in Idx, <<l, m, n>> # <<i, j, k>>
        PROVE  /\ InPd(l, m, n)' <=> InPd(l, m, n)
               /\ InPd(l, m, n) => Leaf(l, m, n)' = Leaf(l, m, n)
    <3>1. CASE l = i
      BY <1>4, <1>7, <1>9, <2>2, <3>1 DEF InPd
    <3>2. CASE l # i
      BY <1>3, <1>8, <3>2 DEF InPd, Leaf
    <3> QED
      BY <3>1, <3>2
  <2> QED
    BY <2>1, <2>2 DEF Adds
<1> QED
  BY <1>13, <1>14, <1>15, <1>1 DEF SoundByIndex

-----------------------------------------------------------------------------
(* map() and unmap() while the tables are sound.                           *)

GetIsByIndex ==
  \A v \in VPages :
    /\ HasPdpt(v) <=> AtRoot(pml4i(v))
    /\ pdpt(v) = PdptAt(pml4i(v))
    /\ HasPd(v) <=> InPdpt(pml4i(v), pdpti(v))
    /\ pd(v) = PdOf(pml4i(v), pdpti(v))
    /\ pde(v) = table[PdOf(pml4i(v), pdpti(v))][pdi(v)]
    /\ ~Astray(v)
    /\ HasPage(v) <=> InPd(pml4i(v), pdpti(v), pdi(v))
    /\ HasPage(v) => Get(v) = Leaf(pml4i(v), pdpti(v), pdi(v))
    /\ ~HasPage(v) => Get(v) = NONE

(* get() reads the entry at the indices of its page, and never strays.     *)
LEMMA GetByIndex == TypeOK /\ SoundByIndex => GetIsByIndex
<1> SUFFICES ASSUME TypeOK, SoundByIndex, NEW v \in VPages
             PROVE  GetIsByIndex!(v)
  BY DEF GetIsByIndex
<1>1. pml4i(v) \in Idx /\ pdpti(v) \in Idx /\ pdi(v) \in Idx
  BY Indices
<1>2. /\ HasPdpt(v) <=> AtRoot(pml4i(v))
      /\ pdpt(v) = PdptAt(pml4i(v))
  BY DEF HasPdpt, AtRoot, pdpt, PdptAt
<1>3. /\ HasPd(v) <=> InPdpt(pml4i(v), pdpti(v))
      /\ pd(v) = PdOf(pml4i(v), pdpti(v))
  BY <1>2 DEF HasPd, InPdpt, pd, PdOf
<1>4. ~Astray(v)
  BY <1>1, <1>3 DEF Astray, SoundByIndex, TreeByIndex, Structures, TypeOK
<1>5. pde(v) = table[PdOf(pml4i(v), pdpti(v))][pdi(v)]
  BY <1>3 DEF pde
<1>6. HasPage(v) <=> InPd(pml4i(v), pdpti(v), pdi(v))
  BY <1>3, <1>4, <1>5 DEF HasPage, InPd
<1> QED
  BY <1>2, <1>3, <1>4, <1>5, <1>6 DEF Get, Leaf

LEMMA GetByIndexNext == TypeOK' /\ SoundByIndex' => GetIsByIndex'
BY GetByIndex, PTL

LEMMA SoundIsByIndexNext == TypeOK' => (Sound' <=> SoundByIndex')
BY SoundIsByIndex, PTL

(* The next state maps v to f, and every other page as this one does.      *)
MapsOne(v, f) ==
  /\ ~HasPage(v) /\ HasPage(v)' /\ Get(v)' = f
  /\ \A u \in VPages \ {v} : (HasPage(u)' <=> HasPage(u)) /\ Get(u)' = Get(u)

(* Adding the entry at a page's indices maps that page and no other.       *)
LEMMA AddsMapsOne ==
  ASSUME TypeOK, TypeOK', SoundByIndex, SoundByIndex',
         NEW v \in VPages, NEW f, Adds(pml4i(v), pdpti(v), pdi(v), f)
  PROVE  MapsOne(v, f)
<1>1. GetIsByIndex /\ GetIsByIndex'
  BY GetByIndex, GetByIndexNext
<1>2. ~HasPage(v) /\ HasPage(v)' /\ Get(v)' = f
  <2>1. (HasPage(v)' <=> InPd(pml4i(v), pdpti(v), pdi(v))')
        /\ (HasPage(v)' => Get(v)' = Leaf(pml4i(v), pdpti(v), pdi(v))')
    BY <1>1 DEF GetIsByIndex
  <2> QED
    BY <1>1, <2>1 DEF GetIsByIndex, Adds
<1>3. ASSUME NEW u \in VPages \ {v}
      PROVE  (HasPage(u)' <=> HasPage(u)) /\ Get(u)' = Get(u)
  <2> DEFINE l == pml4i(u)
             m == pdpti(u)
             n == pdi(u)
  <2>1. l \in Idx /\ m \in Idx /\ n \in Idx
    BY Indices
  <2>2. <<l, m, n>> # <<pml4i(v), pdpti(v), pdi(v)>>
    BY IndicesDetermine
  <2>3. /\ HasPage(u)' <=> InPd(l, m, n)'
        /\ HasPage(u)' => Get(u)' = Leaf(l, m, n)'
        /\ ~HasPage(u)' => Get(u)' = NONE
    BY <1>1 DEF GetIsByIndex
  <2>4. /\ HasPage(u) <=> InPd(l, m, n)
        /\ HasPage(u) => Get(u) = Leaf(l, m, n)
        /\ ~HasPage(u) => Get(u) = NONE
    BY <1>1 DEF GetIsByIndex
  <2>5. /\ InPd(l, m, n)' <=> InPd(l, m, n)
        /\ InPd(l, m, n) => Leaf(l, m, n)' = Leaf(l, m, n)
    BY <2>1, <2>2 DEF Adds
  <2> QED
    BY <2>3, <2>4, <2>5
<1> QED
  BY <1>2, <1>3 DEF MapsOne

(* map() of a page while the tables are sound: they stay sound, and either *)
(* the page is mapped and no other changes, or the machine stops, because  *)
(* the page is mapped already or the pool cannot give two more tables.     *)
MapOutcome(v, f) ==
  \/ status' = "running" /\ MapsOne(v, f)
  \/ /\ status' = "panic" /\ (HasPage(v) \/ Cardinality(Untracked) < 2)
     /\ UNCHANGED <<tracked, refs, table>>

LEMMA SoundUnchanged ==
  ASSUME Sound, UNCHANGED <<tracked, refs, table>>
  PROVE  Sound'
<1>1. PdptSlots' = PdptSlots /\ \A i : PdptAt(i)' = PdptAt(i)
  BY DEF PdptSlots, PdptAt
<1>2. PdSlots' = PdSlots /\ \A s : PdAt(s)' = PdAt(s)
  BY <1>1 DEF PdSlots, PdAt
<1>3. Tree'
  BY <1>1, <1>2 DEF Sound, Tree
<1>4. TablesAllocated'
  BY <1>1, <1>2 DEF Sound, TablesAllocated
<1>5. CountsAgree'
  <2>1. \A i \in PdptSlots : Entries(PdptAt(i))' = Entries(PdptAt(i))
    BY <1>1 DEF Entries
  <2>2. \A s \in PdSlots : Entries(PdAt(s))' = Entries(PdAt(s))
    BY <1>2 DEF Entries
  <2> QED
    BY <1>1, <1>2, <2>1, <2>2 DEF Sound, CountsAgree, Untracked
<1> QED
  BY <1>3, <1>4, <1>5 DEF Sound

LEMMA MapSound ==
  ASSUME TypeOK, Sound, NEW v \in VPages, NEW f \in Nat, NEW fl \in SUBSET FlagBits,
         Map(v, f, fl)
  PROVE  Sound' /\ freed' = freed /\ MapOutcome(v, f)
<1>1. PICK i \in Idx, j \in Idx, k \in Idx : i = pml4i(v) /\ j = pdpti(v) /\ k = pdi(v)
  BY Indices
<1>2. TypeOK' /\ SoundByIndex /\ GetIsByIndex /\ ~Astray(v)
  BY MapType, SoundIsByIndex, GetByIndex DEF GetIsByIndex
<1>3. /\ HasPdpt(v) <=> AtRoot(i)
      /\ pdpt(v) = PdptAt(i)
      /\ HasPd(v) <=> InPdpt(i, j)
      /\ pd(v) = PdOf(i, j)
      /\ HasPage(v) <=> InPd(i, j, k)
  BY <1>1, <1>2 DEF GetIsByIndex
<1>4. PICK e : e = PageEntry(f, fl)
  OBVIOUS
<1>5. Present(e) /\ e.to = f
  BY <1>4 DEF PageEntry, Present
<1>6. ASSUME SoundByIndex', Adds(i, j, k, f) PROVE Sound' /\ MapsOne(v, f)
  BY <1>1, <1>2, <1>6, SoundIsByIndexNext, AddsMapsOne
<1>7. CASE MapEntry(v, f, fl)
  <2>1. CASE Present(pde(v))
    BY <1>2, <1>7, <2>1, SoundUnchanged DEF MapEntry, Panic, MapOutcome, HasPage
  <2>2. CASE ~Present(pde(v))
    <3>1. PICK D : D = PdOf(i, j)
      OBVIOUS
    <3>2. ~InPd(i, j, k) /\ InPdpt(i, j)
      BY <1>3, <1>7, <2>2 DEF MapEntry, HasPage
    <3>3. /\ table' = [table EXCEPT ![D] = [table[D] EXCEPT ![k] = e]]
          /\ refs' = [refs EXCEPT ![D] = refs[D] + 1]
          /\ tracked' = tracked /\ freed' = freed /\ status' = status
      BY <1>1, <1>3, <1>4, <1>7, <2>2, <3>1 DEF MapEntry, Inc
    <3>4. SoundByIndex' /\ Adds(i, j, k, f)
      BY <1>2, <1>5, <3>1, <3>2, <3>3, FillEntry
    <3> QED
      BY <1>6, <3>3, <3>4 DEF MapOutcome, Map
  <2> QED
    BY <2>1, <2>2
<1>8. CASE MapNewPd(v, f, fl)
  <2>1. CASE Untracked = {}
    BY <1>8, <2>1, SoundUnchanged, FS_EmptySet DEF MapNewPd, Panic, MapOutcome
  <2>2. CASE Untracked # {}
    <3>1. PICK D : D = Lowest(Untracked)
      OBVIOUS
    <3>2. PICK P : P = PdptAt(i)
      OBVIOUS
    <3>3. PICK t : t = TableEntry(D)
      OBVIOUS
    <3>4. Present(t) /\ t.to = D
      BY <3>3 DEF TableEntry, Present
    <3>5. D \in Pages \ tracked
      BY <2>2, <3>1, AllocPage
    <3>6. AtRoot(i) /\ ~InPdpt(i, j)
      BY <1>3, <1>8 DEF MapNewPd
    <3>7. P \in Pages /\ P \in tracked /\ P # D
      BY <1>2, <3>2, <3>5, <3>6 DEF SoundByIndex, TreeByIndex, Structures, TypeOK
    <3> DEFINE T0 == [table EXCEPT ![D] = ZeroPage]
               T1 == [T0 EXCEPT ![D] = [T0[D] EXCEPT ![k] = e]]
    <3>8. table' = [T1 EXCEPT ![P] = [T1[P] EXCEPT ![j] = t]]
      BY <1>1, <1>3, <1>4, <1>8, <2>2, <3>1, <3>2, <3>3 DEF MapNewPd
    <3>9. refs' = [[refs EXCEPT ![D] = refs[D] + 1] EXCEPT ![P] = refs[P] + 1]
      BY <1>1, <1>3, <1>8, <2>2, <3>1, <3>2, <3>7 DEF MapNewPd, Inc
    <3>10. tracked' = tracked \cup {D} /\ freed' = freed /\ status' = status
      BY <1>8, <2>2, <3>1 DEF MapNewPd
    <3>11. /\ table'[D] = [ZeroPage EXCEPT ![k] = e]
           /\ table'[P] = [table[P] EXCEPT ![j] = t]
           /\ \A p \in Pages \ {D, P} : table'[p] = table[p]
      BY <3>5, <3>7, <3>8 DEF TypeOK
    <3>12. /\ refs'[D] = refs[D] + 1 /\ refs'[P] = refs[P] + 1
           /\ \A p \in Pages \ {D, P} : refs'[p] = refs[p]
      BY <3>5, <3>7, <3>9 DEF TypeOK
    <3>13. SoundByIndex' /\ Adds(i, j, k, f)
      BY <1>2, <1>5, <3>2, <3>4, <3>5, <3>6, <3>10, <3>11, <3>12, LinkPd
    <3> QED
      BY <1>6, <3>10, <3>13 DEF MapOutcome, Map
  <2> QED
    BY <2>1, <2>2
<1>9. CASE MapNewPdpt(v, f, fl)
  <2>1. CASE Cardinality(Untracked) < 2
    BY <1>9, <2>1, SoundUnchanged DEF MapNewPdpt, Panic, MapOutcome
  <2>2. CASE ~(Cardinality(Untracked) < 2)
    <3>1. PICK P, D : P = Lowest(Untracked) /\ D = Lowest(Untracked \ {P})
      OBVIOUS
    <3>4. P \in Pages \ tracked /\ D \in Pages \ tracked /\ P # D
      <4>1. Cardinality(Untracked) >= 2
        BY <2>2, UntrackedPages
      <4> QED
        BY <3>1, <4>1, AllocTwoPages
    <3>5. ~AtRoot(i) /\ Root \in Pages /\ Root # P /\ Root # D
      BY <1>2, <1>3, <1>9, <3>4 DEF MapNewPdpt, SoundByIndex, TypeOK
    <3> DEFINE T00 == [table EXCEPT ![P] = ZeroPage]
               T0 == [T00 EXCEPT ![D] = ZeroPage]
               T1 == [T0 EXCEPT ![D] = [T0[D] EXCEPT ![k] = e]]
               T2 == [T1 EXCEPT ![P] = [T1[P] EXCEPT ![j] = TableEntry(D)]]
    <3>6. table' = [T2 EXCEPT ![Root] = [T2[Root] EXCEPT ![i] = TableEntry(P)]]
      BY <1>1, <1>4, <1>9, <2>2, <3>1 DEF MapNewPdpt
    <3>7. refs' = [[refs EXCEPT ![D] = refs[D] + 1] EXCEPT ![P] = refs[P] + 1]
      BY <1>9, <2>2, <3>1, <3>4 DEF MapNewPdpt, Inc
    <3>8. tracked' = tracked \cup {P, D} /\ freed' = freed /\ status' = status
      BY <1>9, <2>2, <3>1 DEF MapNewPdpt
    <3>9. /\ table'[D] = [ZeroPage EXCEPT ![k] = e]
          /\ table'[P] = [ZeroPage EXCEPT ![j] = TableEntry(D)]
          /\ table'[Root] = [table[Root] EXCEPT ![i] = TableEntry(P)]
          /\ \A p \in Pages \ {D, P, Root} : table'[p] = table[p]
      BY <3>4, <3>5, <3>6 DEF TypeOK
    <3>10. /\ refs'[D] = refs[D] + 1 /\ refs'[P] = refs[P] + 1
           /\ \A p \in Pages \ {D, P} : refs'[p] = refs[p]
      BY <3>4, <3>7 DEF TypeOK
    <3>11. SoundByIndex' /\ Adds(i, j, k, f)
      <4>1. SoundByIndex' /\ Adds(i, j, k, e.to)
        BY <1>2, <1>5, <3>4, <3>5, <3>8, <3>9, <3>10, LinkPdpt
      <4> QED
        BY <1>5, <4>1
    <3> QED
      BY <1>6, <3>8, <3>11 DEF MapOutcome, Map
  <2> QED
    BY <2>1, <2>2
<1> QED
  BY <1>2, <1>7, <1>8, <1>9 DEF Map

(* unmap() of a page while the tables are sound: no assert fails, and      *)
(* unless a structure is freed the tables stay sound and the same.         *)
LEMMA UnmapSound ==
  ASSUME TypeOK, Sound, NEW v \in VPages, Unmap(v)
  PROVE  /\ status' = "running" /\ table' = table
         /\ freed' \/ (Sound' /\ freed' = freed /\ tracked' = tracked)
<1>1. PICK i \in Idx, j \in Idx, k \in Idx : i = pml4i(v) /\ j = pdpti(v) /\ k = pdi(v)
  BY Indices
<1>2. TypeOK' /\ SoundByIndex /\ GetIsByIndex /\ ~Astray(v)
  BY UnmapType, SoundIsByIndex, GetByIndex DEF GetIsByIndex
<1>3. CASE UnmapKeepPd(v)
  <2>1. PICK D \in Pages : D = pd(v)
    BY <1>3, <1>2 DEF UnmapKeepPd, HasPage, Astray
  <2>2. /\ refs' = [refs EXCEPT ![D] = Dec(refs[D])] /\ Dec(refs[D]) # 0
        /\ tracked' = tracked /\ table' = table /\ freed' = freed /\ status' = status
    BY <1>3, <2>1 DEF UnmapKeepPd
  <2>3. /\ InPdpt(i, j) /\ D = PdOf(i, j)
    BY <1>1, <1>2, <1>3, <2>1 DEF GetIsByIndex, UnmapKeepPd, HasPage
  <2>4. refs[D] \in Nat /\ refs'[D] \in Nat \ {0} /\ refs'[D] <= refs[D]
    <3>1. refs[D] \in Nat /\ refs'[D] = Dec(refs[D])
      BY <2>2 DEF TypeOK
    <3> QED
      BY <2>2, <3>1 DEF Dec
  <2>5. \A p \in Pages \ {D} : refs'[p] = refs[p]
    BY <2>2 DEF TypeOK
  <2>6. TreeByIndex'
    BY <1>2, <2>2 DEF SoundByIndex, TreeByIndex, Structures, AtRoot, InPdpt, PdptAt, PdOf
  <2>7. \A p \in Pages : Entries(p)' = Entries(p) /\ Entries(p) \in Nat
    BY <2>2, EntriesNat, EntriesSame
  <2>8. CountsByIndex'
    <3>1. ASSUME NEW l \in Idx, AtRoot(l)' PROVE refs'[PdptAt(l)'] = Entries(PdptAt(l))'
      <4>1. PICK p \in Pages : p = PdptAt(l) /\ p = PdptAt(l)' /\ p # D /\ refs[p] = Entries(p)
        BY <1>2, <2>2, <2>3, <3>1
           DEF SoundByIndex, TreeByIndex, CountsByIndex, Structures, TypeOK, AtRoot, PdptAt
      <4>2. refs'[p] = Entries(p)'
        BY <2>5, <2>7, <4>1
      <4> QED
        BY <4>1, <4>2 DEF Entries
    <3>2. ASSUME NEW l \in Idx, NEW m \in Idx, InPdpt(l, m)'
          PROVE  refs'[PdOf(l, m)'] \in 1 .. Entries(PdOf(l, m))'
      <4>1. InPdpt(l, m) /\ PdOf(l, m)' = PdOf(l, m)
        BY <2>2, <3>2 DEF InPdpt, PdOf, AtRoot, PdptAt
      <4>2. PICK p \in Pages : p = PdOf(l, m) /\ refs[p] \in 1 .. Entries(p)
        BY <1>2, <4>1 DEF SoundByIndex, TreeByIndex, CountsByIndex, Structures, TypeOK
      <4>3. refs'[p] \in 1 .. Entries(p)'
        BY <2>4, <2>5, <2>7, <4>2
      <4> QED
        BY <4>1, <4>2, <4>3 DEF Entries
    <3>3. \A p \in Pages \ tracked' : refs'[p] = 0
      BY <1>2, <2>2, <2>3, <2>5 DEF SoundByIndex, TreeByIndex, Structures, CountsByIndex
    <3> QED
      BY <3>1, <3>2, <3>3 DEF CountsByIndex
  <2>9. SoundByIndex'
    BY <1>2, <2>2, <2>6, <2>8 DEF SoundByIndex
  <2> QED
    BY <1>2, <2>2, <2>9, SoundIsByIndexNext DEF Unmap
<1>4. CASE UnmapFreePd(v)
  <2>1. AtRoot(i) /\ InPdpt(i, j) /\ pd(v) = PdOf(i, j) /\ pdpt(v) = PdptAt(i)
    BY <1>1, <1>2, <1>4 DEF GetIsByIndex, UnmapFreePd, HasPage, HasPd
  <2>2. pd(v) \in tracked /\ pdpt(v) \in tracked /\ pdpt(v) # pd(v)
    BY <1>2, <2>1 DEF SoundByIndex, TreeByIndex, Structures
  <2>3. freed' = TRUE /\ table' = table /\ status' = status
    BY <1>4, <2>2 DEF UnmapFreePd, Untrack
  <2> QED
    BY <2>3 DEF Unmap
<1>5. CASE UnmapNotFound(v)
  BY <1>5, SoundUnchanged DEF UnmapNotFound, pmvars, Unmap
<1> QED
  BY <1>2, <1>3, <1>4, <1>5 DEF Unmap

-----------------------------------------------------------------------------
(* The tables the loader leaves.                                           *)

(* The first pages are under the first entries. *)
LEMMA FirstPages ==
  ASSUME NEW v \in Idx
  PROVE  v \in VPages /\ pml4i(v) = 0 /\ pdpti(v) = 0 /\ pdi(v) = v
<1>1. v \in Nat /\ Fanout \in Nat \ {0} /\ v < Fanout * 1 /\ 0 \in 0 .. (Fanout - 1)
  BY DEF Idx
<1>2. v \div Fanout = 0
  <2>1. v \div Fanout < 1
    BY <1>1, DivBelow
  <2>2. v \div Fanout \in Nat
    BY <1>1, DivMod
  <2> QED
    BY <2>1, <2>2
<1>3. (v \div Fanout) \div Fanout = v \div (Fanout * Fanout)
  BY <1>1, DivTwice
<1>4. 0 \div Fanout = 0 /\ 0 % Fanout = 0
  BY <1>1, DivBelow, DivMod
<1>5. v = Fanout * (v \div Fanout) + (v % Fanout)
  BY <1>1, DivMod
<1>6. v < Fanout * Fanout * Fanout
  <2>1. Fanout * Fanout >= 1 * 1 /\ Fanout * Fanout \in Nat
    OBVIOUS
  <2>2. (Fanout * Fanout) * Fanout >= 1 * Fanout
    BY <2>1
  <2> QED
    BY <1>1, <2>2
<1>7. v % Fanout = v
  BY <1>1, <1>2, <1>5
<1> QED
  BY <1>1, <1>2, <1>3, <1>4, <1>6, <1>7 DEF pml4i, pdpti, pdi, VPages

(* The four pages that are taken over, and a count for each of their       *)
(* entries.                                                                *)
Inherited ==
  /\ tracked = {Root, BootPae, BootPdpt, BootPd}
  /\ \A p \in tracked : table[p] = BootContents(p)
  /\ \A p \in Pages : refs[p] = IF p \in tracked THEN Entries(p) ELSE 0

LEMMA BootPages ==
  /\ Root \in Pages /\ BootPae \in Pages /\ BootPdpt \in Pages /\ BootPd \in Pages
  /\ 0 \in Idx /\ 1 \in Idx /\ 2 \in Idx
BY DEF Root, BootPae, BootPdpt, BootPd, Pages, Idx

(* They are sound, and map the first three pages. *)
LEMMA InheritedSound ==
  ASSUME TypeOK, Inherited
  PROVE  Sound /\ \A v \in 0 .. 2 : HasPage(v) /\ Get(v) = BootMap[v]
<1>1. /\ table[Root] = [ZeroPage EXCEPT ![0] = [to |-> BootPdpt, flags |-> {F_PRESENT}]]
      /\ table[BootPdpt] = [ZeroPage EXCEPT ![0] = [to |-> BootPd, flags |-> {F_PRESENT}]]
      /\ table[BootPd] = BootTable(3)
  BY DEF Inherited, BootContents, Root, BootPae, BootPdpt, BootPd
<1>2. \A i \in Idx : (AtRoot(i) <=> i = 0) /\ PdptAt(0) = BootPdpt
  BY <1>1, BootPages DEF AtRoot, PdptAt, Present, ZeroPage, Zero
<1>3. \A i, j \in Idx : (InPdpt(i, j) <=> i = 0 /\ j = 0) /\ PdOf(0, 0) = BootPd
  BY <1>1, <1>2, BootPages DEF InPdpt, PdOf, Present, ZeroPage, Zero
<1>4. \A k \in 0 .. 2 : k \in Idx /\ InPd(0, 0, k) /\ Leaf(0, 0, k) = BootMap[k]
  <2>1. \A k \in 0 .. 2 : k \in Idx /\ table[BootPd][k] = [to |-> BootMap[k], flags |-> {F_PRESENT, F_PS}]
    BY <1>1 DEF BootTable, Idx
  <2> QED
    BY <1>3, <2>1, BootPages DEF InPd, Leaf, Present
<1>5. TreeByIndex
  BY <1>2, <1>3 DEF TreeByIndex, Structures, Inherited, Root, BootPae, BootPdpt, BootPd
<1>6. CountsByIndex
  <2>1. \A p \in tracked : refs[p] = Entries(p) /\ Entries(p) \in Nat
    BY BootPages, EntriesNat DEF Inherited
  <2>2. Entries(BootPd) >= 1
    BY <1>3, <1>4, BootPages, EntriesPositive DEF InPd
  <2>3. \A p \in Pages \ tracked : refs[p] = 0
    BY DEF Inherited
  <2> QED
    BY <1>2, <1>3, <2>1, <2>2, <2>3, BootPages DEF CountsByIndex, Inherited
<1>7. SoundByIndex
  BY <1>5, <1>6 DEF SoundByIndex, Inherited
<1>8. Sound /\ GetIsByIndex
  BY <1>7, SoundIsByIndex, GetByIndex
<1>9. ASSUME NEW v \in 0 .. 2 PROVE HasPage(v) /\ Get(v) = BootMap[v]
  <2>1. v \in Idx /\ v \in VPages /\ pml4i(v) = 0 /\ pdpti(v) = 0 /\ pdi(v) = v
    BY <1>4, FirstPages
  <2> QED
    BY <1>4, <1>8, <2>1 DEF GetIsByIndex
<1> QED
  BY <1>8, <1>9

(* Init has them, and nothing else in the pool. *)
LEMMA InitSound == Init => Inherited /\ Sound /\ HasPage(0)
<1> SUFFICES ASSUME Init PROVE Inherited /\ Sound /\ HasPage(0)
  OBVIOUS
<1>1. TypeOK
  BY InitType
<1>2. \A p \in Pages : table[p] = BootContents(p) /\ refs[p] = Entries(p)
  BY DEF Init
<1>3. ASSUME NEW p \in Pages \ tracked PROVE refs[p] = 0
  <2>1. table[p] = ZeroPage
    BY <1>2, <1>3 DEF Init, BootContents, Root, BootPae, BootPdpt, BootPd
  <2>2. PresentIn(p) = {}
    BY <2>1 DEF PresentIn, ZeroPage, Zero, Present
  <2> QED
    BY <1>2, <2>2, EntriesNat, FS_EmptySet
<1>4. Inherited
  BY <1>2, <1>3, BootPages DEF Inherited, Init
<1> QED
  BY <1>1, <1>4, InheritedSound

-----------------------------------------------------------------------------
(* The specification.                                                      *)

PagingInv == TypeOK /\ SoundUntilFreed

(* Every call that map() and unmap() are made with keeps the invariant,    *)
(* whoever makes it.                                                       *)
LEMMA MapInv ==
  ASSUME PagingInv, NEW v \in VPages, NEW f \in Nat, NEW fl \in SUBSET FlagBits, Map(v, f, fl)
  PROVE  PagingInv' /\ freed' = freed
<1>1. TypeOK'
  BY MapType DEF PagingInv
<1>2. freed' = freed
  BY DEF Map, MapEntry, MapNewPd, MapNewPdpt, GoAstray, Panic
<1> QED
  BY <1>1, <1>2, MapSound DEF PagingInv, SoundUntilFreed

LEMMA UnmapInv ==
  ASSUME PagingInv, NEW v \in VPages, Unmap(v)
  PROVE  PagingInv' /\ (freed => freed')
<1>1. TypeOK'
  BY UnmapType DEF PagingInv
<1>2. freed => freed'
  BY DEF Unmap, UnmapKeepPd, UnmapFreePd, UnmapNotFound, GoAstray, Panic, pmvars
<1> QED
  BY <1>1, <1>2, UnmapSound DEF PagingInv, SoundUntilFreed, TypeOK

(* A step that leaves the paging structures alone keeps it. *)
LEMMA PagingUnchanged ==
  ASSUME PagingInv, UNCHANGED <<tracked, refs, table, freed>>,
         status' \in {"running", "panic", "wild"}
  PROVE  PagingInv'
BY SoundUnchanged DEF PagingInv, TypeOK, SoundUntilFreed

(* The invariant holds in every state. *)
LEMMA PagingInvariant == Spec => []PagingInv
<1>1. Init => PagingInv
  BY InitType, InitSound DEF PagingInv, SoundUntilFreed
<1>2. ASSUME PagingInv, [Next]_pmvars PROVE PagingInv'
  <2>1. ASSUME NEW v \in MapSet, NEW f \in Frames, Map(v, Phys(f), {}) PROVE PagingInv'
    <3>1. Phys(f) \in Nat /\ {} \in SUBSET FlagBits /\ v \in VPages
      BY FramesAssumption, ClientPagesAssumption DEF Phys
    <3> QED
      BY <1>2, <2>1, <3>1, MapInv
  <2>2. ASSUME NEW v \in UnmapSet, Unmap(v) PROVE PagingInv'
    BY <1>2, <2>2, UnmapInv, ClientPagesAssumption
  <2>3. CASE UNCHANGED pmvars
    BY <1>2, <2>3, PagingUnchanged DEF pmvars, PagingInv, TypeOK
  <2> QED
    BY <1>2, <2>1, <2>2, <2>3 DEF Next, Stopped
<1> QED
  BY <1>1, <1>2, PTL DEF Spec

(***************************************************************************)
(* TablesStaySound: until a structure is freed the tables reachable from   *)
(* the PML4 are a tree of allocated pages of the pool whose reference      *)
(* counts agree with their entries (pm.cpp:40-134, :195-258), for every    *)
(* pool, however close to its end, and every order of calls.               *)
(***************************************************************************)
THEOREM TablesStaySound == Spec => []SoundUntilFreed
BY PagingInvariant, PTL DEF PagingInv

(* StopsForCause: a machine that stops before a structure is freed panics, *)
(* and does so for a page that is mapped or for want of tables.            *)
StopsForCause ==
  (status = "running" /\ status' # "running" /\ ~freed) =>
    /\ status' = "panic"
    /\ (\E v \in MapSet : HasPage(v)) \/ Cardinality(Untracked) < 2

(***************************************************************************)
(* NoStrayUntilFreed: until a structure is freed no walk takes a physical  *)
(* page for a table, no assert of pm.cpp fails in unmap(), and map() stops *)
(* the machine only because the page is mapped or the pool is short of the *)
(* two tables it may need (pm.cpp:40-134).                                 *)
(***************************************************************************)
THEOREM NoStrayUntilFreed == Spec => [][StopsForCause]_pmvars
<1>1. ASSUME PagingInv, Next PROVE StopsForCause
  <2> SUFFICES ASSUME status = "running", status' # "running", ~freed
               PROVE  /\ status' = "panic"
                      /\ (\E v \in MapSet : HasPage(v)) \/ Cardinality(Untracked) < 2
    BY DEF StopsForCause
  <2>1. ASSUME NEW v \in MapSet, NEW f \in Frames, Map(v, Phys(f), {})
        PROVE  status' = "panic" /\ (HasPage(v) \/ Cardinality(Untracked) < 2)
    <3>1. Phys(f) \in Nat /\ {} \in SUBSET FlagBits /\ v \in VPages
      BY FramesAssumption, ClientPagesAssumption DEF Phys
    <3> QED
      BY <1>1, <2>1, <3>1, MapSound DEF PagingInv, SoundUntilFreed, MapOutcome
  <2>2. ASSUME NEW v \in UnmapSet, Unmap(v) PROVE FALSE
    BY <1>1, <2>2, UnmapSound, ClientPagesAssumption DEF PagingInv, SoundUntilFreed
  <2> QED
    BY <1>1, <2>1, <2>2 DEF Next, Stopped, pmvars
<1> QED
  BY <1>1, PagingInvariant, PTL DEF Spec

(***************************************************************************)
(* PagingImplementsSpace: get() shows a partial function that map() gives  *)
(* one page at a time and that keeps every page until a structure is freed.*)
(***************************************************************************)
THEOREM PagingImplementsSpace == Spec => AsAddressSpace
<1> DEFINE space == [v \in VPages |-> Get(v)]
<1>1. ASSUME Init PROVE Abstract!Init
  <2>1. TypeOK /\ SoundByIndex /\ 0 \in VPages /\ HasPage(0)
    BY <1>1, InitType, InitSound, SoundIsByIndex DEF VPages
  <2>2. InPd(pml4i(0), pdpti(0), pdi(0)) /\ Get(0) = Leaf(pml4i(0), pdpti(0), pdi(0))
    BY <2>1, GetByIndex DEF GetIsByIndex
  <2>3. Get(0) \in Nat
    BY <2>1, <2>2, Indices
       DEF InPd, InPdpt, Leaf, SoundByIndex, TreeByIndex, Structures, TypeOK
  <2>4. Get(0) # NONE
    BY <2>3 DEF NONE
  <2> QED
    BY <1>1, <2>1, <2>4 DEF Init, Abstract!Init
<1>2. ASSUME PagingInv, [Next]_pmvars
      PROVE  [Abstract!Next]_<<space, freed>>
  <2>1. CASE UNCHANGED <<table, freed>>
    <3>1. \A v \in VPages : Get(v)' = Get(v)
      BY <2>1 DEF Get, HasPage, HasPd, HasPdpt, Astray, pde, pd, pdpt
    <3> QED
      BY <2>1, <3>1
  <2>2. CASE freed'
    BY <2>2 DEF Abstract!Next, Abstract!Lapse, PagingInv, TypeOK
  <2>3. ASSUME NEW v \in VPages, NEW f \in Nat, MapsOne(v, f), freed' = freed, ~freed
        PROVE  Abstract!Next
    <3>1. space[v] = NONE
      BY <2>3 DEF MapsOne, Get
    <3>2. \A u \in VPages \ {v} : Get(u)' = Get(u)
      BY <2>3 DEF MapsOne
    <3>3. space' = [space EXCEPT ![v] = space'[v]]
      BY <3>2
    <3>4. Abstract!Map(v)
      BY <2>3, <3>1, <3>3 DEF Abstract!Map
    <3> QED
      BY <3>4 DEF Abstract!Next
  <2>4. ASSUME NEW v \in MapSet, NEW f \in Frames, Map(v, Phys(f), {}), ~freed'
        PROVE  [Abstract!Next]_<<space, freed>>
    <3>1. Phys(f) \in Nat /\ {} \in SUBSET FlagBits /\ v \in VPages
      BY FramesAssumption, ClientPagesAssumption DEF Phys
    <3>2. freed' = freed /\ MapOutcome(v, Phys(f)) /\ ~freed
      <4>1. freed' = freed
        BY <1>2, <2>4, <3>1, MapInv
      <4> QED
        BY <1>2, <2>4, <3>1, <4>1, MapSound DEF PagingInv, SoundUntilFreed
    <3> QED
      BY <2>1, <2>3, <3>1, <3>2 DEF MapOutcome
  <2>5. ASSUME NEW v \in UnmapSet, Unmap(v), ~freed'
        PROVE  UNCHANGED <<table, freed>>
    <3>1. PagingInv' /\ (freed => freed')
      BY <1>2, <2>5, UnmapInv, ClientPagesAssumption
    <3> QED
      BY <1>2, <2>5, <3>1, UnmapSound, ClientPagesAssumption DEF PagingInv, SoundUntilFreed
  <2>6. CASE UNCHANGED pmvars
    BY <2>1, <2>6 DEF pmvars
  <2> QED
    BY <1>2, <2>1, <2>2, <2>4, <2>5, <2>6 DEF Next, Stopped
<1> QED
  BY <1>1, <1>2, PagingInvariant, PTL DEF Spec, AsAddressSpace, Abstract!Spec

=============================================================================
