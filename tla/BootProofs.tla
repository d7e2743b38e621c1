----------------------------- MODULE BootProofs -----------------------------
(***************************************************************************)
(* Proofs about the loader, from its first instruction to the structures   *)
(* the kernel takes over, for every pool, page size, list of modules and   *)
(* kernel that Boot allows.                                                *)
(***************************************************************************)
EXTENDS Boot, PagingProofs

USE FanoutAssumption, PoolAssumption, BootAssumption

-----------------------------------------------------------------------------
(* The stages.                                                             *)

(* The PAE tables are complete. *)
PaeStages == {"apply", "pae", "pm", "mods", "addr", "elf", "seg", "off"}

(* The 64-bit tables are complete. *)
LongStages == {"cr3", "enter", "jump", "entry", "validate", "retain"}

BootStages ==
  {"pdpt", "low", "high"} \cup PaeStages \cup {"long0", "long1", "long2"} \cup LongStages
    \cup {"retained"}

(* The stages from the first 64-bit table on, which follow load_elf()'s loop. *)
AfterCopy == {"off", "long0", "long1", "long2"} \cup LongStages \cup {"retained"}

(* What the kernel does before mm::init() *)
KernelEnters ==
  \/ LongEnter
  \/ /\ At("entry") /\ stage' = "validate"
     /\ UNCHANGED <<pmvars, mem, input, loadAddr, seg, loaderData, cpu>>
  \/ Validate
  \/ Retain

BootStep == LoaderStep \/ KernelEnters

-----------------------------------------------------------------------------
(* The pages of the pool the loader's allocator finds.                     *)

LEMMA LowestIs ==
  ASSUME NEW S \in SUBSET Nat, NEW x \in S, \A q \in S : x <= q
  PROVE  Lowest(S) = x
<1>1. Lowest(S) \in S /\ Lowest(S) <= x
  BY LowestInSet
<1>2. x <= Lowest(S)
  BY <1>1
<1>3. x \in Nat /\ Lowest(S) \in Nat
  BY <1>1
<1> HIDE DEF Lowest
<1> QED
  BY <1>1, <1>2, <1>3

(* The loader takes the second page of the pool first, *)
LEMMA FreePages ==
  /\ LoaderFree \subseteq Pages
  /\ LoaderFree \in SUBSET Nat /\ LoaderFree \ {BootPdpt} \in SUBSET Nat
  /\ \A p \in {Root, BootPae, BootPdpt, BootPd} : p \notin tracked => p \in LoaderFree
<1>1. LoaderPool \subseteq Pages /\ 0 .. BootPd \subseteq LoaderPool /\ Pages \subseteq Nat
  BY DEF Pages
<1>2. {Root, BootPae, BootPdpt, BootPd} \subseteq LoaderPool
  BY <1>1 DEF Root, BootPae, BootPdpt, BootPd
<1> QED
  BY <1>1, <1>2 DEF LoaderFree

LEMMA SecondPage == tracked = {Root} => Lowest(LoaderFree) = BootPae
<1> SUFFICES ASSUME tracked = {Root} PROVE Lowest(LoaderFree) = BootPae
  OBVIOUS
<1>1. BootPae \in LoaderFree /\ \A q \in LoaderFree : BootPae <= q
  BY FreePages DEF LoaderFree, Root, BootPae, Pages
<1> QED
  BY <1>1, FreePages, LowestIs

(* and then the third and the fourth. *)
LEMMA ThirdPage ==
  ASSUME tracked = {Root, BootPae}
  PROVE  Lowest(LoaderFree) = BootPdpt /\ Lowest(LoaderFree \ {BootPdpt}) = BootPd
<1>1. BootPdpt \in LoaderFree /\ \A q \in LoaderFree : BootPdpt <= q
  BY FreePages DEF LoaderFree, Root, BootPae, BootPdpt, Pages
<1>2. BootPd \in LoaderFree \ {BootPdpt} /\ \A q \in LoaderFree \ {BootPdpt} : BootPd <= q
  BY FreePages DEF LoaderFree, Root, BootPae, BootPdpt, BootPd, Pages
<1> QED
  BY <1>1, <1>2, FreePages, LowestIs

-----------------------------------------------------------------------------
(* The tables.                                                             *)

PaeTables(n) ==
  /\ tracked = {Root, BootPae}
  /\ table[Root][0] = SmallEntry(BootPae)
  /\ table[BootPae] = BootTable(n)

LongTables(n) ==
  /\ tracked = {Root, BootPae, BootPdpt, BootPd}
  /\ \A p \in {Root, BootPae, BootPdpt} : table[p] = BootContents(p)
  /\ table[BootPd] = BootTable(n)

(* At each stage the tables that are built so far are exact, in whatever   *)
(* pages of the pool: dirty memory does not show in them.                  *)
TablesInv ==
  /\ tracked \subseteq Pages /\ table \in Tables /\ freed = FALSE
  /\ stage # "retained" => refs = [p \in Pages |-> 0]
  /\ stage = "pdpt" => tracked = {}
  /\ stage = "low" => tracked = {Root} /\ table[Root][0] = Zero
  /\ stage = "high" => PaeTables(1)
  /\ stage \in PaeStages => PaeTables(2)
  /\ stage = "long0" =>
       tracked = {Root, BootPae} /\ table[Root] = ZeroPage /\ table[BootPae] = BootTable(2)
  /\ stage = "long1" => LongTables(1)
  /\ stage = "long2" => LongTables(2)
  /\ stage \in LongStages => LongTables(3)
  /\ stage = "retained" => Inherited /\ refs \in [Pages -> Nat]

(* One more entry of a table of the loader. *)
LEMMA FillBootTable ==
  ASSUME NEW n \in 0 .. 2
  PROVE  /\ [BootTable(n) EXCEPT ![n] = BigPage(n)] = BootTable(n + 1)
         /\ BootTable(0) = ZeroPage /\ BootTable(n) \in [Idx -> Entry]
         /\ BigPage(n) \in Entry
<1>1. BootMap[n] = Phys(n) /\ \A k \in 0 .. 2 : BootMap[k] \in Nat /\ Phys(n) \in Nat
  BY KernelsAssumption, FramesAssumption DEF BootMap, Phys, Window
<1>2. BigPage(n) = [to |-> BootMap[n], flags |-> {F_PRESENT, F_PS}]
  BY <1>1 DEF BigPage, PageEntry
<1>3. BootTable(0) = ZeroPage
  BY DEF BootTable, ZeroPage, Idx
<1>4. BootTable(n) \in [Idx -> Entry] /\ BigPage(n) \in Entry
  BY <1>1, <1>2 DEF BootTable, Zero, Entry, FlagBits, F_PRESENT, F_PS, Idx
<1>5. [BootTable(n) EXCEPT ![n] = BigPage(n)] = BootTable(n + 1)
  <2> DEFINE T == [BootTable(n) EXCEPT ![n] = BigPage(n)]
  <2>1. /\ DOMAIN T = Idx
        /\ \A k \in Idx : T[k] = IF k = n THEN BigPage(n) ELSE BootTable(n)[k]
    BY DEF BootTable
  <2>2. ASSUME NEW k \in Idx PROVE T[k] = BootTable(n + 1)[k]
    <3>1. k \in Nat /\ (k < n + 1 <=> k < n \/ k = n)
      BY DEF Idx
    <3>2. \A m \in 0 .. 3 :
            BootTable(m)[k] = IF k < m THEN [to |-> BootMap[k], flags |-> {F_PRESENT, F_PS}] ELSE Zero
      BY DEF BootTable
    <3>3. n + 1 \in 0 .. 3 /\ n \in 0 .. 3
      OBVIOUS
    <3> QED
      BY <1>2, <2>1, <3>1, <3>2, <3>3
  <2>3. T = [k \in Idx |-> T[k]] /\ BootTable(n + 1) = [k \in Idx |-> BootTable(n + 1)[k]]
    BY <2>1 DEF BootTable
  <2> QED
    BY <2>2, <2>3
<1> QED
  BY <1>3, <1>4, <1>5

(* Reading what has been written. *)
LEMMA EntriesRead ==
  /\ Present(SmallEntry(BootPae)) /\ SmallEntry(BootPae).to = BootPae
  /\ ~Present(Zero) /\ Zero \in Entry
  /\ \A p \in Pages : SmallEntry(p) \in Entry
  /\ ZeroPage \in [Idx -> Entry] /\ \A k \in Idx : ZeroPage[k] = Zero
BY DEF Present, SmallEntry, Zero, ZeroPage, Entry, FlagBits, F_PRESENT, Pages

LEMMA NewPdptTables ==
  ASSUME TablesInv, NewPdpt
  PROVE  TablesInv'
<1>1. /\ stage = "pdpt" /\ stage' = "low" /\ tracked' = tracked \cup {Root}
      /\ table' = [table EXCEPT ![Root] = PaeCleared] /\ refs' = refs /\ freed' = freed
  BY DEF NewPdpt, At
<1>2. PaeCleared \in [Idx -> Entry] /\ PaeCleared[0] = Zero
  BY EntriesRead, BootPages DEF PaeCleared, TablesInv, Tables
<1>3. table' \in Tables /\ table'[Root] = PaeCleared
  BY <1>1, <1>2, BootPages DEF TablesInv, Tables
<1> QED
  BY <1>1, <1>2, <1>3, BootPages DEF TablesInv, PaeStages, LongStages

LEMMA PaeMapTables ==
  ASSUME TablesInv, MapLow \/ MapHigh
  PROVE  TablesInv'
<1>1. CASE MapLow
  <2>1. /\ stage = "low" /\ stage' = "high" /\ refs' = refs /\ freed' = freed /\ PaeMap(0, 0)
        /\ tracked = {Root} /\ table[Root][0] = Zero /\ table \in Tables
    BY <1>1 DEF MapLow, At, TablesInv
  <2>2. /\ tracked' = {Root, BootPae}
        /\ table' = [table EXCEPT ![BootPae] = [ZeroPage EXCEPT ![0] = BigPage(0)],
                                  ![Root][0] = SmallEntry(BootPae)]
    BY <2>1, EntriesRead, SecondPage DEF PaeMap
  <2>3. [ZeroPage EXCEPT ![0] = BigPage(0)] = BootTable(1) /\ BootTable(1) \in [Idx -> Entry]
    BY FillBootTable
  <2>4. table'[BootPae] = BootTable(1) /\ table'[Root][0] = SmallEntry(BootPae) /\ table' \in Tables
    BY <2>1, <2>2, <2>3, EntriesRead, BootPages DEF Tables, Root, BootPae
  <2> QED
    BY <2>1, <2>2, <2>4, BootPages DEF TablesInv, PaeTables, PaeStages, LongStages
<1>2. CASE MapHigh
  <2>1. /\ stage = "high" /\ stage' = "apply" /\ refs' = refs /\ freed' = freed /\ PaeMap(1, 1)
        /\ PaeTables(1) /\ table \in Tables
    BY <1>2 DEF MapHigh, At, TablesInv
  <2>2. tracked' = tracked /\ table' = [table EXCEPT ![BootPae][1] = BigPage(1)]
    BY <2>1, EntriesRead DEF PaeMap, PaePd, PaeTables
  <2>3. [BootTable(1) EXCEPT ![1] = BigPage(1)] = BootTable(2) /\ BootTable(2) \in [Idx -> Entry]
    BY FillBootTable
  <2>4. table'[BootPae] = BootTable(2) /\ table'[Root] = table[Root] /\ table' \in Tables
    BY <2>1, <2>2, <2>3, BootPages DEF Tables, PaeTables, Root, BootPae
  <2> QED
    BY <2>1, <2>2, <2>4, BootPages DEF TablesInv, PaeTables, PaeStages, LongStages
<1> QED
  BY <1>1, <1>2

(* The tables stay, and the stage stays among those they belong to. *)
LEMMA KeepTables ==
  ASSUME TablesInv, UNCHANGED <<tracked, refs, table, freed>>,
         \/ stage' = stage
         \/ stage \in PaeStages /\ stage' \in PaeStages
         \/ stage \in LongStages /\ stage' \in LongStages
  PROVE  TablesInv'
<1>1. Entries(0)' = Entries(0) /\ \A p : Entries(p)' = Entries(p)
  BY DEF Entries
<1>2. Inherited => Inherited'
  BY <1>1 DEF Inherited
<1>3. \A n : (PaeTables(n) => PaeTables(n)') /\ (LongTables(n) => LongTables(n)')
  BY DEF PaeTables, LongTables
<1> QED
  BY <1>2, <1>3 DEF TablesInv, PaeStages, LongStages

(* Unmapping the window clears an entry that is clear. *)
LEMMA WindowTables ==
  ASSUME TablesInv, stage = "seg", stage' = stage, table' = PaeUnmapped(Window),
         UNCHANGED <<tracked, refs, freed>>
  PROVE  TablesInv'
<1>1. PaeTables(2) /\ table \in Tables
  BY DEF TablesInv, PaeStages
<1>2. BootTable(2)[Window] = Zero /\ Window \in Idx
  BY DEF BootTable, Window, Idx
<1>3. table' = [table EXCEPT ![BootPae][Window] = Zero]
  BY <1>1, EntriesRead DEF PaeUnmapped, PaePd, PaeTables
<1>4. table' = table
  BY <1>1, <1>2, <1>3, BootPages DEF Tables, PaeTables
<1> QED
  BY <1>4, KeepTables

LEMMA NewPml4Tables ==
  ASSUME TablesInv, NewPml4
  PROVE  TablesInv'
<1>1. /\ stage = "off" /\ stage' = "long0" /\ tracked' = tracked /\ refs' = refs /\ freed' = freed
      /\ table' = [table EXCEPT ![Root] = ZeroPage] /\ PaeTables(2) /\ table \in Tables
  BY DEF NewPml4, At, TablesInv, PaeStages
<1>2. table' \in Tables /\ table'[Root] = ZeroPage /\ table'[BootPae] = table[BootPae]
  BY <1>1, EntriesRead, BootPages DEF Tables, Root, BootPae
<1> QED
  BY <1>1, <1>2 DEF TablesInv, PaeTables, PaeStages, LongStages

(* The first page takes a PDPT and a PD, in the two pages that follow. *)
LEMMA FirstLongTables ==
  ASSUME TablesInv, LongStep("long0", "long1", 0, 0)
  PROVE  TablesInv'
<1>1. /\ stage = "long0" /\ stage' = "long1" /\ refs' = refs /\ freed' = freed /\ LongMap(0, 0)
      /\ tracked = {Root, BootPae} /\ table[Root] = ZeroPage /\ table[BootPae] = BootTable(2)
      /\ table \in Tables
  BY DEF LongStep, At, TablesInv
<1>2. pml4i(0) = 0 /\ pdpti(0) = 0 /\ pdi(0) = 0
  BY FirstPages, BootPages
<1>3. ~HasPdpt(0) /\ ~HasPd(0)
  BY <1>1, <1>2, EntriesRead, BootPages DEF HasPdpt, HasPd
<1>4. /\ tracked' = {Root, BootPae, BootPdpt, BootPd}
      /\ table' = [table EXCEPT ![BootPd] = [ZeroPage EXCEPT ![0] = BigPage(0)],
                                ![BootPdpt] = [ZeroPage EXCEPT ![0] = SmallEntry(BootPd)],
                                ![Root][0] = SmallEntry(BootPdpt)]
  BY <1>1, <1>2, <1>3, ThirdPage DEF LongMap
<1>5. [ZeroPage EXCEPT ![0] = BigPage(0)] = BootTable(1) /\ BootTable(1) \in [Idx -> Entry]
  BY FillBootTable
<1>6. BootPd # BootPdpt /\ BootPdpt # Root /\ BootPd # Root /\ BootPae \notin {Root, BootPdpt, BootPd}
  BY DEF BootPd, BootPdpt, BootPae, Root
<1>7. /\ [ZeroPage EXCEPT ![0] = SmallEntry(BootPd)] \in [Idx -> Entry]
      /\ [ZeroPage EXCEPT ![0] = SmallEntry(BootPdpt)] \in [Idx -> Entry]
  BY EntriesRead, BootPages
<1>8. /\ table'[BootPd] = BootTable(1)
      /\ table'[BootPdpt] = [ZeroPage EXCEPT ![0] = SmallEntry(BootPd)]
      /\ table'[Root] = [ZeroPage EXCEPT ![0] = SmallEntry(BootPdpt)]
      /\ table'[BootPae] = table[BootPae]
  BY <1>1, <1>4, <1>5, <1>6, BootPages DEF Tables
<1>9. table' \in Tables
  BY <1>1, <1>4, <1>5, <1>6, <1>7, BootPages DEF Tables
<1>10. \A p \in {Root, BootPae, BootPdpt} : table'[p] = BootContents(p)
  BY <1>1, <1>8 DEF BootContents, SmallEntry, BootPd, BootPdpt, BootPae, Root
<1>11. LongTables(1)'
  BY <1>4, <1>8, <1>10 DEF LongTables
<1> QED
  BY <1>1, <1>4, <1>9, <1>11, BootPages DEF TablesInv, PaeStages, LongStages

(* The walk of the tables that are there. *)
LEMMA LongWalk ==
  ASSUME NEW n \in 1 .. 3, LongTables(n), NEW v \in 0 .. 2
  PROVE  /\ v \in Idx /\ pdi(v) = v /\ pdpt(v) = BootPdpt /\ pd(v) = BootPd
         /\ HasPdpt(v) /\ HasPd(v) /\ ~Astray(v) /\ pde(v) = table[BootPd][v]
<1>1. v \in Idx /\ pml4i(v) = 0 /\ pdpti(v) = 0 /\ pdi(v) = v
  BY FirstPages DEF Idx
<1>2. /\ table[Root] = [ZeroPage EXCEPT ![0] = [to |-> BootPdpt, flags |-> {F_PRESENT}]]
      /\ table[BootPdpt] = [ZeroPage EXCEPT ![0] = [to |-> BootPd, flags |-> {F_PRESENT}]]
  BY DEF LongTables, BootContents, BootPd, BootPdpt, BootPae, Root
<1>3. /\ table[Root][0] = [to |-> BootPdpt, flags |-> {F_PRESENT}]
      /\ table[BootPdpt][0] = [to |-> BootPd, flags |-> {F_PRESENT}]
  BY <1>2, BootPages DEF ZeroPage
<1>4. pdpt(v) = BootPdpt /\ HasPdpt(v)
  BY <1>1, <1>3 DEF pdpt, HasPdpt, Present
<1>5. pd(v) = BootPd /\ HasPd(v)
  BY <1>1, <1>3, <1>4 DEF pd, HasPd, Present
<1> QED
  BY <1>1, <1>4, <1>5, BootPages DEF Astray, pde

LEMMA LongTablesMap ==
  ASSUME NEW n \in 1 .. 3, LongTables(n), NEW v \in 0 .. 2, v < n
  PROVE  HasPage(v) /\ Get(v) = BootMap[v]
<1>1. table[BootPd][v] = [to |-> BootMap[v], flags |-> {F_PRESENT, F_PS}]
  BY LongWalk DEF LongTables, BootTable
<1> QED
  BY <1>1, LongWalk DEF HasPage, Get, Present

(* The other two pages take an entry each. *)
LEMMA NextLongTables ==
  ASSUME TablesInv, NEW n \in 1 .. 2, LongTables(n), LongMap(n, n),
         stage \in {"long1", "long2"}, stage' = (IF n = 1 THEN "long2" ELSE "cr3"),
         UNCHANGED <<refs, freed>>
  PROVE  TablesInv'
<1>1. HasPd(n) /\ pd(n) = BootPd /\ pdi(n) = n /\ n \in Idx
  BY LongWalk
<1>2. tracked' = tracked /\ table' = [table EXCEPT ![BootPd][n] = BigPage(n)] /\ table \in Tables
  BY <1>1 DEF LongMap, TablesInv
<1>3. [BootTable(n) EXCEPT ![n] = BigPage(n)] = BootTable(n + 1) /\ BigPage(n) \in Entry
  BY FillBootTable
<1>4. /\ table'[BootPd] = BootTable(n + 1) /\ table' \in Tables
      /\ \A p \in {Root, BootPae, BootPdpt} : table'[p] = table[p]
  BY <1>1, <1>2, <1>3, BootPages DEF Tables, LongTables, Root, BootPae, BootPdpt, BootPd
<1>5. LongTables(n + 1)'
  BY <1>2, <1>4 DEF LongTables, BootContents
<1>6. CASE n = 1
  BY <1>2, <1>4, <1>5, <1>6 DEF TablesInv, PaeStages, LongStages
<1>7. CASE n = 2
  BY <1>2, <1>4, <1>5, <1>7 DEF TablesInv, PaeStages, LongStages
<1> QED
  BY <1>6, <1>7

(* The kernel counts the entries of the pages it finds, and clears others. *)
LEMMA RetainTables ==
  ASSUME TablesInv, Retain
  PROVE  TablesInv'
<1>1. /\ stage = "retain" /\ stage' = "retained" /\ tracked' = tracked /\ freed' = freed
      /\ refs' = [p \in Pages |-> IF p \in tracked THEN Entries(p) ELSE 0]
      /\ table' = [p \in Pages |->
           IF (\A q \in tracked : q < p) /\ p < StackPage THEN ZeroPage ELSE table[p]]
      /\ LongTables(3) /\ table \in Tables
  BY DEF Retain, At, TablesInv, LongStages
<1>2. tracked \subseteq Pages /\ \A p \in tracked : p \in Int
  BY <1>1, BootPages DEF LongTables, Pages
<1>3. \A p \in tracked : table'[p] = table[p] /\ Entries(p)' = Entries(p) /\ Entries(p) \in Nat
  <2>1. ASSUME NEW p \in tracked PROVE table'[p] = table[p]
    BY <1>1, <1>2
  <2> QED
    BY <1>2, <2>1, EntriesNat DEF Entries
<1>4. table' \in Tables
  BY <1>1, EntriesRead DEF Tables
<1>5. \A p \in tracked : table'[p] = BootContents(p)
  BY <1>1, <1>3 DEF LongTables, BootContents, BootPd, BootPdpt, BootPae, Root
<1>6. Inherited'
  BY <1>1, <1>2, <1>3, <1>5 DEF Inherited, LongTables
<1>7. refs' \in [Pages -> Nat]
  BY <1>1, <1>3
<1> QED
  BY <1>1, <1>2, <1>4, <1>6, <1>7 DEF TablesInv, PaeStages, LongStages

-----------------------------------------------------------------------------
(* The modules, and the copy of the kernel.                                *)

(* The stages in which the first page of the pool is written and no module *)
(* has been read                                                           *)
BeforeCopy == {"low", "high", "apply", "pae", "pm", "mods", "addr", "elf"}

(* A segment is where it was linked, below the window's end. *)
InPlace(j) ==
  LET s == kernel.phdrs[j] IN
  /\ loadAddr <= Window * PageUnits
  /\ \A k \in 0 .. (s.filesz - 1) :
       PageOf(s.vaddr + k) = Window /\ mem[s.vaddr + k] = modStart + s.off + k

LoadInv ==
  /\ mods \in ModuleLists /\ kernel \in Kernels
  /\ mem \in [Units -> Int] /\ loadAddr \in Nat /\ seg \in Nat \ {0}
  /\ stage \notin {"addr", "seg"} \cup AfterCopy => seg = 1
  /\ \A a \in Units : PageOf(a) < Window /\ a # PoolUnit => mem[a] = a
  /\ stage \in BeforeCopy /\ PoolUnit \in Units => mem[PoolUnit] = JUNK
  /\ stage \in {"addr", "elf", "seg"} \cup AfterCopy =>
       mods # <<>> /\ loadAddr >= Window * PageUnits
  /\ stage = "addr" => \A j \in DOMAIN mods : j < seg => mods[j].end <= loadAddr
  /\ stage \in {"elf", "seg"} \cup AfterCopy => \A j \in DOMAIN mods : mods[j].end <= loadAddr
  /\ stage \in {"seg"} \cup AfterCopy => kernel.valid /\ modStart # PoolUnit
  /\ stage = "seg" => \A j \in Loaded(kernel) : j < seg => InPlace(j)
  /\ stage \in AfterCopy => \A j \in Loaded(kernel) : InPlace(j)

(* Which page an address is in. *)
LEMMA PageIs ==
  ASSUME NEW a \in Nat, NEW q \in Nat, PageUnits * q <= a, a < PageUnits * q + PageUnits
  PROVE  PageOf(a) = q
<1>1. a - PageUnits * q \in 0 .. (PageUnits - 1) /\ a = PageUnits * q + (a - PageUnits * q)
  OBVIOUS
<1> QED
  BY <1>1, DivExact DEF PageOf

LEMMA PageBounds ==
  ASSUME NEW a \in Nat
  PROVE  /\ PageOf(a) \in Nat /\ a % PageUnits \in 0 .. (PageUnits - 1)
         /\ a = PageUnits * PageOf(a) + (a % PageUnits)
BY DivMod DEF PageOf

LEMMA PageBelow ==
  ASSUME NEW a \in Nat, a < PageUnits * 2
  PROVE  PageOf(a) \in {0, 1} /\ PageOf(a) < Window /\ a \in Units
<1>1. PageOf(a) < 2 /\ PageOf(a) \in Nat
  BY DivBelow, PageBounds DEF PageOf
<1>2. a \in Units
  BY DEF Units
<1> QED
  BY <1>1, <1>2 DEF Window

(* A number of 32 bits is its own low half. *)
LEMMA LowSame ==
  ASSUME NEW a \in Nat, a < Space32
  PROVE  Low(a) = a
BY DEF Low

(* alignUp() does not go below what it is given. *)
LEMMA PageUpAbove ==
  ASSUME NEW a \in Nat, a + PageUnits <= Space32
  PROVE  PageUp(a) \in Nat /\ PageUp(a) >= a
<1> DEFINE b == a + PageUnits - 1
<1>1. b \in Nat /\ Low(b) = b
  BY LowSame
<1> HIDE DEF b
<1>2. PageOf(b) \in Nat /\ b % PageUnits \in 0 .. (PageUnits - 1)
      /\ b = PageUnits * PageOf(b) + (b % PageUnits)
  BY <1>1, PageBounds
<1>3. PageUp(a) = PageUnits * PageOf(b)
  BY <1>1 DEF PageUp, PageOf, b
<1>4. PageUnits * PageOf(b) \in Nat
  BY <1>2
<1>5. PageUnits * PageOf(b) >= a
  <2> DEFINE x == PageUnits * PageOf(b)
  <2>1. x \in Nat /\ b = x + (b % PageUnits) /\ b = a + PageUnits - 1
    BY <1>2, <1>4 DEF b
  <2> HIDE DEF x
  <2>2. x >= a
    BY <1>2, <2>1
  <2> QED
    BY <2>2 DEF x
<1> QED
  BY <1>3, <1>4, <1>5

LEMMA ElementOf ==
  ASSUME NEW S, NEW q \in Seq(S), NEW j \in DOMAIN q
  PROVE  q[j] \in S
OBVIOUS

LEMMA DomainOf ==
  ASSUME NEW S, NEW q \in Seq(S)
  PROVE  DOMAIN q = 1 .. Len(q) /\ Len(q) \in Nat
OBVIOUS

(* What the modules and the kernel are. *)
LEMMA ModuleTypes ==
  ASSUME mods \in ModuleLists
  PROVE  /\ mods \in Seq([start : Nat, end : Nat])
         /\ \A j \in DOMAIN mods : /\ mods[j].start \in Nat /\ mods[j].end \in Nat
                                   /\ mods[j].start >= PoolUnit
                                   /\ mods[j].end + PageUnits <= Space32
         /\ mods # <<>> => 1 \in DOMAIN mods
<1>1. /\ mods \in Seq([start : Nat, end : Nat])
      /\ \A j \in DOMAIN mods : mods[j].start >= PoolUnit /\ mods[j].end + PageUnits <= Space32
  BY ModulesAssumption
<1>2. \A j \in DOMAIN mods : mods[j] \in [start : Nat, end : Nat]
  BY <1>1, ElementOf
<1> QED
  BY <1>1, <1>2

LEMMA SegmentTypes ==
  ASSUME kernel \in Kernels
  PROVE  /\ kernel.entry \in Nat
         /\ kernel.phdrs \in Seq([load : BOOLEAN, off : Nat, paddr : Nat, vaddr : Nat,
                                  filesz : Nat, memsz : Nat])
         /\ \A j \in DOMAIN kernel.phdrs :
              LET s == kernel.phdrs[j] IN
              s.off \in Nat /\ s.paddr \in Nat /\ s.vaddr \in Nat /\ s.filesz \in Nat /\ s.memsz \in Nat
<1>1. /\ kernel.entry \in Nat
      /\ kernel.phdrs \in Seq([load : BOOLEAN, off : Nat, paddr : Nat, vaddr : Nat,
                               filesz : Nat, memsz : Nat])
  BY KernelsAssumption
<1>2. \A j \in DOMAIN kernel.phdrs :
        kernel.phdrs[j] \in [load : BOOLEAN, off : Nat, paddr : Nat, vaddr : Nat,
                             filesz : Nat, memsz : Nat]
  BY <1>1, ElementOf
<1> QED
  BY <1>1, <1>2

LEMMA SegmentDomain ==
  ASSUME kernel \in Kernels
  PROVE  DOMAIN kernel.phdrs = 1 .. Len(kernel.phdrs) /\ Len(kernel.phdrs) \in Nat
BY SegmentTypes, DomainOf

(* A segment of a kernel, in its module and in the page it is linked to. *)
LEMMA SegmentFits ==
  ASSUME mods \in ModuleLists, mods # <<>>, kernel \in Kernels, kernel.valid,
         NEW j \in Loaded(kernel)
  PROVE  LET s == kernel.phdrs[j] IN
         /\ j \in DOMAIN kernel.phdrs /\ modStart \in Nat /\ modStart >= PoolUnit
         /\ s.off \in Nat /\ s.vaddr \in Nat /\ s.filesz \in Nat /\ mods[1].end \in Nat
         /\ modStart + s.off + s.filesz <= mods[1].end
         /\ Low(s.off) = s.off /\ Low(s.filesz) = s.filesz
         /\ Low(s.paddr) = s.vaddr /\ PageOf(s.vaddr) = Window
<1> DEFINE s == kernel.phdrs[j]
<1>1. j \in DOMAIN kernel.phdrs
  BY DEF Loaded
<1>2. s.off \in Nat /\ s.vaddr \in Nat /\ s.filesz \in Nat /\ s.paddr \in Nat
  BY <1>1, SegmentTypes
<1>3. /\ mods[1].start \in Nat /\ mods[1].end \in Nat /\ mods[1].start >= PoolUnit
      /\ mods[1].end + PageUnits <= Space32
  BY ModuleTypes
<1>4. Whole(kernel, mods) /\ Linked(kernel)
  BY KernelsAssumption
<1>5. mods[1].start + s.off + s.filesz <= mods[1].end
  BY <1>4 DEF Whole
<1>6. s.vaddr = Low(s.paddr) /\ PageOf(s.vaddr) = Window
  BY <1>4 DEF Linked
<1>7. s.off < Space32 /\ s.filesz < Space32
  BY <1>2, <1>3, <1>5
<1> HIDE DEF s
<1>8. Low(s.off) = s.off /\ Low(s.filesz) = s.filesz
  BY <1>2, <1>7, LowSame
<1> QED
  BY <1>1, <1>2, <1>3, <1>5, <1>6, <1>8 DEF s, modStart

LEMMA KeepLoad ==
  ASSUME LoadInv, UNCHANGED <<mem, input, loadAddr, seg>>,
         \/ stage' = stage
         \/ stage \in BeforeCopy \ {"addr", "elf"} /\ stage' \in BeforeCopy \ {"addr", "elf"}
         \/ stage \in AfterCopy /\ stage' \in AfterCopy
  PROVE  LoadInv'
<1>1. \A j : InPlace(j)' <=> InPlace(j)
  BY DEF InPlace, input, modStart
<1>2. mods' = mods /\ kernel' = kernel /\ modStart' = modStart /\ mem' = mem
      /\ loadAddr' = loadAddr /\ seg' = seg
  BY DEF input, modStart
<1>3. CASE stage' = stage
  BY <1>1, <1>2, <1>3 DEF LoadInv
<1>4. CASE stage \in BeforeCopy \ {"addr", "elf"} /\ stage' \in BeforeCopy \ {"addr", "elf"}
  BY <1>2, <1>4 DEF LoadInv, BeforeCopy, AfterCopy, LongStages
<1>5. CASE stage \in AfterCopy /\ stage' \in AfterCopy
  BY <1>1, <1>2, <1>5 DEF LoadInv, BeforeCopy, AfterCopy, LongStages
<1> QED
  BY <1>3, <1>4, <1>5

(* The first page of the pool is written. *)
LEMMA NewPdptLoad ==
  ASSUME LoadInv, NewPdpt
  PROVE  LoadInv'
<1>1. /\ stage = "pdpt" /\ stage' = "low" /\ mem' = [mem EXCEPT ![PoolUnit] = JUNK]
      /\ mods' = mods /\ kernel' = kernel /\ loadAddr' = loadAddr /\ seg' = seg
  BY DEF NewPdpt, At, input
<1>2. mem' \in [Units -> Int] /\ (PoolUnit \in Units => mem'[PoolUnit] = JUNK)
      /\ \A a \in Units : a # PoolUnit => mem'[a] = mem[a]
  <2>1. JUNK \in Int /\ mem \in [Units -> Int]
    BY DEF JUNK, LoadInv
  <2> QED
    BY <1>1, <2>1
<1> QED
  BY <1>1, <1>2 DEF LoadInv, BeforeCopy, AfterCopy, LongStages

(* calculateLoadAddr() ends behind every module. *)
LEMMA LoadAddrLoad ==
  ASSUME LoadInv, FindLoadAddr \/ calculateLoadAddr \/ LoadAddrFound
  PROVE  LoadInv'
<1>0. mods \in Seq([start : Nat, end : Nat]) /\ seg \in Nat \ {0} /\ loadAddr \in Nat
  BY ModuleTypes DEF LoadInv
<1>1. CASE FindLoadAddr
  <2>1. CASE mods = <<>>
    BY <1>1, <2>1, KeepLoad DEF FindLoadAddr, LoaderPanic
  <2>2. CASE mods # <<>>
    <3>1. /\ stage = "mods" /\ stage' = "addr" /\ loadAddr' = Window * PageUnits
          /\ mem' = mem /\ seg' = seg /\ mods' = mods /\ kernel' = kernel
      BY <1>1, <2>2 DEF FindLoadAddr, At, input
    <3>2. seg = 1 /\ DOMAIN mods = 1 .. Len(mods)
      BY <1>0, <3>1 DEF LoadInv, AfterCopy, LongStages
    <3>3. loadAddr' \in Nat /\ loadAddr' >= Window * PageUnits
      BY <3>1 DEF Window
    <3> QED
      BY <2>2, <3>1, <3>2, <3>3 DEF LoadInv, BeforeCopy, AfterCopy, LongStages
  <2> QED
    BY <2>1, <2>2
<1>2. CASE calculateLoadAddr
  <2>1. /\ stage = "addr" /\ stage' = "addr" /\ seg <= Len(mods) /\ seg' = seg + 1
        /\ loadAddr' = IF mods[seg].end > loadAddr THEN PageUp(mods[seg].end) ELSE loadAddr
        /\ mem' = mem /\ mods' = mods /\ kernel' = kernel
    BY <1>2 DEF calculateLoadAddr, At, input
  <2>2. seg \in DOMAIN mods /\ mods[seg].end \in Nat /\ mods[seg].end + PageUnits <= Space32
    <3>1. seg \in DOMAIN mods
      BY <1>0, <2>1
    <3> QED
      BY <3>1, ModuleTypes DEF LoadInv
  <2>3. PageUp(mods[seg].end) \in Nat /\ PageUp(mods[seg].end) >= mods[seg].end
    BY <2>2, PageUpAbove
  <2>4. loadAddr' \in Nat /\ loadAddr' >= loadAddr /\ loadAddr' >= mods[seg].end
    BY <1>0, <2>1, <2>2, <2>3
  <2>5. loadAddr' >= Window * PageUnits
    BY <1>0, <2>1, <2>4 DEF LoadInv, Window
  <2>6. \A j \in DOMAIN mods : j < seg' => mods[j].end <= loadAddr'
    <3>1. ASSUME NEW j \in DOMAIN mods, j < seg' PROVE mods[j].end <= loadAddr'
      <4>1. (j < seg \/ j = seg) /\ mods[j].end \in Nat
        <5>1. j \in Nat
          BY <1>0
        <5>2. mods[j].end \in Nat
          BY ModuleTypes DEF LoadInv
        <5> QED
          BY <1>0, <2>1, <3>1, <5>1, <5>2
      <4>2. j < seg => mods[j].end <= loadAddr
        BY <2>1 DEF LoadInv
      <4> QED
        BY <1>0, <2>4, <4>1, <4>2
    <3> QED
      BY <3>1
  <2>7. seg' \in Nat \ {0}
    BY <1>0, <2>1
  <2> QED
    BY <2>1, <2>4, <2>5, <2>6, <2>7 DEF LoadInv, BeforeCopy, AfterCopy, LongStages
<1>3. CASE LoadAddrFound
  <2>1. /\ stage = "addr" /\ stage' = "elf" /\ seg > Len(mods) /\ seg' = 1
        /\ mem' = mem /\ loadAddr' = loadAddr /\ mods' = mods /\ kernel' = kernel
    BY <1>3 DEF LoadAddrFound, At, input
  <2>2. \A j \in DOMAIN mods : mods[j].end <= loadAddr
    <3>1. \A j \in DOMAIN mods : j < seg
      BY <1>0, <2>1
    <3> QED
      BY <2>1, <3>1 DEF LoadInv
  <2> QED
    BY <2>1, <2>2 DEF LoadInv, BeforeCopy, AfterCopy, LongStages
<1> QED
  BY <1>1, <1>2, <1>3

(* A module whose ELF header is intact starts behind the written page. *)
LEMMA CheckElfLoad ==
  ASSUME LoadInv, CheckElf
  PROVE  LoadInv'
<1>1. CASE ~PaeMapped(modStart)
  BY <1>1, KeepLoad DEF CheckElf, PageFault
<1>2. CASE PaeMapped(modStart) /\ ~ElfValid
  BY <1>2, KeepLoad DEF CheckElf, LoaderPanic
<1>3. CASE PaeMapped(modStart) /\ ElfValid
  <2>1. /\ stage = "elf" /\ stage' = "seg" /\ kernel.valid /\ mem[modStart] = modStart
        /\ mem' = mem /\ loadAddr' = loadAddr /\ seg' = seg /\ mods' = mods /\ kernel' = kernel
    BY <1>3 DEF CheckElf, At, ElfValid, input
  <2>2. seg = 1 /\ mods # <<>> /\ mods \in ModuleLists /\ kernel \in Kernels
    BY <2>1 DEF LoadInv, AfterCopy, LongStages
  <2>3. modStart \in Nat /\ modStart' = modStart
    BY <2>1, <2>2, ModuleTypes DEF modStart
  <2>4. modStart \in Units
    <3>1. PageOf(modStart) \in {0, 1}
      BY <1>3 DEF PaeMapped
    <3>2. modStart % PageUnits \in 0 .. (PageUnits - 1)
          /\ modStart = PageUnits * PageOf(modStart) + (modStart % PageUnits)
      BY <2>3, PageBounds
    <3>3. modStart < PageUnits * 2
      BY <2>3, <3>1, <3>2
    <3> QED
      BY <2>3, <3>3, PageBelow
  <2>5. modStart # PoolUnit
    <3>1. PoolUnit \in Units => mem[PoolUnit] = JUNK
      BY <2>1 DEF LoadInv, BeforeCopy
    <3>2. JUNK \notin Nat
      BY DEF JUNK
    <3> QED
      BY <2>1, <2>3, <2>4, <3>1, <3>2
  <2>6. \A j \in DOMAIN kernel.phdrs : ~(j < 1)
    BY <2>2, SegmentTypes
  <2>7. \A j \in Loaded(kernel) : ~(j < seg)
    BY <2>2, <2>6 DEF Loaded
  <2> QED
    BY <2>1, <2>2, <2>3, <2>5, <2>7 DEF LoadInv, BeforeCopy, AfterCopy, LongStages
<1> QED
  BY <1>1, <1>2, <1>3

(* One iteration of load_elf(): the segment is copied to its place, no     *)
(* segment that was copied is overwritten, nor a module.                   *)
LEMMA SegmentLoad ==
  ASSUME LoadInv, SkipSegment \/ LoadSegment
  PROVE  LoadInv'
<1>1. /\ stage = "seg" /\ seg \in Nat \ {0} /\ seg <= Len(kernel.phdrs)
      /\ mods \in ModuleLists /\ mods # <<>> /\ kernel \in Kernels /\ kernel.valid
      /\ modStart # PoolUnit /\ loadAddr \in Nat /\ mem \in [Units -> Int]
      /\ \A j \in DOMAIN mods : mods[j].end <= loadAddr
      /\ \A j \in Loaded(kernel) : j < seg => InPlace(j)
  BY DEF SkipSegment, LoadSegment, At, LoadInv, AfterCopy, LongStages
<1>2. \A j \in DOMAIN kernel.phdrs : j \in Nat
  BY <1>1, SegmentDomain
<1>3. CASE SkipSegment
  <2>1. /\ ~ph.load /\ seg' = seg + 1 /\ stage' = stage /\ mem' = mem /\ loadAddr' = loadAddr
        /\ mods' = mods /\ kernel' = kernel /\ modStart' = modStart
    BY <1>3 DEF SkipSegment, input, modStart
  <2>2. \A j \in Loaded(kernel) : j < seg + 1 => j < seg
    BY <1>1, <1>2, <2>1 DEF Loaded, ph
  <2>3. \A j : InPlace(j)' <=> InPlace(j)
    BY <2>1 DEF InPlace
  <2> QED
    BY <1>1, <2>1, <2>2, <2>3 DEF LoadInv, BeforeCopy, AfterCopy, LongStages
<1>4. CASE LoadSegment /\ ~Accepted
  BY <1>4, KeepLoad DEF LoadSegment, LoaderPanic
<1>5. CASE LoadSegment /\ Accepted /\ CopyFaults
  BY <1>5, KeepLoad DEF LoadSegment, PageFault
<1>6. CASE LoadSegment /\ Accepted /\ ~CopyFaults
  <2> DEFINE dst == ph.vaddr
             size == ph.filesz
             src == modStart + ph.off
  <2>1. /\ ph.load /\ seg' = seg + 1 /\ stage' = stage /\ loadAddr' = loadAddr
        /\ mods' = mods /\ kernel' = kernel /\ modStart' = modStart
        /\ mem' = [a \in Units |->
                     IF a - paddr32 \in 0 .. (size32 - 1) THEN SourceUnit(a - paddr32) ELSE mem[a]]
    BY <1>6 DEF LoadSegment, input, modStart
  <2>2. seg \in Loaded(kernel)
    BY <1>1, <2>1, SegmentDomain DEF Loaded, ph
  <2>3. /\ modStart \in Nat /\ modStart >= PoolUnit /\ ph.off \in Nat /\ dst \in Nat /\ size \in Nat
        /\ mods[1].end \in Nat /\ src + size <= mods[1].end
        /\ off32 = ph.off /\ size32 = size /\ paddr32 = dst /\ PageOf(dst) = Window
    BY <1>1, <2>2, SegmentFits DEF ph, off32, size32, paddr32
  <2>4. loadAddr <= Window * PageUnits /\ mods[1].end <= loadAddr
    <3>1. PageOf(paddr32) * PageUnits >= loadAddr
      BY <1>6 DEF Accepted, paddrPage
    <3>2. 1 \in DOMAIN mods
      BY <1>1, ModuleTypes
    <3> QED
      BY <1>1, <2>3, <3>1, <3>2
  <2>5. /\ dst % PageUnits \in 0 .. (PageUnits - 1) /\ dst = PageUnits * 2 + (dst % PageUnits)
        /\ (dst % PageUnits) + size <= PageUnits
    <3>1. ~((paddr32 % PageUnits) + size32 > PageUnits)
      BY <1>6 DEF CopyFaults
    <3>2. dst % PageUnits \in 0 .. (PageUnits - 1) /\ dst = PageUnits * PageOf(dst) + (dst % PageUnits)
      BY <2>3, PageBounds
    <3> QED
      BY <2>3, <3>1, <3>2 DEF Window
  <2>6. dst >= PageUnits * 2 /\ dst + size <= PageUnits * 3 /\ src + size <= PageUnits * 2
    <3> DEFINE r == dst % PageUnits
               e == mods[1].end
    <3>1. r \in Nat /\ dst = PageUnits * 2 + r /\ r + size <= PageUnits
      BY <2>5
    <3>2. src \in Nat /\ e \in Nat /\ src + size <= e /\ e <= loadAddr /\ loadAddr <= PageUnits * 2
      BY <1>1, <2>3, <2>4 DEF Window
    <3>3. dst \in Nat /\ size \in Nat
      BY <2>3
    <3> HIDE DEF r, e, src, dst, size
    <3> QED
      BY <1>1, <3>1, <3>2, <3>3
  <2>7. mem' = [a \in Units |->
                  IF a - dst \in 0 .. (size - 1) THEN SourceUnit(a - dst) ELSE mem[a]]
    BY <2>1, <2>3
  <2>8. src \in Nat /\ src > PoolUnit
    BY <1>1, <2>3
  <2>9. ASSUME NEW k \in 0 .. (size - 1) PROVE SourceUnit(k) = src + k
    <3>1. src + k \in Nat /\ src + k < PageUnits * 2 /\ src + k # PoolUnit
      BY <2>3, <2>6, <2>8, <2>9
    <3> HIDE DEF src, size
    <3>2. PageOf(src + k) \in {0, 1} /\ PageOf(src + k) < Window /\ src + k \in Units
      BY <3>1, PageBelow
    <3>3. mem[src + k] = src + k
      BY <3>1, <3>2 DEF LoadInv
    <3>4. modStart + off32 + k = src + k
      BY <2>3 DEF src
    <3> QED
      BY <3>2, <3>3, <3>4 DEF SourceUnit, PaeMapped
  <2>10. ASSUME NEW k \in 0 .. (size - 1)
         PROVE  dst + k \in Units /\ PageOf(dst + k) = Window /\ mem'[dst + k] = src + k
    <3>1. dst + k \in Nat /\ PageUnits * 2 <= dst + k /\ dst + k < PageUnits * 2 + PageUnits
      BY <2>3, <2>6, <2>10
    <3>2. dst + k \in Units
      BY <3>1 DEF Units
    <3>3. (dst + k) - dst = k
      BY <2>3, <2>10
    <3> HIDE DEF dst, size, src
    <3>4. PageOf(dst + k) = Window
      BY <3>1, PageIs DEF Window
    <3>5. mem'[dst + k] = SourceUnit(k)
      BY <2>7, <2>10, <3>2, <3>3
    <3> QED
      BY <2>9, <2>10, <3>2, <3>4, <3>5
  <2> DEFINE Written(a) == a - dst \in 0 .. (size - 1)
  <2>11. \A a \in Units : ~Written(a) => mem'[a] = mem[a]
    BY <2>7
  <2>12. \A a \in Units : PageOf(a) < Window => ~Written(a)
    <3>1. ASSUME NEW a \in Units, Written(a) PROVE PageOf(a) = Window
      <4>1. a \in Nat /\ a - dst \in 0 .. (size - 1) /\ dst + (a - dst) = a
        BY <2>3, <3>1 DEF Units
      <4> HIDE DEF dst, size, src
      <4> QED
        BY <2>10, <4>1
    <3> QED
      BY <3>1 DEF Window
  <2>13. mem' \in [Units -> Int]
    <3>1. \A a \in Units : Written(a) => mem'[a] = src + (a - dst) /\ a - dst \in Int
      <4> HIDE DEF dst, size, src
      <4> QED
        BY <2>7, <2>9 DEF Units
    <3>2. \A a \in Units : mem'[a] \in Int
      BY <1>1, <2>8, <2>11, <3>1
    <3> QED
      BY <2>7, <3>2
  <2>14. \A j \in Loaded(kernel) : j < seg + 1 => InPlace(j)'
    <3>1. ASSUME NEW j \in Loaded(kernel), j = seg PROVE InPlace(j)'
      <4>1. /\ kernel'.phdrs[j] = ph /\ loadAddr' <= Window * PageUnits /\ modStart' = modStart
        BY <2>1, <2>4, <3>1 DEF ph
      <4>2. \A k \in 0 .. (size - 1) : modStart + ph.off + k = src + k
        BY <2>3
      <4> QED
        BY <2>10, <4>1, <4>2 DEF InPlace
    <3>2. ASSUME NEW j \in Loaded(kernel), j < seg PROVE InPlace(j)'
      <4> DEFINE s == kernel.phdrs[j]
      <4>1. InPlace(j) /\ kernel'.phdrs[j] = s /\ s.vaddr \in Nat /\ s.filesz \in Nat
        BY <1>1, <2>1, <3>2, SegmentFits
      <4>2. s.vaddr + s.filesz <= dst \/ dst + size <= s.vaddr
        <5>1. Linked(kernel)
          BY <1>1, KernelsAssumption
        <5> QED
          BY <2>2, <3>2, <5>1 DEF Linked, ph
      <4>3. ASSUME NEW k \in 0 .. (s.filesz - 1)
            PROVE  /\ PageOf(s.vaddr + k) = Window
                   /\ mem'[s.vaddr + k] = modStart + s.off + k
        <5>1. PageOf(s.vaddr + k) = Window /\ mem[s.vaddr + k] = modStart + s.off + k
          BY <4>1, <4>3 DEF InPlace
        <5>2. s.vaddr + k \in Nat /\ ~Written(s.vaddr + k)
          BY <2>3, <4>1, <4>2, <4>3
        <5>3. s.vaddr + k \in Units
          <6> DEFINE a == s.vaddr + k
          <6>1. a \in Nat /\ PageOf(a) = 2
            BY <5>1, <5>2 DEF Window
          <6> HIDE DEF a
          <6>2. a = PageUnits * 2 + (a % PageUnits) /\ a % PageUnits \in 0 .. (PageUnits - 1)
            BY <6>1, PageBounds
          <6>3. a \in Units
            BY <6>1, <6>2 DEF Units
          <6> QED
            BY <6>3 DEF a
        <5> QED
          BY <2>11, <5>1, <5>2, <5>3
      <4>4. loadAddr' <= Window * PageUnits
        BY <2>1, <2>4
      <4> QED
        BY <2>1, <4>1, <4>3, <4>4 DEF InPlace
    <3>3. \A j \in Loaded(kernel) : j < seg + 1 => j < seg \/ j = seg
      BY <1>1, <1>2 DEF Loaded
    <3> QED
      BY <3>1, <3>2, <3>3
  <2>15. \A a \in Units : PageOf(a) < Window /\ a # PoolUnit => mem'[a] = a
    BY <2>11, <2>12 DEF LoadInv
  <2> QED
    BY <1>1, <2>1, <2>13, <2>14, <2>15 DEF LoadInv, BeforeCopy, AfterCopy, LongStages
<1> QED
  BY <1>3, <1>4, <1>5, <1>6

(* The loop is over: every segment is in its place. *)
LEMMA PmDisableLoad ==
  ASSUME LoadInv, PmDisable
  PROVE  LoadInv'
<1>1. /\ stage = "seg" /\ stage' = "off" /\ seg > Len(kernel.phdrs) /\ mem' = mem
      /\ mods' = mods /\ kernel' = kernel /\ loadAddr' = loadAddr /\ seg' = seg /\ modStart' = modStart
  BY DEF PmDisable, Switch, At, input, modStart
<1>2. seg \in Nat /\ kernel \in Kernels /\ \A j \in Loaded(kernel) : j < seg => InPlace(j)
  BY <1>1 DEF LoadInv
<1>3. \A j \in Loaded(kernel) : InPlace(j)'
  <2>1. \A j \in Loaded(kernel) : j < seg
    BY <1>1, <1>2, SegmentDomain DEF Loaded
  <2>2. \A j : InPlace(j)' <=> InPlace(j)
    BY <1>1 DEF InPlace
  <2> QED
    BY <1>2, <2>1, <2>2
<1> QED
  BY <1>1, <1>3 DEF LoadInv, BeforeCopy, AfterCopy, LongStages

-----------------------------------------------------------------------------
(* Every step.                                                             *)

LEMMA LoadPart ==
  ASSUME LoadInv, BootStep
  PROVE  LoadInv'
<1>1. CASE NewPdpt
  BY <1>1, NewPdptLoad
<1>2. CASE MapLow \/ MapHigh
  <2>1. /\ UNCHANGED <<mem, input, loadAddr, seg>>
        /\ stage \in BeforeCopy \ {"addr", "elf"} /\ stage' \in BeforeCopy \ {"addr", "elf"}
    BY <1>2 DEF MapLow, MapHigh, At, BeforeCopy
  <2> QED
    BY <2>1, KeepLoad
<1>3. CASE EnablePaging
  <2>1. /\ UNCHANGED <<mem, input, loadAddr, seg>>
        /\ stage \in BeforeCopy \ {"addr", "elf"} /\ stage' \in BeforeCopy \ {"addr", "elf"}
    BY <1>3 DEF EnablePaging, Switch, At, BeforeCopy
  <2> QED
    BY <2>1, KeepLoad
<1>4. CASE FindLoadAddr \/ calculateLoadAddr \/ LoadAddrFound
  BY <1>4, LoadAddrLoad
<1>5. CASE CheckElf
  BY <1>5, CheckElfLoad
<1>6. CASE SkipSegment \/ LoadSegment
  BY <1>6, SegmentLoad
<1>7. CASE PmDisable
  BY <1>7, PmDisableLoad
<1>8. CASE NewPml4 \/ MapLoader \/ MapKernel \/ ApplyPml4 \/ FillLoaderData
  <2>1. UNCHANGED <<mem, input, loadAddr, seg>> /\ stage \in AfterCopy /\ stage' \in AfterCopy
    BY <1>8 DEF NewPml4, MapLoader, MapKernel, LongStep, ApplyPml4, Switch, FillLoaderData, At,
                AfterCopy, LongStages
  <2> QED
    BY <2>1, KeepLoad
<1>9. CASE KernelEnters
  <2>1. UNCHANGED <<mem, input, loadAddr, seg>> /\ stage \in AfterCopy /\ stage' \in AfterCopy
    BY <1>9 DEF KernelEnters, LongEnter, Switch, Validate, LoaderPanic, Retain, At, AfterCopy,
                LongStages
  <2> QED
    BY <2>1, KeepLoad
<1> QED
  BY <1>1, <1>2, <1>3, <1>4, <1>5, <1>6, <1>7, <1>8, <1>9 DEF BootStep, LoaderStep

(* A kernel that was copied lies in the page it was linked to. *)
LEMMA KernelPage ==
  ASSUME LoadInv, stage \in AfterCopy
  PROVE  PageOf(kernel.entry) = 2 /\ PageOf(loadAddr) = 2
<1>1. /\ mods \in ModuleLists /\ mods # <<>> /\ kernel \in Kernels /\ kernel.valid
      /\ loadAddr \in Nat /\ loadAddr >= Window * PageUnits
      /\ \A j \in Loaded(kernel) : InPlace(j)
  BY DEF LoadInv, AfterCopy, LongStages
<1>2. PageOf(kernel.entry) = Window /\ Loaded(kernel) # {}
  BY <1>1, KernelsAssumption DEF Linked
<1>3. loadAddr <= Window * PageUnits
  BY <1>1, <1>2 DEF InPlace
<1>4. PageUnits * 2 <= loadAddr /\ loadAddr < PageUnits * 2 + PageUnits
  BY <1>1, <1>3 DEF Window
<1>5. PageOf(loadAddr) = 2
  BY <1>1, <1>4, PageIs
<1> QED
  BY <1>2, <1>5 DEF Window

LEMMA TablesPart ==
  ASSUME TablesInv, LoadInv, BootStep
  PROVE  TablesInv'
<1>1. CASE NewPdpt
  BY <1>1, NewPdptTables
<1>2. CASE MapLow \/ MapHigh
  BY <1>2, PaeMapTables
<1>3. CASE EnablePaging \/ PmDisable
  <2>1. UNCHANGED <<tracked, refs, table, freed>> /\ stage \in PaeStages /\ stage' \in PaeStages
    BY <1>3 DEF EnablePaging, PmDisable, Switch, At, pmvars, PaeStages
  <2> QED
    BY <2>1, KeepTables
<1>4. CASE FindLoadAddr \/ calculateLoadAddr \/ LoadAddrFound \/ CheckElf \/ SkipSegment
  <2>1. UNCHANGED <<tracked, refs, table, freed>> /\ stage \in PaeStages /\ stage' \in PaeStages
    BY <1>4 DEF FindLoadAddr, calculateLoadAddr, LoadAddrFound, CheckElf, SkipSegment, At, pmvars,
                LoaderPanic, PageFault, Panic, PaeStages
  <2> QED
    BY <2>1, KeepTables
<1>5. CASE LoadSegment
  <2>1. CASE Accepted /\ ~CopyFaults
    <3>1. /\ stage = "seg" /\ stage' = stage /\ table' = PaeUnmapped(Window)
          /\ UNCHANGED <<tracked, refs, freed>>
      BY <1>5, <2>1 DEF LoadSegment, At
    <3> QED
      BY <3>1, WindowTables
  <2>2. CASE ~(Accepted /\ ~CopyFaults)
    <3>1. UNCHANGED <<tracked, refs, table, freed>> /\ stage' = stage
      BY <1>5, <2>2 DEF LoadSegment, LoaderPanic, PageFault, Panic
    <3> QED
      BY <3>1, KeepTables
  <2> QED
    BY <2>1, <2>2
<1>6. CASE NewPml4
  BY <1>6, NewPml4Tables
<1>7. CASE MapLoader
  <2>1. CASE LongStep("long0", "long1", 0, 0)
    BY <2>1, FirstLongTables
  <2>2. CASE LongStep("long1", "long2", 1, 1)
    <3>1. /\ stage = "long1" /\ stage' = "long2" /\ LongMap(1, 1) /\ UNCHANGED <<refs, freed>>
          /\ LongTables(1)
      BY <2>2 DEF LongStep, At, TablesInv
    <3> QED
      BY <3>1, NextLongTables
  <2> QED
    BY <1>7, <2>1, <2>2 DEF MapLoader
<1>8. CASE MapKernel
  <2>1. /\ stage = "long2" /\ stage' = "cr3" /\ UNCHANGED <<refs, freed>> /\ LongTables(2)
        /\ LongMap(PageOf(kernel.entry), PageOf(loadAddr))
    BY <1>8 DEF MapKernel, LongStep, At, TablesInv
  <2>2. LongMap(2, 2)
    BY <2>1, KernelPage DEF AfterCopy
  <2> QED
    BY <2>1, <2>2, NextLongTables
<1>9. CASE ApplyPml4 \/ FillLoaderData
  <2>1. UNCHANGED <<tracked, refs, table, freed>> /\ stage \in LongStages /\ stage' \in LongStages
    BY <1>9 DEF ApplyPml4, FillLoaderData, Switch, At, pmvars, LongStages
  <2> QED
    BY <2>1, KeepTables
<1>10. CASE KernelEnters /\ ~Retain
  <2>1. UNCHANGED <<tracked, refs, table, freed>> /\ stage \in LongStages /\ stage' \in LongStages
    BY <1>10 DEF KernelEnters, LongEnter, Switch, Validate, LoaderPanic, Panic, At, pmvars,
                 LongStages
  <2> QED
    BY <2>1, KeepTables
<1>11. CASE Retain
  BY <1>11, RetainTables
<1> QED
  BY <1>1, <1>2, <1>3, <1>4, <1>5, <1>6, <1>7, <1>8, <1>9, <1>10, <1>11
     DEF BootStep, LoaderStep, KernelEnters

LEMMA BootInitInv == BootInit => TablesInv /\ LoadInv
<1> SUFFICES ASSUME BootInit PROVE TablesInv /\ LoadInv
  OBVIOUS
<1>1. stage = "pdpt" /\ tracked = {} /\ refs = [p \in Pages |-> 0] /\ freed = FALSE
  BY DEF BootInit
<1>2. table \in Tables
  <2>1. DirtyPage \in [Idx -> Entry] /\ ZeroPage \in [Idx -> Entry]
    <3>1. Phys(9) \in Nat /\ {F_PRESENT, F_RW} \subseteq FlagBits
      BY FramesAssumption DEF Phys, F_PRESENT, F_RW, FlagBits
    <3> QED
      BY <3>1, EntriesRead DEF DirtyPage, Entry
  <2> QED
    BY <2>1 DEF BootInit, Tables
<1>3. TablesInv
  BY <1>1, <1>2 DEF TablesInv, PaeStages, LongStages
<1>4. /\ mem \in [Units -> Int] /\ \A a \in Units : mem[a] = a
      /\ mods \in ModuleLists /\ kernel \in Kernels /\ loadAddr = 0 /\ seg = 1
  BY DEF BootInit, Units
<1>5. LoadInv
  BY <1>1, <1>4 DEF LoadInv, BeforeCopy, AfterCopy, LongStages
<1> QED
  BY <1>3, <1>5

-----------------------------------------------------------------------------
(* The CPU.                                                                *)

UnpagedStages == {"pdpt", "low", "high", "apply", "pae", "pm"}
PagedStages == {"mods", "addr", "elf", "seg"}
SwitchStages == {"off", "long0", "long1", "long2", "cr3", "enter", "jump"}

(* The mode at each stage; from the entry of the kernel on it is long mode.*)
CpuInv ==
  /\ DOMAIN cpu = {"paging", "pae", "long", "cr3", "pdptes"}
  /\ stage \in UnpagedStages => ~cpu.paging /\ ~cpu.long
  /\ stage \in SwitchStages => ~cpu.paging
  /\ stage \notin {"pdpt", "low", "high", "apply"} => cpu.cr3 = Root
  /\ stage \in {"pm"} \cup PagedStages => cpu.pae
  /\ stage \in PagedStages => cpu.paging /\ ~cpu.long /\ cpu.pdptes[0] = SmallEntry(BootPae)
  /\ stage \notin UnpagedStages \cup PagedStages \cup SwitchStages => cpu.paging /\ cpu.long

LEMMA KeepCpu ==
  ASSUME CpuInv, cpu' = cpu,
         \/ stage' = stage
         \/ stage \in {"pdpt", "low", "high"} /\ stage' \in {"low", "high", "apply"}
         \/ stage \in PagedStages /\ stage' \in PagedStages
         \/ stage \in SwitchStages /\ stage' \in SwitchStages
         \/ /\ stage \notin UnpagedStages \cup PagedStages \cup SwitchStages
            /\ stage' \notin UnpagedStages \cup PagedStages \cup SwitchStages
  PROVE  CpuInv'
BY DEF CpuInv, UnpagedStages, PagedStages, SwitchStages

(* CR3 is loaded, or a mode is switched. *)
LEMMA SwitchCpu ==
  ASSUME CpuInv, TablesInv,
         EnablePaging \/ PmDisable \/ ApplyPml4 \/ LongEnter
  PROVE  CpuInv'
<1>1. DOMAIN cpu = {"paging", "pae", "long", "cr3", "pdptes"}
  BY DEF CpuInv
<1>2. 0 \in 0 .. (PaeEntries - 1)
  OBVIOUS
<1>3. CASE Switch("apply", "pae", LoadCr3)
  <2>1. ~cpu.paging /\ ~cpu.long /\ stage' = "pae" /\ cpu' = LoadCr3
    BY <1>3 DEF Switch, At, CpuInv, UnpagedStages
  <2>2. /\ cpu'.cr3 = Root /\ cpu'.paging = cpu.paging /\ cpu'.long = cpu.long
        /\ DOMAIN cpu' = DOMAIN cpu
    BY <1>1, <2>1 DEF LoadCr3
  <2> QED
    BY <1>1, <2>1, <2>2 DEF CpuInv, UnpagedStages, PagedStages, SwitchStages
<1>4. CASE Switch("pae", "pm", [cpu EXCEPT !.pae = TRUE])
  <2>1. /\ ~cpu.paging /\ ~cpu.long /\ cpu.cr3 = Root /\ stage' = "pm"
        /\ cpu' = [cpu EXCEPT !.pae = TRUE]
    BY <1>4 DEF Switch, At, CpuInv, UnpagedStages
  <2>2. /\ cpu'.cr3 = cpu.cr3 /\ cpu'.paging = cpu.paging /\ cpu'.long = cpu.long /\ cpu'.pae
        /\ DOMAIN cpu' = DOMAIN cpu
    BY <1>1, <2>1
  <2> QED
    BY <1>1, <2>1, <2>2 DEF CpuInv, UnpagedStages, PagedStages, SwitchStages
<1>5. CASE Switch("pm", "mods", [cpu EXCEPT !.paging = TRUE, !.pdptes = Pdptes(cpu.cr3)])
  <2>1. /\ ~cpu.long /\ cpu.cr3 = Root /\ cpu.pae /\ stage = "pm" /\ stage' = "mods"
        /\ cpu' = [cpu EXCEPT !.paging = TRUE, !.pdptes = Pdptes(cpu.cr3)]
    BY <1>5 DEF Switch, At, CpuInv, UnpagedStages
  <2>2. /\ cpu'.cr3 = cpu.cr3 /\ cpu'.paging /\ cpu'.long = cpu.long /\ cpu'.pae = cpu.pae
        /\ cpu'.pdptes = Pdptes(Root) /\ DOMAIN cpu' = DOMAIN cpu
    BY <1>1, <2>1
  <2>3. cpu'.pdptes[0] = SmallEntry(BootPae)
    BY <1>2, <2>1, <2>2 DEF Pdptes, TablesInv, PaeStages, PaeTables
  <2> QED
    BY <1>1, <2>1, <2>2, <2>3 DEF CpuInv, UnpagedStages, PagedStages, SwitchStages
<1>6. CASE PmDisable
  <2>1. cpu.cr3 = Root /\ stage' = "off" /\ cpu' = [cpu EXCEPT !.paging = FALSE]
    BY <1>6 DEF PmDisable, Switch, At, CpuInv
  <2>2. cpu'.cr3 = cpu.cr3 /\ ~cpu'.paging /\ DOMAIN cpu' = DOMAIN cpu
    BY <1>1, <2>1
  <2> QED
    BY <1>1, <2>1, <2>2 DEF CpuInv, UnpagedStages, PagedStages, SwitchStages
<1>7. CASE ApplyPml4
  <2>1. ~cpu.paging /\ stage' = "enter" /\ cpu' = LoadCr3
    BY <1>7 DEF ApplyPml4, Switch, At, CpuInv, SwitchStages
  <2>2. cpu'.cr3 = Root /\ cpu'.paging = cpu.paging /\ DOMAIN cpu' = DOMAIN cpu
    BY <1>1, <2>1 DEF LoadCr3
  <2> QED
    BY <1>1, <2>1, <2>2 DEF CpuInv, UnpagedStages, PagedStages, SwitchStages
<1>8. CASE LongEnter
  <2>1. cpu.cr3 = Root /\ stage' = "entry" /\ cpu' = [cpu EXCEPT !.long = TRUE, !.paging = TRUE]
    BY <1>8 DEF LongEnter, Switch, At, CpuInv
  <2>2. cpu'.cr3 = cpu.cr3 /\ cpu'.paging /\ cpu'.long /\ DOMAIN cpu' = DOMAIN cpu
    BY <1>1, <2>1
  <2> QED
    BY <1>1, <2>1, <2>2 DEF CpuInv, UnpagedStages, PagedStages, SwitchStages
<1> QED
  BY <1>3, <1>4, <1>5, <1>6, <1>7, <1>8 DEF EnablePaging

LEMMA SegmentCpu ==
  ASSUME CpuInv, TablesInv, LoadSegment
  PROVE  CpuInv'
<1>1. CASE cpu' = cpu
  <2>1. stage' = stage
    BY DEF LoadSegment, LoaderPanic, PageFault
  <2> QED
    BY <1>1, <2>1, KeepCpu
<1>2. CASE cpu' = LoadCr3
  <2>1. /\ stage = "seg" /\ stage' = "seg" /\ cpu.paging /\ cpu.pae /\ ~cpu.long
        /\ DOMAIN cpu = {"paging", "pae", "long", "cr3", "pdptes"}
    BY DEF LoadSegment, LoaderPanic, PageFault, At, CpuInv, PagedStages
  <2>2. /\ cpu'.cr3 = Root /\ cpu'.paging = cpu.paging /\ cpu'.long = cpu.long
        /\ cpu'.pae = cpu.pae /\ cpu'.pdptes = Pdptes(Root) /\ DOMAIN cpu' = DOMAIN cpu
    BY <1>2, <2>1 DEF LoadCr3
  <2>3. 0 \in 0 .. (PaeEntries - 1)
    OBVIOUS
  <2>4. cpu'.pdptes[0] = SmallEntry(BootPae)
    BY <2>1, <2>2, <2>3 DEF Pdptes, TablesInv, PaeStages, PaeTables
  <2> QED
    BY <2>1, <2>2, <2>4 DEF CpuInv, UnpagedStages, PagedStages, SwitchStages
<1> QED
  BY <1>1, <1>2 DEF LoadSegment, LoaderPanic, PageFault

LEMMA CpuPart ==
  ASSUME CpuInv, TablesInv, BootStep
  PROVE  CpuInv'
<1>1. CASE NewPdpt \/ MapLow \/ MapHigh
  BY <1>1, KeepCpu DEF NewPdpt, MapLow, MapHigh, At
<1>2. CASE EnablePaging \/ PmDisable \/ ApplyPml4 \/ LongEnter
  BY <1>2, SwitchCpu
<1>3. CASE FindLoadAddr \/ calculateLoadAddr \/ LoadAddrFound \/ CheckElf \/ SkipSegment
  <2>1. cpu' = cpu /\ stage \in PagedStages /\ stage' \in PagedStages
    BY <1>3 DEF FindLoadAddr, calculateLoadAddr, LoadAddrFound, CheckElf, SkipSegment, At,
                LoaderPanic, PageFault, PagedStages
  <2> QED
    BY <2>1, KeepCpu
<1>4. CASE LoadSegment
  BY <1>4, SegmentCpu
<1>5. CASE NewPml4 \/ MapLoader \/ MapKernel \/ FillLoaderData
  <2>1. cpu' = cpu /\ stage \in SwitchStages /\ stage' \in SwitchStages
    BY <1>5 DEF NewPml4, MapLoader, MapKernel, LongStep, FillLoaderData, At, SwitchStages
  <2> QED
    BY <2>1, KeepCpu
<1>6. CASE KernelEnters /\ ~LongEnter
  <2>1. /\ cpu' = cpu
        /\ stage \notin UnpagedStages \cup PagedStages \cup SwitchStages
        /\ stage' \notin UnpagedStages \cup PagedStages \cup SwitchStages
    BY <1>6 DEF KernelEnters, Validate, LoaderPanic, Retain, At, UnpagedStages, PagedStages,
                SwitchStages
  <2> QED
    BY <2>1, KeepCpu
<1> QED
  BY <1>1, <1>2, <1>3, <1>4, <1>5, <1>6 DEF BootStep, LoaderStep, KernelEnters

LEMMA CpuInit == BootInit => CpuInv
BY DEF BootInit, CpuInv, UnpagedStages, PagedStages, SwitchStages

(* What the CPU finds while paging is on, with the tables of the stage *)
LEMMA CpuFindsCode ==
  ASSUME CpuInv, stage \in PagedStages => PaeTables(2),
         stage \notin UnpagedStages \cup PagedStages \cup SwitchStages =>
           \A v \in 0 .. 2 : Get(v) = BootMap[v]
  PROVE  CodeStaysMapped
<1> SUFFICES ASSUME cpu.paging
             PROVE  cpu.cr3 = Root /\ \A v \in {0, 1} : Translated(v) = Phys(v)
  BY DEF CodeStaysMapped
<1>1. stage \notin UnpagedStages \cup SwitchStages
  BY DEF CpuInv
<1>2. cpu.cr3 = Root
  BY <1>1 DEF CpuInv, UnpagedStages
<1>3. \A v \in {0, 1} : v \in 0 .. 2 /\ v \in Idx /\ v < 2 /\ BootMap[v] = Phys(v)
  BY DEF BootMap, Idx
<1>4. CASE stage \in PagedStages
  <2>1. ~cpu.long /\ cpu.pae /\ cpu.pdptes[0] = SmallEntry(BootPae) /\ table[BootPae] = BootTable(2)
    BY <1>4 DEF CpuInv, PaeTables
  <2>2. \A v \in {0, 1} : table[BootPae][v] = [to |-> BootMap[v], flags |-> {F_PRESENT, F_PS}]
    BY <1>3, <2>1 DEF BootTable
  <2> QED
    BY <1>2, <1>3, <2>1, <2>2, EntriesRead DEF Translated
<1>5. CASE stage \notin PagedStages
  BY <1>1, <1>2, <1>3, <1>5 DEF Translated, CpuInv
<1> QED
  BY <1>4, <1>5

-----------------------------------------------------------------------------
(* What the invariants say of a kernel that is entered.                    *)

LEMMA TablesHandedOver == TablesInv => HandsOver
BY DEF TablesInv, HandsOver, Inherited

(* The tables the kernel takes over are those the loader built. *)
LEMMA RetainedLong == TablesInv /\ stage = "retained" => LongTables(3)
<1>1. BootContents(BootPd) = BootTable(3)
  BY DEF BootContents, Root, BootPae, BootPdpt, BootPd
<1> QED
  BY <1>1 DEF TablesInv, Inherited, LongTables

LEMMA KernelFindsItself ==
  ASSUME TablesInv, LoadInv
  PROVE  KernelInPlace
<1> SUFFICES ASSUME stage \in {"entry", "validate", "retain", "retained"},
                    NEW j \in Loaded(kernel), NEW k \in 0 .. (kernel.phdrs[j].filesz - 1)
             PROVE  LET s == kernel.phdrs[j]
                        a == s.vaddr + k
                    IN
                    /\ HasPage(PageOf(a))
                    /\ \E n \in 0 .. 7 :
                         /\ Get(PageOf(a)) = Phys(n)
                         /\ mem[n * PageUnits + (a % PageUnits)] = modStart + s.off + k
  BY DEF KernelInPlace
<1> DEFINE s == kernel.phdrs[j]
           a == s.vaddr + k
<1>1. /\ mods \in ModuleLists /\ mods # <<>> /\ kernel \in Kernels /\ kernel.valid
      /\ InPlace(j)
  BY DEF LoadInv, AfterCopy, LongStages
<1>2. a \in Nat
  BY <1>1, SegmentFits
<1>3. PageOf(a) = 2 /\ mem[a] = modStart + s.off + k
  BY <1>1 DEF InPlace, Window
<1>4. LongTables(3)
  BY RetainedLong DEF TablesInv, LongStages
<1>5. HasPage(2) /\ Get(2) = Phys(2)
  <2>1. HasPage(2) /\ Get(2) = BootMap[2]
    BY <1>4, LongTablesMap
  <2> QED
    BY <2>1, KernelsAssumption DEF BootMap, Window
<1> HIDE DEF a, s
<1>6. 2 * PageUnits + (a % PageUnits) = a
  BY <1>2, <1>3, PageBounds
<1> QED
  BY <1>3, <1>5, <1>6 DEF a, s

(* Until mm::init() the CPU finds the loader and the kernel. *)
LEMMA CodeFound ==
  ASSUME TablesInv, CpuInv, stage \in BootStages
  PROVE  CodeStaysMapped
<1>1. stage \in PagedStages => PaeTables(2)
  BY DEF TablesInv, PagedStages, PaeStages
<1>2. stage \notin UnpagedStages \cup PagedStages \cup SwitchStages => LongTables(3)
  BY RetainedLong DEF TablesInv, BootStages, UnpagedStages, PagedStages, SwitchStages, PaeStages,
                      LongStages
<1>3. stage \notin UnpagedStages \cup PagedStages \cup SwitchStages =>
        \A v \in 0 .. 2 : Get(v) = BootMap[v]
  BY <1>2, LongTablesMap
<1> QED
  BY <1>1, <1>3, CpuFindsCode

=============================================================================
