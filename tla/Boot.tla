-------------------------------- MODULE Boot --------------------------------
(***************************************************************************)
(* From GRUB to the kernel: the loader (loader.cpp, loader/mem) builds PAE *)
(* tables, copies the kernel out of the first multiboot module through a   *)
(* window at 4 MiB, replaces the tables by 64-bit ones and jumps to the    *)
(* kernel, which takes the tables over (pm::retainLoaderPaging).  Module   *)
(* System puts these steps and those of the running kernel together.       *)
(*                                                                         *)
(* The paging structures are those of Paging, and the loader's allocator   *)
(* works on the first pages of the same pool.  Memory is a function from   *)
(* addresses, in coarse units of PageUnits to a 2 MiB page; mem[a] = a     *)
(* means that a still holds what GRUB put there, and a copied unit holds   *)
(* the address it came from.                                               *)
(***************************************************************************)
EXTENDS Paging, Sequences

LOCAL Seqs == INSTANCE SequencesExt

CONSTANTS
  PageUnits,    \* units of a 2 MiB page
  PoolUnit,     \* the unit the first paging structures are in (0x100000)
  LoaderPool,   \* the pages of the pool the loader allocates from
  StackPage,    \* the page of the pool the stack is in, the loader's and
                \*   then the kernel's: entry.s sets no new one
  PaeEntries,   \* entries of a PAE PDPT (4)
  Space32,      \* units that 32 bits address (2^32)
  Byte,         \* values of a byte (256)
  ModuleLists,  \* what GRUB may pass: sequences of [start, end]
  Kernels,      \* what the first module may hold: [valid, entry, phdrs]
  LoaderBytes   \* what loader_data may hold, byte by byte, but its checksum

ASSUME BootAssumption ==
  /\ PageUnits \in Nat \ {0} /\ PaeEntries \in 1 .. Fanout
  /\ StackPage \in Pages /\ BootPd < StackPage
  /\ 0 .. BootPd \subseteq LoaderPool /\ LoaderPool \subseteq Pages
  /\ PoolUnit \in Nat /\ Space32 \in Nat \ {0} /\ Byte \in Nat \ {0}

VARIABLES
  stage,        \* where loader and kernel are
  mem,
  mods, kernel, \* what GRUB passed
  loadAddr,     \* calculateLoadAddr()
  seg,          \* the module calculateLoadAddr() is at, then the program
                \*   header load_elf() is at
  loaderData,   \* loader_data, from when it is filled in to when it is read
  cpu           \* paging: CR0.PG, pae: CR4.PAE, long: EFER.LME, cr3, and the
                \*   PDPTEs the CPU keeps while PAE paging is on

input == <<mods, kernel>>
bootvars == <<stage, mem, input, loadAddr, seg, loaderData, cpu>>

JUNK == -1
PageOf(a) == a \div PageUnits
Window == 2     \* the virtual page 0x400000 is in

(* The low half of a 64-bit number, and what a 32-bit one keeps of a sum *)
Low(a) == a % Space32

(* alignUp(v, 0x200000) *)
PageUp(a) == PageUnits * (Low(a + PageUnits - 1) \div PageUnits)

(***************************************************************************)
(* GRUB puts modules at 1 MiB and above, and not into the last 2 MiB below *)
(* 4 GiB, which are no memory.                                             *)
(***************************************************************************)
ASSUME ModulesAssumption ==
  \A list \in ModuleLists :
    /\ list \in Seq([start : Nat, end : Nat])
    /\ \A j \in DOMAIN list : list[j].start >= PoolUnit /\ list[j].end + PageUnits <= Space32

(***************************************************************************)
(* A kernel, if it is one, is linked as kernel.lds says: into the page at  *)
(* 4 MiB, its entry too, with segments that do not overlap.  Whether they  *)
(* fit the page, and where the modules are, is for the loader to check.    *)
(***************************************************************************)
Loaded(k) == {j \in DOMAIN k.phdrs : k.phdrs[j].load}

Linked(k) ==
  /\ PageOf(k.entry) = Window
  /\ Loaded(k) # {}
  /\ \A j \in Loaded(k) :
       k.phdrs[j].vaddr = Low(k.phdrs[j].paddr) /\ PageOf(k.phdrs[j].vaddr) = Window
  /\ \A j, l \in Loaded(k) :
       j < l => \/ k.phdrs[j].vaddr + k.phdrs[j].filesz <= k.phdrs[l].vaddr
                \/ k.phdrs[l].vaddr + k.phdrs[l].filesz <= k.phdrs[j].vaddr

(* The file is all in its module. *)
Whole(k, list) ==
  \A j \in Loaded(k) : list[1].start + k.phdrs[j].off + k.phdrs[j].filesz <= list[1].end

ASSUME KernelsAssumption ==
  /\ LoadPage = Window
  /\ Kernels \subseteq
       [valid : BOOLEAN, entry : Nat,
        phdrs : Seq([load : BOOLEAN, off : Nat, paddr : Nat, vaddr : Nat,
                     filesz : Nat, memsz : Nat])]
  /\ \A k \in Kernels :
       k.valid => Linked(k) /\ \A list \in ModuleLists \ {<<>>} : Whole(k, list)

Units == 0 .. (PageUnits * 8 - 1)
DirtyPage == [j \in Idx |-> [to |-> Phys(9), flags |-> {F_PRESENT, F_RW}]]

BootInit ==
  /\ stage = "pdpt"
  /\ mem = [a \in Units |-> a]
  /\ mods \in ModuleLists /\ kernel \in Kernels
  /\ loadAddr = 0 /\ seg = 1 /\ loaderData = <<>>
  /\ cpu = [paging |-> FALSE, pae |-> FALSE, long |-> FALSE, cr3 |-> JUNK, pdptes |-> <<>>]
  /\ tracked = {} /\ refs = [p \in Pages |-> 0]
  /\ \E clean \in SUBSET LoaderPool :
       table = [p \in Pages |-> IF p \in clean THEN ZeroPage ELSE DirtyPage]
  /\ status = "running" /\ freed = FALSE

At(s) == stage = s /\ status = "running"

(* A failing assert or panic_msg() *)
LoaderPanic == Panic /\ UNCHANGED <<stage, mem, loadAddr, seg, input, loaderData, cpu>>

(* A page fault: there is no IDT. *)
PageFault ==
  /\ status' = "fault"
  /\ UNCHANGED <<tracked, refs, table, freed, stage, mem, loadAddr, seg, input, loaderData, cpu>>

LoaderFree == LoaderPool \ tracked
BigPage(n) == PageEntry(Phys(n), {})
SmallEntry(p) == [to |-> p, flags |-> {F_PRESENT}]

-----------------------------------------------------------------------------
(* PAE tables.                                                             *)

(* The constructor of pae::Pdpt clears its own entries only. *)
PaeCleared == [j \in Idx |-> IF j < PaeEntries THEN Zero ELSE table[Root][j]]

(* setAlloc(0x100000); new (0x100000) Pdpt *)
NewPdpt ==
  /\ At("pdpt") /\ stage' = "low"
  /\ tracked' = tracked \cup {Root}
  /\ table' = [table EXCEPT ![Root] = PaeCleared]
  /\ mem' = [mem EXCEPT ![PoolUnit] = JUNK]
  /\ UNCHANGED <<refs, status, freed, loadAddr, seg, input, loaderData, cpu>>

PaePd == table[Root][0].to

(* pae::Pdpt::map(), with the page directory and without it. *)
PaeMap(v, n) ==
  IF Present(table[Root][0])
  THEN /\ table' = [table EXCEPT ![PaePd][v] = BigPage(n)]
       /\ UNCHANGED tracked
  ELSE LET new == Lowest(LoaderFree) IN
       /\ table' = [table EXCEPT ![new] = [ZeroPage EXCEPT ![v] = BigPage(n)],
                                 ![Root][0] = SmallEntry(new)]
       /\ tracked' = tracked \cup {new}

MapLow ==
  /\ At("low") /\ stage' = "high"
  /\ PaeMap(0, 0)
  /\ UNCHANGED <<refs, status, freed, mem, loadAddr, seg, input, loaderData, cpu>>

MapHigh ==
  /\ At("high") /\ stage' = "apply"
  /\ PaeMap(1, 1)
  /\ UNCHANGED <<refs, status, freed, mem, loadAddr, seg, input, loaderData, cpu>>

Switch(from, to, state) ==
  /\ At(from) /\ stage' = to
  /\ cpu' = state
  /\ UNCHANGED <<pmvars, mem, loadAddr, seg, input, loaderData>>

(* PDPTEs are read when CR3 is loaded under PAE paging, or PAE paging is   *)
(* switched on, and not when they change in memory.                        *)
Pdptes(root) == [j \in 0 .. (PaeEntries - 1) |-> table[root][j]]
LoadCr3 == [cpu EXCEPT !.cr3 = Root,
                       !.pdptes = IF cpu.paging /\ cpu.pae THEN Pdptes(Root) ELSE @]

(* pdp->apply(); pae_enable(); pm_enable() *)
EnablePaging ==
  \/ Switch("apply", "pae", LoadCr3)
  \/ Switch("pae", "pm", [cpu EXCEPT !.pae = TRUE])
  \/ Switch("pm", "mods", [cpu EXCEPT !.paging = TRUE, !.pdptes = Pdptes(cpu.cr3)])

-----------------------------------------------------------------------------
(* Finding room for the kernel, and the kernel.                            *)

FindLoadAddr ==
  /\ At("mods")
  /\ IF mods = <<>>
     THEN LoaderPanic
     ELSE /\ stage' = "addr"
          /\ loadAddr' = Window * PageUnits
          /\ UNCHANGED <<pmvars, mem, seg, input, loaderData, cpu>>

(* One iteration of calculateLoadAddr(), and its return *)
calculateLoadAddr ==
  /\ At("addr") /\ seg <= Len(mods)
  /\ loadAddr' = IF mods[seg].end > loadAddr THEN PageUp(mods[seg].end) ELSE loadAddr
  /\ seg' = seg + 1
  /\ UNCHANGED <<pmvars, stage, mem, input, loaderData, cpu>>

LoadAddrFound ==
  /\ At("addr") /\ seg > Len(mods)
  /\ stage' = "elf" /\ seg' = 1
  /\ UNCHANGED <<pmvars, mem, loadAddr, input, loaderData, cpu>>

(* What the PAE tables map below the window, they map to itself. *)
PaeMapped(a) == PageOf(a) \in {0, 1}

modStart == mods[1].start

(* The ELF header is there, and is one of a 64-bit file. *)
ElfValid == kernel.valid /\ mem[modStart] = modStart

(* The ELF header, at the start of the module, is read. *)
CheckElf ==
  /\ At("elf")
  /\ IF ~PaeMapped(modStart) THEN PageFault
     ELSE IF ~ElfValid THEN LoaderPanic
     ELSE /\ stage' = "seg"
          /\ UNCHANGED <<pmvars, mem, loadAddr, seg, input, loaderData, cpu>>

-----------------------------------------------------------------------------
(* One iteration of load_elf(): map the segment's page at the window, copy *)
(* the segment, unmap the window.                                          *)

ph == kernel.phdrs[seg]

paddr32 == Low(ph.paddr)
size32 == Low(ph.filesz)
off32 == Low(ph.off)
memsz32 == Low(ph.memsz)
paddrPage == PageOf(paddr32)

(* Mutant of Accepted: the address to load at is not compared. *)
AcceptedAnywhere == memsz32 <= PageUnits

Accepted == memsz32 <= PageUnits /\ paddrPage * PageUnits >= loadAddr

(* The copy runs out of the window, or reads beyond what is mapped. *)
CopyFaults ==
  \/ (paddr32 % PageUnits) + size32 > PageUnits
  \/ \E k \in 0 .. (size32 - 1) : PageOf(modStart + off32 + k) > Window

(* Unit k as the copy reads it: at the window it finds the destination. *)
SourceUnit(k) ==
  LET a == modStart + off32 + k IN IF PaeMapped(a) THEN mem[a] ELSE JUNK

(* pae::Pdpt::unmap(); the directory is there *)
PaeUnmapped(v) == [table EXCEPT ![PaePd][v] = Zero]

SkipSegment ==
  /\ At("seg") /\ seg <= Len(kernel.phdrs) /\ ~ph.load
  /\ seg' = seg + 1
  /\ UNCHANGED <<pmvars, stage, mem, loadAddr, input, loaderData, cpu>>

LoadSegment ==
  /\ At("seg") /\ seg <= Len(kernel.phdrs) /\ ph.load
  /\ IF ~Accepted THEN LoaderPanic
     ELSE IF CopyFaults THEN PageFault
     ELSE /\ mem' = [a \in Units |->
                       IF a - paddr32 \in 0 .. (size32 - 1)
                       THEN SourceUnit(a - paddr32) ELSE mem[a]]
          /\ table' = PaeUnmapped(Window)
          /\ seg' = seg + 1
          /\ cpu' = LoadCr3
          /\ UNCHANGED <<tracked, refs, status, freed, stage, loadAddr, input, loaderData>>

-----------------------------------------------------------------------------
(* 64-bit tables.                                                          *)

(* Mutant of PmDisable: paging stays on while the PDPT is replaced. *)
PmDisableNot == seg > Len(kernel.phdrs) /\ Switch("seg", "off", cpu)

PmDisable ==
  seg > Len(kernel.phdrs) /\ Switch("seg", "off", [cpu EXCEPT !.paging = FALSE])

(* Mutant of NewPml4: as much is cleared as of a PAE PDPT. *)
NewPml4Short ==
  /\ At("off") /\ stage' = "long0"
  /\ table' = [table EXCEPT ![Root] = PaeCleared]
  /\ UNCHANGED <<tracked, refs, status, freed, mem, loadAddr, seg, input, loaderData, cpu>>

(* new (0x100000) Pml4, where the PAE PDPT is *)
NewPml4 ==
  /\ At("off") /\ stage' = "long0"
  /\ table' = [table EXCEPT ![Root] = ZeroPage]
  /\ UNCHANGED <<tracked, refs, status, freed, mem, loadAddr, seg, input, loaderData, cpu>>

(* pm64::Pml4::map(), by which structures are there. *)
LongMap(v, n) ==
  LET new == Lowest(LoaderFree)
      second == Lowest(LoaderFree \ {new})
      filled == [ZeroPage EXCEPT ![pdi(v)] = BigPage(n)]
  IN
  IF HasPd(v)
  THEN /\ table' = [table EXCEPT ![pd(v)][pdi(v)] = BigPage(n)]
       /\ UNCHANGED tracked
  ELSE IF HasPdpt(v)
  THEN /\ table' = [table EXCEPT ![new] = filled,
                                 ![pdpt(v)][pdpti(v)] = SmallEntry(new)]
       /\ tracked' = tracked \cup {new}
  ELSE /\ table' = [table EXCEPT ![second] = filled,
                                 ![new] = [ZeroPage EXCEPT ![pdpti(v)] = SmallEntry(second)],
                                 ![Root][pml4i(v)] = SmallEntry(new)]
       /\ tracked' = tracked \cup {new, second}

LongStep(from, to, v, n) ==
  /\ At(from) /\ stage' = to
  /\ LongMap(v, n)
  /\ UNCHANGED <<refs, status, freed, mem, loadAddr, seg, input, loaderData, cpu>>

MapLoader ==
  \/ LongStep("long0", "long1", 0, 0)
  \/ LongStep("long1", "long2", 1, 1)

MapKernel == LongStep("long2", "cr3", PageOf(kernel.entry), PageOf(loadAddr))

ApplyPml4 == Switch("cr3", "enter", LoadCr3)

Sum(bytes) == Seqs!FoldLeft(LAMBDA x, y : x + y, 0, bytes)

(* loader_data, with a checksum that makes the sum of its bytes zero *)
FillLoaderData ==
  /\ At("enter") /\ stage' = "jump"
  /\ \E bytes \in LoaderBytes :
       loaderData' = Append(bytes, (Byte - (Sum(bytes) % Byte)) % Byte)
  /\ UNCHANGED <<pmvars, mem, loadAddr, seg, input, cpu>>

(* long_enter(entry64), whose page has just been mapped *)
LongEnter == Switch("jump", "entry", [cpu EXCEPT !.long = TRUE, !.paging = TRUE])

LoaderStep ==
  \/ NewPdpt \/ MapLow \/ MapHigh \/ EnablePaging
  \/ FindLoadAddr \/ calculateLoadAddr \/ LoadAddrFound
  \/ CheckElf \/ SkipSegment \/ LoadSegment
  \/ PmDisable \/ NewPml4 \/ MapLoader \/ MapKernel \/ ApplyPml4 \/ FillLoaderData

-----------------------------------------------------------------------------
(* The kernel takes over.                                                  *)

(* validateLoaderData() *)
Validate ==
  /\ At("validate")
  /\ IF Sum(loaderData) % Byte # 0
     THEN LoaderPanic
     ELSE /\ stage' = "retain"
          /\ UNCHANGED <<pmvars, mem, loadAddr, seg, input, loaderData, cpu>>

(* retainLoaderPaging(): the loader's tracking bits are copied, references *)
(* are counted, and the pages behind the last structure are cleared.  The  *)
(* stack is among them: clearing it, memset() overwrites its own limit and *)
(* stops there.  loader_data is not read any more.                         *)
Retain ==
  /\ At("retain") /\ stage' = "retained"
  /\ refs' = [p \in Pages |-> IF p \in tracked THEN Entries(p) ELSE 0]
  /\ table' = [p \in Pages |->
       IF (\A q \in tracked : q < p) /\ p < StackPage THEN ZeroPage ELSE table[p]]
  /\ loaderData' = <<>>
  /\ UNCHANGED <<tracked, status, freed, mem, loadAddr, seg, input, cpu>>

-----------------------------------------------------------------------------
(* Properties.                                                             *)

(***************************************************************************)
(* HandsOver: whatever the memory held before, the kernel finds the paging *)
(* structures that module Paging starts from: the four retained pages, no  *)
(* stale entry in any of them, and a reference for each present entry.     *)
(***************************************************************************)
HandsOver ==
  stage = "retained" =>
    /\ tracked = {Root, BootPae, BootPdpt, BootPd}
    /\ \A p \in tracked : table[p] = BootContents(p)
    /\ \A p \in Pages : refs[p] = IF p \in tracked THEN Entries(p) ELSE 0

(* What the CPU makes of a page below the window, in the mode it is in *)
Translated(v) ==
  IF cpu.long THEN Get(v)
  ELSE LET dir == cpu.pdptes[0] IN
       IF cpu.pae /\ Present(dir) /\ F_PS \in table[dir.to][v].flags
       THEN table[dir.to][v].to ELSE NONE

(***************************************************************************)
(* CodeStaysMapped: while paging is on, the CPU finds the loader, the      *)
(* stack and the paging structures where they are, although the loader     *)
(* builds its 64-bit tables in the page its PAE PDPT is in                 *)
(* (loader.cpp:76-83), over tables the CPU has been using; later the same  *)
(* pages are the kernel's.                                                 *)
(***************************************************************************)
CodeStaysMapped ==
  (cpu.paging /\ status = "running") =>
    /\ cpu.cr3 = Root
    /\ \A v \in {0, 1} : Translated(v) = Phys(v)

(***************************************************************************)
(* KernelInPlace: a kernel that is entered finds itself, every unit of     *)
(* every segment, at the virtual address it was linked for, however the    *)
(* modules lay: one that overlaps the paging structures or the place the   *)
(* kernel goes to is refused before that.                                  *)
(***************************************************************************)
KernelInPlace ==
  stage \in {"entry", "validate", "retain", "retained"} =>
    \A j \in Loaded(kernel) :
      LET s == kernel.phdrs[j] IN
      \A k \in 0 .. (s.filesz - 1) :
        LET a == s.vaddr + k IN
        /\ HasPage(PageOf(a))
        /\ \E n \in 0 .. 7 :
             /\ Get(PageOf(a)) = Phys(n)
             /\ mem[n * PageUnits + (a % PageUnits)] = modStart + s.off + k

=============================================================================
