# A TLA+ verification of x86-64k

x86-64k is a small 64-bit kernel: a 32-bit loader started by GRUB, and a kernel
with 2 MiB paging, a memory manager and a heap. This directory holds TLA+ models
of those parts and of the machine they make together, the TLC configurations that
check them on small instances, and TLAPS proofs, for every instance, about the heap,
the paging structures, the memory manager, the start from GRUB to a running kernel, what
that kernel keeps, and the buffer its numbers are printed from.
Source paths below are relative to the repository.

## The system

Everything runs on one CPU with interrupts off (`entry.s`, `multiboot.s`), so
nothing is interleaved and nothing is waited for. What is hard is state that
outlives the call that left it: links, entries, reference counts and bits that
one operation leaves behind and a later one, perhaps many calls later, relies on.

| component | state | operations | used by |
|---|---|---|---|
| loader (`loader/loader.cpp`, `loader/mem`) | tracking bits of the page pool, PAE tables, 64-bit tables, memory | `loader_main`, `calculateLoadAddr`, `load_elf`, `pae::Pdpt::map/unmap`, `pm64::Pml4::map`, `pm::alloc` | GRUB starts it; it jumps to the kernel and passes `loader_data` |
| kernel start (`kernel/entry.s`, `kernel/main.cpp`) | - | constructors, `validateLoaderData`, `retainLoaderPaging`, `mm::init`, `heap::init` | entered by the loader |
| paging structures (`kernel/mem/pm.cpp`) | pool of 4 KiB pages, tracking bits, reference counts | `Pml4::map/unmap/get`, `pm::alloc/free/incRefs/decRefs` | `mm` |
| physical pages (`kernel/mem/mm.cpp`) | one bit for each 2 MiB page | `allocPhysicalPages` | `mm::alloc` |
| memory manager (`kernel/mem/mm.cpp`) | none of its own | `mm::alloc/free`, `findVirtualRange` | `heap::init` |
| heap (`kernel/mem/heap.cpp`) | list of headers in its region | `reset`, `alloc`, `allocAligned`, `free`, `freeChecked` | `new`, `delete` |
| allocation operators (`kernel/algo/new.hpp`) | - | `new`, `delete`, plain and sized | all of the kernel |
| debug output (`sys/debug.cpp` of both programs) | - | `vprintf`, `puts`, `print` | every component, and `assert` |
| strings and numbers (`algo/itoa.hpp`, `algo/string.cpp`) | - | `itoa`, `str` | debug output |

What makes each correct:

* heap: what clients hold never overlaps; a free is accepted exactly for what is
  held; nothing is lost by splitting and merging; a call fails only for want of
  room, and returns.
* paging: the structures are a tree of allocated pages whose counts match their
  entries; a mapping changes only by `map` and `unmap` of that page.
* physical pages and memory manager: a block is mapped, on pages of its own; the
  range chosen is still free when it is bound; what is freed can be used again.
* loader: a kernel that is entered is in place, and inherits clean structures; the
  CPU always finds the code it runs.
* kernel start: a kernel that is entered comes up, on memory nobody cleared, and the
  heap it sets up keeps its pages.
* debug output: what one conversion leaves behind does not show in the next.

`PROJECT.json` lists the hazards, each at its line, with the properties that
cover it.

## The modules

| module | models | notes |
|---|---|---|
| `Heap` | `heap.cpp`, `new.hpp` | one step for each loop iteration |
| `HeapContract` | what `heap.hpp` promises | abstract: blocks taken and released, no headers |
| `HeapProofs` | theorems about `Heap` | |
| `PagingProofs` | theorems about `Paging` | |
| `MemoryProofs` | theorems about `Memory` and `PhysPages` | extends `PagingProofs` |
| `BootProofs` | invariants of `Boot` | extends `PagingProofs` |
| `SystemProofs` | theorems about `System` | composes `MemoryProofs` and `BootProofs` |
| `KeepProofs` | what holds of `System` after structures were freed | extends `SystemProofs` |
| `ComesUpProofs` | that an entered kernel of `System` comes up | extends `KeepProofs` |
| `DebugProofs` | theorems about `itoa` in `Debug` | |
| `Paging` | `pm.cpp` without `retainLoaderPaging` | each call is one step |
| `AddressSpace` | what `pm.hpp` promises of `Pml4` | abstract: a partial function |
| `PhysPages` | `allocPhysicalPages` | one step for each loop iteration |
| `Memory` | `mm.cpp` on `Paging` and `PhysPages` | composition, one step for each page |
| `Boot` | `loader.cpp`, `loader/mem`, `long_enter`, `validateLoaderData`, `retainLoaderPaging` | extends `Paging` |
| `System` | `entry.s`, `main.cpp`, `heap::init`, and clients | composes `Boot` and `Memory` |
| `Debug` | `vprintf`, `itoa`, `str` | one step for each turn of a loop |
| `MCHeap`, `MCPaging`, `MCMemory`, `MCSystem`, `MCDebug` | instances | |

**Heap.** `flags`, `length`, `prev`, `next` give, for every address, the fields a
`HeapHeader *` with that value reads. A split writes a header at a new address, a
merge zeroes one, so a stale pointer reads what is there now. `pc` and `hdr` are
the running call and its cursor. `blocks` (the headers linked in the list) and
`live` (what clients hold) are history variables. Clients may pass any pointer to
`free`. An unused address reads no magic: payload is assumed not to imitate a
header. A cut that does not lie in its block writes a header over memory that is
not the block's; the model stops in `"corrupt"` then, since what the heap does
from there on depends on the payload. `size_t` arithmetic wraps at `WordSize`
where the code adds the header size to a request.

**Paging.** `table[p]` is the content of page `p` of the pool, whatever it serves
as; an entry is a target and its flag bits. A page freed while entries still
point to it is read as what it holds next, and a walk that takes a physical page
for a table stops the model in `"wild"`. `freed` is a history variable. `unmap`
takes references and frees structures and clears no entry, as in the code. A page
allocated by a call that then panics for want of a second one is not tracked in
the halted state.

**PhysPages.** `1 << ((addr >> 21) & 0x3F)` is an int shift by up to 63. x86 takes
the count of a 32-bit shift modulo 32, and the result is sign-extended (gcc emits
`sall %cl` and `cltq`): two pages of a word share every mask, and the mask of bit
31 covers the upper half of the word. `Mask` is that. The revert loop uses the bit
number itself as a mask, `RevertMask`.

**Memory.** `mm::alloc` is `AllocStart` (with `findVirtualRange`), `AllocScan` for
each page looked at, `AllocBind` or `AllocFail`, `BindPage` for each page and
`AllocDone`. Flags are passed through as they are, as the casts of the code do.
`owned`, `handed`, `reverted` are history: blocks held, pages bound, whether an
allocation was reverted. Clients free only blocks they hold.

**Boot.** Memory is divided into a few units for each 2 MiB page; a unit holds the
address its content came from. GRUB may place modules anywhere from 1 MiB up,
also over the first paging structures or the kernel's place; every page of the
pool may be dirty. `calculateLoadAddr` is one step for each module, and `alignUp` wraps at 32 bits (`PageUp`).
64-bit ELF fields are cut to their low 32 bits where the code casts them (`Low`). A read or write outside the mapped pages is a fault (no IDT).
`cpu` holds the bits of CR0, CR4 and EFER that matter, CR3, and the PDPTEs, which the
CPU reads when CR3 is loaded and not when they change in memory. `long_enter` is one
step. Each change of a mapping in use is followed by a load of CR3, so the TLB is
not modelled. `loaderData` is the structure byte by byte in bytes of four values, the
checksum last. The kernel runs on the loader's stack, which lies in the pool it
clears; built without optimisation, `memset` overwrites its own limit and stops there,
and `Retain` clears only the pages below the stack.

**System.** There is one set of variables from the first instruction to the running
kernel: `Boot` and `Memory` extend the same `Paging`, and what is handed over is the
state itself. `EnterKernel` makes the `.bss` dirty (the bitmap and `kernelHeap`);
`Constructors`, `InitMemory` and `Retain` set what the code sets. The constructors run
from `_init`, where crtbegin.o of the `x86_64-elf` toolchain puts them. `HeapAsks` and
`HeapGets` are `heap::init` around the allocation, whose steps are `MemoryStep`. The
kernel itself calls nothing after that; `Calls` stands for the rest of a kernel that
uses `mm`, which frees only what it got and never the heap. The heap's region is a
block here, and module `Heap` begins where its region is given: `HeapKeepsItsPages` is
what entitles it to take its region for memory of its own.

**Debug.** A call is a list of directives; its format is what they are written as and
its arguments the words they are passed as. The code is modelled on the characters and
the words, what should be printed (`Expected`) is defined on the directives. The serial
port is the sequence of characters put. The kernel's numbers have two widths; the
loader's 64-bit arguments are two words of the stack. `buf` starts as anything and is
shared by the conversions of a call. The least value is negated as the `neg` of an
unoptimised build does. What a call that has run out of its format goes on to print is
not modelled.

## The runs

| run | question | result |
|---|---|---|
| `heap` | all sequences of `reset`, `alloc`, `new`, `free`, `delete` | 8 properties hold |
| `heap_aligned` | the same with `allocAligned`, until a cut outside its block | tiling and alignment hold |
| `heap_overlap` | does `allocAligned` keep blocks apart? | no (`heap.cpp:130`) |
| `heap_spin` | does every call return? | no: `while (1)` with nothing to change (`heap.cpp:114`) |
| `heap_free` | does the free of a held block complete? | no: stale `prev` (`heap.cpp:211`) |
| `paging` | all sequences of `map` and `unmap` | sound, and an address space, until a structure is freed |
| `memory` | all sequences of `mm::alloc` and `mm::free` | 6 properties hold |
| `memory_revert` | does a failed allocation revert its own marks only? | no (`mm.cpp:80`) |
| `memory_leak` | does `mm::free` release physical pages? | no (`mm.cpp:151`) |
| `memory_free` | does a legal `mm::free` complete? | no: alloc, free, alloc, free panics (`pm.cpp:226`) |
| `system` | from GRUB to a kernel that serves calls: module placings, kernels, dirty memory, then every sequence of calls | 9 properties hold |
| `debug` | pairs of directives, every value in every base, slices of slices | 5 properties hold |

The runs that end in a violation each state what a comment of the code says; the
findings in `PROJECT.json` quote it.

Properties of the passing runs:

* `HeapInv`: the headers tile the region and match what clients hold; `prev` links
  lead back to a header or to a zeroed one. `LiveBlocksApart`: no overlap.
  `AllFreedMeansOneBlock`: everything freed is merged again, in spite of stale
  `prev` links. `ForwardScansNeverBroken`: no scan meets a broken header.
  `NoneMeansNoFit`: giving up means no block fits. `OnlyLivePointersAreFreed`: a
  double free, or one of the middle of a block, is refused. `Implements`: the heap
  implements `HeapContract`. `CallsReturn`: every call ends. `AlignedAsAsked`:
  pointers are aligned.
* `SoundUntilFreed`: tree, tracking bits and counts agree until a structure is
  freed, and a page of the pool that is free has no count, since `pm::alloc` clears the
  page and not its count. `AsAddressSpace`: until then the structures implement `AddressSpace`.
* `BlocksMapped`, `NoFrameTwice`, `BindFindsRoom`, `FailsOnlyWhenShared`: see the
  comments in `Memory`. `FramesOwn`: until an allocation is reverted no two pages that
  clients hold or the loader mapped have the same physical page.
* `HandsOver`: the kernel takes over the structures `Paging` starts from.
  `KernelInPlace`: an entered kernel is where it was linked, whatever the modules
  covered. `CodeStaysMapped`: with paging on, the CPU finds loader and stack where they
  are, in whichever mode it is.
* `KernelComesUp`: every start ends in a kernel that is up or a kernel that was refused;
  one that was entered comes up. `EnteredNeverStops` is its safety part: from the entry
  point to the end of `heap::init` nothing stops the machine. `BitmapExact`: until a revert the bitmap is the set of
  pages taken, nothing else, in spite of the `.bss`.
* `HeapKeepsItsPages`: with `memory_revert` and freed structures in the same run, the
  mapping of the kernel and of the heap stays what it was and no client is given their
  pages. Neither defect reaches them: the heap's block, never freed, keeps a directory
  and its PDPT allocated, and its bits lie in words a revert does not reach.
  `StackOutOfReach`: directories never grow up to the stack. `MemoryCallsReturn`: every
  call of `mm` ends.
* `TypeOK` of `Debug`: `itoa` works on words, and its indices are those of its buffer or
  one before it. `PrintsAsWritten`, `ReadsInFormat`, `StaysInBuffer`, `EveryCallEnds`: see the comments
  in `Debug`.

### Bounds

* Heap: a region of 14 units with headers of 2, sizes 0, 1 and 3: up to five
  blocks, sizes on both sides of a split and of an exact fit, and runs of free
  blocks in front of and behind a freed one. Alignments 2 and 4 make paddings of
  zero, shorter than a header and longer. `WordSize` is out of reach of the sizes.
* Paging: three entries in a table (the loader's directory is full), three free
  pages in the pool, clients mapping under two new directories of the loader's
  PDPT and two directories of new ones: all three ways of `map`, the pool running
  out, directories and PDPTs freed and reused in each other's role.
* Memory: words of 8 bits and ints of 4 keep the two-to-one masks and the long one
  over two words; eleven virtual pages, thirteen physical ones of which eight have
  masks of their own. Pool, virtual room and physical pages can each run out first.
* System: four units to a page and 32 units below 4 GiB; six module lists and five
  kernels, one with an address and a size beyond 4 GiB; all contents of five dirty or
  clean pages. Tables of four entries, a pool of eight pages with the stack in the
  last, words of 16 bits and ints of 8, fifteen physical pages for blocks of one and
  three and a heap of two, so that pages run out, calls revert, and directories are
  freed, reused and shared. No call goes astray in this instance; in `paging` they do.
* Debug: 32-bit values are 4 bits and 64-bit ones 8, so that `bufferSize` is 9 and the
  addresses have one and two digits. All pairs of plain directives in both programs,
  with zero, one and more digits, the least and the greatest value; all with a width
  and a pad character, with one of them, or cut off, behind each plain one; all 256
  values in bases 2, 10 and 16, signed and not; slices with bounds in and out of
  strings of up to three characters.

### Fairness

`CallsReturn` assumes weak fairness of `Step`, the steps of a heap call that has begun;
`KernelComesUp` and `MemoryCallsReturn` that of `Running`, the steps of loader, kernel
start and running `mm` call; `EveryCallEnds` that of the one sequential program. With
one CPU, interrupts off and no blocking the next instruction is always executed.
Nothing is assumed of clients: `Calls` has no fairness.

## The proofs

What TLC checks on small instances is proved here for every value of the constants:
every header size, pool, fanout, word width, module list, kernel and request. Each
module has one inductive invariant; each action has a lemma that it keeps the parts it
touches; the theorems follow from the invariant.

### Heap

* `HeapInvariant`: `Spec => []HeapInv`. Tiling alone is not inductive. `free` walks
  `prev` links, so `BackLinked` says where they may lead, although they need not be
  neighbours; `CursorLinked` places the cursor of the running call; `ScanSound` says
  what the blocks already passed have in common; `OneWhenFree` that with nothing held
  there is one block except while `free` merges.
* From it: `TypeCorrect`, `NeverBroken`, `FreesOnlyLive`, `FreedHeapIsWhole`,
  `GivesUpOnlyWhenFull`.
* `PointersAligned`, with `OnBoundary`: while `allocAligned` looks at a block its
  candidate is a multiple of the alignment. It rests on a lemma on `alignUp`.
* `NoOverlap` and `HeapImplementsContract`, under `PlainRequests`: no aligned
  requests, and none whose size wraps with the header's. Both assumptions are
  needed: `heap_overlap` refutes the first without alignment excluded, and with a
  wrapping size `alloc` returns a block the heap does not have.

Assumptions: a header has a size, a region holds at least one header and does not start
at zero, sizes are naturals and alignments positive.

### Paging

* `PagingInv` is `TypeOK /\ SoundUntilFreed`, and is inductive as it stands: what the
  structures say of pages that are not reachable from the PML4 does not matter, but for
  the counts of free pages, which are in `CountsAgree`.
* `Sound` names a table by the path to it. A step that links a page changes paths, so
  the proof uses `SoundByIndex`, the same said of entries (`SoundIsByIndex`), and three
  lemmas, one for each depth at which `map` links: `FillEntry`, `LinkPd`, `LinkPdpt`.
  `EntriesAdd` and its neighbours count the entries of a table.
* From it: `TypeCorrect`, `TablesStaySound`, `NoStrayUntilFreed` (no walk leaves the
  pool, and `map` stops the machine only for a mapped page or an exhausted pool), and
  `PagingImplementsSpace`, the refinement of `AddressSpace`. For that `IndicesDetermine`
  shows that a page is determined by its three indices, so that a new entry shows at
  one page only.

Assumptions: tables of at least three entries and a pool of at least four pages (the
loader's own), physical pages are naturals, clients map and unmap pages that exist.

### Memory manager

* `MemInv` adds to `SoundUntilFreed`: `CallShape` (arguments and locals of the running
  call), `BitmapInv` (until a revert the bitmap is the union of the masks of the pages
  in use, what a call has taken is new until it binds it, and the scan has passed only
  taken pages), `BlocksInv` (blocks are backed; the running call's range is apart from
  them, free where it is not bound yet, backed where it is), `FramesInv` (one physical
  page each) and `LoaderKept`. `BitmapInv` does not depend on `freed`, nor `BlocksInv` on
  `reverted`, so each theorem carries no more than the condition it needs.
* From it: `MemTypeCorrect`, `BlocksStayMapped`, `EachPageItsFrame`, `FrameBoundOnce`,
  `RangeStaysFree`, `FailsForCause`. That two pages share a mask does no harm here: the
  allocator takes the second for used (`FailsForCause` says what that costs).

Assumptions: an `int` is narrower than a word of the bitmap; the virtual range ends
inside the address space, with room for one block; pages are given out from behind those
the loader maps (`mm.cpp:56`); counts are naturals.

### From GRUB to a running kernel

* `BootProofs` has three invariants of the start. `TablesInv`: what the pool holds at
  each stage, whatever it held before; each step writes or clears every entry a later
  one reads. `LoadInv`: the load address is behind every module, so copying a
  segment overwrites neither the file nor the segments already copied. `CpuInv`: which
  tables the CPU uses, PDPTEs it has read included.
* `SystemProofs` composes: `SysInv` is the loader's invariants and `NothingYet` until
  `mm::init()`, and `MemInv` after it, with `CpuInv` and `HeapKept` throughout. `InitMemory`
  reaches `Fresh`, the state `MemInv` is proved from.
* Theorems: `LoaderHandsOver`, `KernelIsInPlace`, `BitmapIsExact`; `CodeIsMapped`, until the
  kernel frees a structure; `HeapPagesStay`, until then or until a revert;
  `KernelMemorySound`, the guarantees of `Memory` for the memory manager that was booted.

Assumptions: modules lie at 1 MiB or above and not in the last 2 MiB below 4 GiB; a
valid kernel is linked as `kernel.lds` has it, into the page at 4 MiB with segments that
do not overlap, and its file is whole in its module; the stack lies behind the loader's
tables; the heap's region is a size `mm::alloc` accepts. Whether segments fit the page,
and where modules are, is not assumed: the loader checks it.

### What a running kernel keeps

`CodeIsMapped` and `HeapPagesStay` end where the first structure is freed. `KeepProofs`
goes on from there. A freed directory stays linked, its entries stay present, and it is
handed out again for another place, so `Sound` is lost for good; what is left is an
invariant about the pages that nobody unmaps, those of the loader and of the heap.

* `KeepInv` has two phases. Until the heap has its block, `FirstCall`: nothing was ever
  unmapped and every entry is counted. After it, `Kept`:
  - `TablesApart`: the PDPTs are allocated, and no page is two of them, or PDPT and
    directory; directories may be free, or linked twice;
  - `PinnedApart`: the directory of a pinned page is allocated and linked once, so that
    `map` and `unmap` of another place do not reach it;
  - `CountsKept`: that directory has a reference for each held page in it, and the PDPT
    one for each allocated directory it links, so neither is freed while the heap's block
    is held;
  - `HeldOnce`: no page below that directory is in two blocks, since a mapping there is
    what `findVirtualRange` sees;
  - `PagesKept`: pages held there are mapped, and the pinned ones where they were first;
  - `FramesOnce`: until a revert no two entries of linked directories, stale ones
    included, have one physical page.
* Theorems: `CodeStays`, `HeapStaysMapped`, `NoWalkAstray`, and until a revert
  `HeapKeepsPages`.

All four are under `OnePdpt`: the pages that calls map have one PDPT between them. The
condition is needed for the argument. With two, a directory freed under one PDPT stays
linked there and may be handed out under the other; when it is freed again, `unmap` takes
the reference from the PDPT it came through, which need not be the one that counts it. The
heap's PDPT can then be freed while the heap is in it. The range of the kernel, 0x80000000
to 0xFFFF00000000, spans many PDPTs. The second is reached when the first shows no room,
after some 260,000 pages were bound; `PHYS_SIZE` has 32,768, so that takes reverts that
clear the bits of pages in use.
`OnePdpt` is a predicate of the state, not of the constants: the theorems say what
holds in every state that has one.

### An entered kernel comes up

`ComesUpProofs` proves the safety part of `KernelComesUp`.

* `ComesInv` adds to `KeepInv` what the first allocation there ever was needs:
  `HeapUnused` (the constructors ran, so `kernelHeap` has no region for `reset` to scan),
  `NothingUsed` (at `mm` the tables are the loader's four), `HeapAsking` (the range is the
  start of the virtual one, the scan passes page after page without meeting a taken one,
  and the first `map` finds two structures). `GoesOn` follows: no assertion fails, no walk
  goes astray, no page is missing. `PlaceInv` adds which pages were found.
* Theorems: `EnteredGoesOn`, `HeapFindsRange`, `HeapIsFirst`. `EnteredGoesOn` leaves out
  the stage `"validate"`: that the kernel sums `loader_data` to what the loader put in its
  checksum is a fact about a fold over its bytes, and is left to the run.

Assumptions, besides those above: `HeapFitsAssumption`. The virtual range starts behind
the loader's pages at a place from which the heap fits one directory (page 1024, the first
of a directory); the pool has a PDPT and a directory to spare; physical pages from the
first one `mm` gives out on are as many as the heap asks for, and none of them reaches bit
31 of the bitmap's first word, the mask that covers half of it.

### Numbers

`DebugProofs` proves that `bufferSize` is enough. After `n` digits at least `n` bits of the
value are used up: `BitsLeft` says that what is left is below 2^(bits - n), and for a
signed value, which is in base 10 and so uses up more than a bit with its first digit, one
place more is left for the sign. The library has no facts on powers, so 2^k is counted as
the subsets of `1 .. k`, of which `k + 1` has twice as many.

* `DirectCallsTyped` and `DirectCallsFit`: `TypeOK` and `StaysInBuffer` for the direct
  calls of `itoa`, for every width, base and value.
* `ConversionsFit`: `StaysInBuffer` for every conversion of `vprintf`, as long as what
  `itoa` is given is a word (`WordGiven`, a part of `TypeOK`). That holds because each
  letter of a format takes the argument its directive passed, which is an induction over
  the format, and is left to the run.

Assumptions: 64-bit values have twice the bits of 32-bit ones, bases are two or more,
`itoa` is called for words (`CallsAssumption`).

### Only model-checked

* Liveness: `CallsReturn`, `KernelComesUp`, `MemoryCallsReturn`, `EveryCallEnds`. The prover
  does not do fairness.
* `CodeStaysMapped` and `HeapKeepsItsPages` when clients' pages have more than one PDPT, and
  that no client gets the heap's physical pages after a revert: these hold in the run
  because of where its heap lies and which words its reverts reach.
* `EnteredNeverStops` while the checksum is compared.
* `StackOutOfReach`: a fact about how many directories the instance's range needs.
* `PrintsAsWritten` and `ReadsInFormat`, and `TypeOK` of `Debug` for `vprintf`: what folds
  over a format compute for every format takes induction over data.
* What the violation runs refute.

## Divergences without a run of their own

* `alloc` of nearly 2^64 bytes: the sum with the header size wraps and the call
  succeeds (`heap.cpp:74`).
* `unmap` leaves its page mapped (`pm.cpp:119`; `pm.hpp:56` "Unmaps 2MiB page"): the
  cause of `memory_free`. If pages may be unmapped twice, or without having been mapped,
  references are taken from structures in use, down to the loader's PDPT, and the
  kernel's own mapping is lost. `mm` does neither on its own, and with its calls only
  `HeapKeepsItsPages` holds.
* `AF_RW` becomes `F_PRESENT` and `AF_USER` becomes `F_RW` (`mm.cpp:105`).
* A kernel with a segment in a second page is accepted, and the page is not mapped
  (`loader.cpp:55-82`).
* `%d` of a negative 32-bit argument prints a large positive number: `itoa` is given the
  word zero-extended (`debug.cpp:77`, and `loader/sys/debug.cpp:51`). `Expected` says so.
* A width without a pad character pads with `char(-1)`; pad and width of one conversion
  go over to the next, and the digits of two widths are read as one number
  (`debug.cpp:55-69`). No format of the repository has a width.
* A format that ends in `%`, `%l` or digits is read beyond its end (`debug.cpp:126`).
* Pages behind the stack stay dirty (`pm.cpp:337-342`), and the pool that `pm::alloc`
  hands out from includes the stack, `loader_data` and the loader.

## Not modelled

The serial port's registers and polling (no state); `println()` and `dump()` (calls of
what is modelled); `memcpy` and `memset` as loops (modelled at their calls, by their
effect); `option` and `result` as types; ELF and multiboot headers (third-party
formats); the TLB and segment registers; `~Heap()` (the loop of `reset`, never run); the
payload of heap blocks.

## Plan

1. `Heap` with its contract and proofs; `Paging`; `PhysPages` and `Memory`; `Boot`;
   `System`; `Debug`. *Done.*
2. Proofs: heap; `Paging` with `AsAddressSpace`; `Memory`; `Boot` and `System`;
   `AlignedAsAsked`. *Done.*
3. Proofs across freed structures, of the kernel's start, and of `itoa`. *Done.*
4. Left: `CodeStaysMapped` and `HeapKeepsItsPages` without `OnePdpt`. That takes a condition
   on the order of calls under which a directory reused below another PDPT takes no
   reference from the heap's. And a bound on the directories in use, for
   `StackOutOfReach`.
