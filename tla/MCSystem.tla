------------------------------ MODULE MCSystem ------------------------------
(***************************************************************************)
(* Instances of System for TLC.  A 2 MiB page has four units; the paging   *)
(* structures start in unit 2 (1 MiB), the loader is in unit 4 (2 MiB) and *)
(* the kernel goes to unit 8 (4 MiB).  There are 32 units below 4 GiB.     *)
(***************************************************************************)
EXTENDS System

Module(s, e) == [start |-> s, end |-> e]

(* GRUB puts modules at 1 MiB and above: behind the loader; over the       *)
(* paging structures; reaching into or lying in the kernel's place; a      *)
(* second module there; none.                                              *)
MCModuleLists == {
  <<Module(5, 8)>>, <<Module(2, 4)>>, <<Module(6, 9)>>, <<Module(8, 10)>>,
  <<Module(5, 8), Module(8, 9)>>, <<>>}

Load(off, addr, filesz, memsz) ==
  [load |-> TRUE, off |-> off, paddr |-> addr, vaddr |-> addr, filesz |-> filesz,
   memsz |-> memsz]

Note == [Load(0, 0, 0, 0) EXCEPT !.load = FALSE]
High(s) == [s EXCEPT !.paddr = @ + Space32]

Kernel(ok, entry, phdrs) == [valid |-> ok, entry |-> entry, phdrs |-> phdrs]

(* Kernels whose segments lie in one page, as kernel.lds lays them out,    *)
(* one of them with a physical address and a .bss beyond 4 GiB; a segment  *)
(* that is too large, one that does not end in its page, and a file that   *)
(* is no ELF.                                                              *)
MCKernels == {
  Kernel(TRUE, 8, <<Load(1, 8, 1, 1), Note, Load(0, 9, 1, 3)>>),
  Kernel(TRUE, 8, <<High(Load(0, 8, 2, 2 + Space32))>>),
  Kernel(TRUE, 8, <<Load(0, 8, 2, 5)>>),
  Kernel(TRUE, 8, <<Load(0, 8, 1, 1), Load(0, 11, 2, 2)>>),
  Kernel(FALSE, 8, <<>>)}

MCLoaderBytes == {<<3, 1, 0>>, <<3, 1, 1>>, <<3, 0, 2>>}
=============================================================================
