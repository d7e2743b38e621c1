------------------------------ MODULE PhysPages ------------------------------
(***************************************************************************)
(* The physical page allocator of kernel/mem/mm.cpp: the bitmap            *)
(* m_physicalTrackingStructure and the loop of allocPhysicalPages(), one   *)
(* iteration a step.  Pages are numbered: page n is the 2 MiB at n << 21.  *)
(*                                                                         *)
(* The loop sets the bit  1 << (n & 63), an int shift.  What the build     *)
(* makes of it is a 32-bit shift, whose count is taken modulo 32, and a    *)
(* sign extension to 64 bits; so two pages of a word share every mask, and *)
(* the mask of the last one of each half covers the whole upper half.  The *)
(* loop that reverts a failed allocation clears the bits of the number     *)
(* n & 63 itself.                                                          *)
(***************************************************************************)
EXTENDS Integers, Sequences

CONSTANTS
  WordBits,     \* bits of a word of the bitmap (64)
  IntBits,      \* bits of an int (32)
  StartPage,    \* the first page allocated (0x600000 >> 21)
  PhysSize      \* PHYS_SIZE >> 21

ASSUME WordAssumption ==
  WordBits \in Nat /\ IntBits \in Nat \ {0} /\ IntBits < WordBits
ASSUME PhysAssumption == StartPage \in Nat /\ PhysSize \in Nat

VARIABLES
  words,        \* m_physicalTrackingStructure: the bits set in each word
  pages,        \* the caller's array, as far as the loop has filled it
  cursor        \* addr

physvars == <<words, pages, cursor>>

Bits == 0 .. (WordBits - 1)
Word(n) == n \div WordBits

(* size_t bit = 1 << ((addr >> 21) & 0x3F) *)
Mask(n) ==
  IF n % IntBits = IntBits - 1 THEN (IntBits - 1) .. (WordBits - 1)
                               ELSE {n % IntBits}

(* size_t bit = (addr >> 21) & 0x3F *)
RevertMask(n) == {b \in Bits : ((n % WordBits) \div 2^b) % 2 = 1}

Taken(n) == words[Word(n)] \cap Mask(n) # {}

(* mm::init() *)
PhysInit ==
  /\ words = [w \in 0 .. Word(PhysSize) |-> {}]
  /\ pages = <<>>
  /\ cursor = 0

PhysStart ==
  /\ pages' = <<>>
  /\ cursor' = StartPage
  /\ UNCHANGED words

(* Mutants of PhysTake: the bit is not set; a page too many is taken. *)
PhysTakeUnmarked(count) ==
  /\ Len(pages) # count /\ cursor < PhysSize
  /\ ~Taken(cursor)
  /\ pages' = Append(pages, cursor)
  /\ cursor' = cursor + 1
  /\ UNCHANGED words

PhysTakeOneMore(count) ==
  /\ Len(pages) <= count /\ cursor < PhysSize
  /\ ~Taken(cursor)
  /\ words' = [words EXCEPT ![Word(cursor)] = @ \cup Mask(cursor)]
  /\ pages' = Append(pages, cursor)
  /\ cursor' = cursor + 1

PhysTake(count) ==
  /\ Len(pages) # count /\ cursor < PhysSize
  /\ ~Taken(cursor)
  /\ words' = [words EXCEPT ![Word(cursor)] = @ \cup Mask(cursor)]
  /\ pages' = Append(pages, cursor)
  /\ cursor' = cursor + 1

(* Mutants of PhysSkip: a page in use makes the loop skip the next one     *)
(* too; it makes the loop stay where it is.                                *)
PhysSkipTwo(count) ==
  /\ Len(pages) # count /\ cursor < PhysSize
  /\ Taken(cursor)
  /\ cursor' = cursor + 2
  /\ UNCHANGED <<words, pages>>

PhysSkipStuck(count) ==
  /\ Len(pages) # count /\ cursor < PhysSize
  /\ Taken(cursor)
  /\ UNCHANGED physvars

PhysSkip(count) ==
  /\ Len(pages) # count /\ cursor < PhysSize
  /\ Taken(cursor)
  /\ cursor' = cursor + 1
  /\ UNCHANGED <<words, pages>>

(* result(0) *)
PhysDone(count) ==
  /\ Len(pages) = count
  /\ UNCHANGED physvars

(* "Physical alloc failed, reverting alloc state": result(1) *)
PhysFail(count) ==
  /\ Len(pages) # count /\ cursor >= PhysSize
  /\ words' = [w \in DOMAIN words |->
       words[w] \ UNION {RevertMask(pages[i]) :
                           i \in {j \in DOMAIN pages : Word(pages[j]) = w}}]
  /\ UNCHANGED <<pages, cursor>>

=============================================================================
