---------------------------- MODULE HeapContract ----------------------------
(***************************************************************************)
(* What a heap promises its clients (heap.hpp, the comments on the class): *)
(* a block handed out lies inside the heap's region and keeps clear of     *)
(* every block still held, it is the client's until the client frees it,   *)
(* and the region changes only while nobody holds a block.  Nothing is     *)
(* said about headers, lists, or which block is chosen.                    *)
(***************************************************************************)
EXTENDS Integers

CONSTANT Gap    \* the distance kept between two blocks (the heap's header)

VARIABLES
  live,         \* the [ptr, size] blocks clients hold
  lo, hi        \* the region: lo .. hi - 1

Clear(b, c) ==
  \/ b.ptr + b.size + Gap <= c.ptr
  \/ c.ptr + c.size + Gap <= b.ptr

Init ==
  /\ live = {}
  /\ lo = 0 /\ hi = 0

(* alloc, allocAligned, new *)
Take(b) ==
  /\ lo <= b.ptr /\ b.ptr + b.size <= hi
  /\ \A c \in live : Clear(b, c)
  /\ live' = live \cup {b}
  /\ UNCHANGED <<lo, hi>>

(* free, freeChecked, delete *)
Release(b) ==
  /\ live' = live \ {b}
  /\ UNCHANGED <<lo, hi>>

(* reset *)
Renew ==
  /\ live = {} /\ live' = {}
  /\ lo' \in Nat /\ hi' \in Nat

Next ==
  \/ \E b \in live' : Take(b)
  \/ \E b \in live : Release(b)
  \/ Renew

Spec == Init /\ [][Next]_<<live, lo, hi>>

=============================================================================
