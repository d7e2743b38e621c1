------------------------------- MODULE MCHeap -------------------------------
(***************************************************************************)
(* Instances of Heap for TLC.  The unit is 16 bytes: a header is 2 units   *)
(* (32 bytes), which leaves room for paddings shorter than a header.       *)
(***************************************************************************)
EXTENDS Heap

MCRegions == {[base |-> 16, size |-> 14]}
=============================================================================
