------------------------------ MODULE MCMemory ------------------------------
(***************************************************************************)
(* Instances of Memory for TLC: 27 virtual pages of which the loader has   *)
(* mapped three, words of eight bits and ints of four.                     *)
(***************************************************************************)
EXTENDS Memory
=============================================================================
