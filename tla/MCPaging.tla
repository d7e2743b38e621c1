------------------------------ MODULE MCPaging ------------------------------
(***************************************************************************)
(* Instances of Paging for TLC: three entries per table; clients use pages *)
(* under two new PDs of the loader's PDPT and under two new PDPTs.         *)
(***************************************************************************)
EXTENDS Paging
=============================================================================
