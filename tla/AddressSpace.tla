---------------------------- MODULE AddressSpace ----------------------------
(***************************************************************************)
(* What Pml4 promises (kernel/mem/pm.hpp, the comments on the class): a    *)
(* partial function from virtual to physical pages, to which map() adds    *)
(* one page and from which unmap() takes one.  The promise is kept until a *)
(* paging structure is freed; it has lapsed then, and nothing is said of   *)
(* the function any more.                                                  *)
(***************************************************************************)
CONSTANT NoPage

VARIABLES
  space,        \* space[v]: the physical page v is mapped to, or NoPage
  lapsed

(* The loader has mapped some pages, the kernel among them. *)
Init ==
  /\ \E v \in DOMAIN space : space[v] # NoPage
  /\ lapsed = FALSE

Map(v) ==
  /\ space[v] = NoPage
  /\ space' = [space EXCEPT ![v] = space'[v]]
  /\ UNCHANGED lapsed

Unmap(v) ==
  /\ space[v] # NoPage
  /\ space' = [space EXCEPT ![v] = NoPage]
  /\ UNCHANGED lapsed

Lapse == lapsed' = TRUE

Next == (\E v \in DOMAIN space : Map(v) \/ Unmap(v)) \/ Lapse

Spec == Init /\ [][Next]_<<space, lapsed>>

=============================================================================
