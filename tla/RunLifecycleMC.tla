--------------------------- MODULE RunLifecycleMC ---------------------------
(***************************************************************************)
(* RunLifecycle on small instances.                                        *)
(***************************************************************************)
EXTENDS RunLifecycle, TLC

\* State tokens and requests are interchangeable: the specification only
\* compares them for equality.
Symmetry == Permutations(States) \union Permutations(Clients)
=============================================================================
