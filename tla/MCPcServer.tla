----------------------------- MODULE MCPcServer -----------------------------
(* Values of the constants of PcServer for TLC. *)
EXTENDS PcServer, TLC

\* Children and items are interchangeable.
Symmetry == Permutations(Procs) \cup Permutations(Items)
=============================================================================
