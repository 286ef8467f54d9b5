---------------------- MODULE MCRuntimeCacheBootstrap -----------------------
(* Interchangeable processes starting over one cache root. *)
EXTENDS RuntimeCacheBootstrap, TLC

Symmetry == Permutations(Process)
=============================================================================
