------------------------- MODULE MCRuntimeBlobCache -------------------------
(* Two processes over one cache root, the first with two threads; two       *)
(* releases that share no file; room for two of the three files' bytes.     *)
EXTENDS RuntimeBlobCache, TLC

CONSTANTS t1, t2, t3, p1, p2, r1, r2, f1, f2, g1

MCProcOf == (t1 :> p1) @@ (t2 :> p1) @@ (t3 :> p2)
MCIndex == (r1 :> {f1, f2}) @@ (r2 :> {g1})
MCSize == (f1 :> 1) @@ (f2 :> 2) @@ (g1 :> 1)
MCUnknown == {[files |-> 0, bytes |-> 0]}
MCSymmetry == Permutations({t1, t2})
=============================================================================
