--------------------------- MODULE MCIsolateCompiler ---------------------------
(* Small instances of IsolateCompiler. *)
EXTENDS IsolateCompiler, TLC

CONSTANTS t1, t2, v1, v2, v3, f1, f2, w1, w2

Interchangeable == Permutations(Threads) \cup Permutations(VMs) \cup Permutations(Funcs) \cup Permutations(Workers)
================================================================================
