----------------------------- MODULE MCGenHeap -----------------------------
(* Small instances of GenHeap for TLC. *)
EXTENDS GenHeap

OneSlot == <<"item">>

\* A call by an instruction is one by an operator that nobody waits for.
Nested == {"new", "operator"}
=============================================================================
