------------------------------- MODULE MCJitTiers -------------------------------
(* Small instances of JitTiers. *)
EXTENDS JitTiers

CONSTANTS f1, s1, h1
=================================================================================
