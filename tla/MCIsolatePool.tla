---------------------------- MODULE MCIsolatePool ----------------------------
(* Small instances of IsolatePool for TLC. *)
EXTENDS IsolatePool

CONSTANTS k1, k2, k3

BatchOfTwo == {<<k1>>, <<k2, k3>>}

Singles == {<<k>> : k \in Tasks}
=============================================================================
