---------------------------- MODULE MCIsolateWait ----------------------------
(* Small instances of IsolateWait for TLC. *)
EXTENDS IsolateWait, TLC

CONSTANTS i1, i2, w1

OneOrBoth == {<<i1>>, <<i1, i2>>}

JustOne == {<<i1>>}

Everything == w1 :> {"join", "waitAll", "waitAny"}

JustAny == w1 :> {"waitAny"}
=============================================================================
