---------------------------- MODULE MCIsolateScope ----------------------------
(* Small trees of isolates for IsolateScope. *)
EXTENDS IsolateScope

CONSTANTS k1, k2
================================================================================
