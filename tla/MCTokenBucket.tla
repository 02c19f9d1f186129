---------------------------- MODULE MCTokenBucket ----------------------------
(* Small instances of TokenBucket.                                         *)
EXTENDS TokenBucket, TLC

CONSTANTS p1, p2
=============================================================================
