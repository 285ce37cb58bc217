----------------------------- MODULE MCRingBuf -----------------------------
(* Two writers, a buffer of three bytes.                                   *)
EXTENDS RingBuf, TLC
CONSTANTS v, w, x, y
=============================================================================
