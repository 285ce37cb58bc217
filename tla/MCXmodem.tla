------------------------------ MODULE MCXmodem ------------------------------
(* Small files, and a block number that wraps.                             *)
EXTENDS Xmodem, TLC
=============================================================================
