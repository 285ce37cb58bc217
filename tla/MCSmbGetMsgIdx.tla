--------------------------- MODULE MCSmbGetMsgIdx ---------------------------
(* Every index file of at most MaxLen records over message numbers         *)
(* 1..MaxNumber; targets run past the last number.                         *)
EXTENDS SmbGetMsgIdx, FiniteSets

CONSTANTS MaxNumber, MaxLen

MCIndexFiles ==
  {s \in UNION {[1..n -> 1..MaxNumber] : n \in 0..MaxLen} : Ascending(s)}

MCTargets == 1..(MaxNumber + 1)
=============================================================================
