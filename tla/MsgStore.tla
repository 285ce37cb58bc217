------------------------------ MODULE MsgStore ------------------------------
(***************************************************************************)
(* What a message base promises about message text: a message has the text *)
(* it was stored with, from the moment its header is added until it is     *)
(* purged, whatever is stored, forwarded or purged around it.              *)
(***************************************************************************)
CONSTANTS Nums, Texts

VARIABLE store      \* message number -> text, of the messages in the base

Init == store = [n \in {} |-> 0]

Add(n, t) ==
  /\ n \notin DOMAIN store
  /\ store' = [k \in DOMAIN store \union {n} |-> IF k = n THEN t ELSE store[k]]

Purge(n) ==
  /\ n \in DOMAIN store
  /\ store' = [k \in DOMAIN store \ {n} |-> store[k]]

Next == \E n \in Nums : Purge(n) \/ \E t \in Texts : Add(n, t)

Spec == Init /\ [][Next]_store
=============================================================================
