------------------------------- MODULE MCNodes -------------------------------
(* Two servers, the first with the node of the event and another one.      *)
EXTENDS Nodes, TLC
CONSTANTS i1, i2

MCNodesOf == (i1 :> {1, 2}) @@ (i2 :> {3})

\* One server.
MCOneOf == i1 :> {1, 2}
=============================================================================
