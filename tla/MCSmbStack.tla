----------------------------- MODULE MCSmbStack -----------------------------
(* One thread nesting as deep as the stack lets it, and two threads.       *)
EXTENDS SmbStack

CONSTANTS a, b, h1, h2, h3, h4, h5, h6

Symmetry == Permutations(Handles)
=============================================================================
