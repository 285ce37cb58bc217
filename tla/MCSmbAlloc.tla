----------------------------- MODULE MCSmbAlloc -----------------------------
(* Few texts of at most three blocks in tables of at most MaxBlocks blocks.*)
EXTENDS SmbAlloc, TLC

CONSTANTS n1, n2, n3, t1, t2, t3

Scene(tails, faults) == [tails |-> tails, faults |-> faults]

\* Everything may fail, by itself or beside what else fails; texts without a tail.
Mixed == {Scene({0, 2}, {"header", "tail", "user", "open"}),
          Scene({0, 2}, {"header", "tail", "crash"}), Scene({0}, {"header"})}

OpenFails == {Scene({0}, {"open"})}

NoTails  == {Scene({0}, {})}
OneByte  == {Scene({1}, {})}
TwoBytes == {Scene({2}, {})}

\* What follows a purge of a message of an uncounted mailing is not looked at.
Sound == ~Spoiled

\* Message numbers and texts are only compared for equality.
Symmetry == Permutations(Nums) \union Permutations(Texts)
=============================================================================
