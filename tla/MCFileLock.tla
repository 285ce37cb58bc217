---------------------------- MODULE MCFileLock ----------------------------
(* Three handles on one file: two threads of one process and one of        *)
(* another, or three processes.                                            *)
EXTENDS FileLock, TLC

CONSTANTS h1, h2, h3, p1, p2, p3, base, msg

TwoAndOne == h1 :> p1 @@ h2 :> p1 @@ h3 :> p2
ThreeOnes == h1 :> p1 @@ h2 :> p2 @@ h3 :> p3

MCOpeners == {TwoAndOne, ThreeOnes}
MCThreads == {TwoAndOne}
=============================================================================
