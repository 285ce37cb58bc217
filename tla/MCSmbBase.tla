----------------------------- MODULE MCSmbBase -----------------------------
(* Two sessions, as two programs or as two threads of one, in the scenes   *)
(* the runs are about.                                                     *)
EXTENDS SmbBase, TLC

CONSTANTS a, b, p, q

TwoProcesses == [s \in {a, b} |-> IF s = a THEN p ELSE q]
OneProcess   == [s \in {a, b} |-> p]

Programs(ops, faults, hdrs) == [proc |-> TwoProcesses, ops |-> ops, faults |-> faults, hdrs |-> hdrs]
Threads(ops, faults, hdrs)  == [proc |-> OneProcess, ops |-> ops, faults |-> faults, hdrs |-> hdrs]

\* Programs that do everything but write headers from scripts; scripts, but no purges;
\* programs that crash; and threads that crash and do not reply.
Everyday ==
  {Programs({"post", "reply", "update", "purge", "load", "kill"}, {}, 3),
   Programs({"post", "reply", "update", "put_header"}, {}, 3),
   Programs({"post", "reply", "update", "load"}, {"crash", "header"}, 3),
   Threads({"post", "update", "purge"}, {"crash", "header"}, 2)}

ThreadsReply  == {Threads({"post", "reply"}, {}, 3)}
ThreadsKill   == {Threads({"post", "kill"}, {}, 3)}
LoadAndPurge  == {Programs({"post", "update", "load", "purge"}, {}, 3)}
CrashAndPurge == {Programs({"post", "update", "purge"}, {"crash"}, 3)}
HeaderFails   == {Programs({"post", "reply"}, {"header"}, 3)}
ScriptLinks   == {Programs({"post", "reply", "put_header"}, {}, 3)}
ScriptPurge   == {Programs({"post", "update", "put_header", "purge"}, {}, 3)}
=============================================================================
