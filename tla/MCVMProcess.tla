----------------------------- MODULE MCVMProcess -----------------------------
(***************************************************************************)
(* Instances of VMProcess: whether two projects share a JailerName, and    *)
(* which steps may fail.                                                   *)
(***************************************************************************)
EXTENDS VMProcess, TLC

OwnJail == [n \in Names |-> n]

OneJail == [n \in Names |-> CHOOSE j \in Jails : TRUE]

\* launch: no VM; limit: no cgroup; save: the row stays as it was.
AllFailures ==
    Ops \X {"ask", "launch", "limit", "pause", "create", "resume", "save"}

ProcAndNameSymmetry == Permutations(Procs) \cup Permutations(Names)
=============================================================================
