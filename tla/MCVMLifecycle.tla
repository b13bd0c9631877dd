--------------------------- MODULE MCVMLifecycle ----------------------------
(***************************************************************************)
(* Instances of VMLifecycle: which commands are given and what may fail.   *)
(***************************************************************************)
EXTENDS Addresses, TLC

ProcSymmetry == Permutations(Procs)
ProcAndNameSymmetry == Permutations(Procs) \cup Permutations(Names)

NoFailures == {}

\* Failures that the code cleans up after, or that it can ignore.  TAPs are deleted
\* here: one that destroy leaves makes six times the states (the theorems have it).
CleanedUpFailures ==
    ({"deploy", "clone"} \X {"register", "tap", "start"})
       \cup ({"destroy"} \X {"undisk", "count", "unbridge"})
       \cup {<<"deploy", "init">>, <<"load", "pull">>, <<"load", "register">>,
             <<"freeze", "snapshot">>, <<"unfreeze", "ensure">>,
             <<"unfreeze", "start">>, <<"resize", "ensure">>,
             <<"push", "upload">>, <<"push", "unrow">>}

\* Every failure of a step on rows, disks and VMs.  What a failure to delete a TAP
\* or the bridge leaves makes later starts fail, as they may here anyway.
AllFailures == Ops \X (Steps \ {"untap", "count", "unbridge"})
=============================================================================
