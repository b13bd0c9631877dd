----------------------------- MODULE MCDiskImage -----------------------------
(***************************************************************************)
(* Instances of DiskImage: what may fail.                                  *)
(***************************************************************************)
EXTENDS DiskImage, TLC

\* A key that does not get into an image which has another one: that of the
\* source of a clone, or of an archive older than the saved key.
KeyFailures ==
    ({<<"clone", "generate">>, <<"clone", "reuse">>, <<"load", "reuse">>}
        \X {"mount", "edit"})

NoticedFailures ==
    {<<op, step, part>> \in Ops \X Sessions \X {"mount", "edit"} :
        << <<op, step>>, part>> \notin KeyFailures}
       \cup Ops \X {"register", "copy", "pull", "start", "undisk"} \X {"all"}
       \cup {<<"destroy", "undisk", "all">>}

ProcAndNameSymmetry == Permutations(Procs) \cup Permutations(Names)
=============================================================================
