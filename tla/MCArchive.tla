------------------------------ MODULE MCArchive ------------------------------
(***************************************************************************)
(* An instance of Archive: every step may fail.                            *)
(***************************************************************************)
EXTENDS Archive

AllFailures ==
    ({"push"} \X (PushSteps \cup {"upload"})) \cup ({"load"} \X LoadSteps)
=============================================================================
