---------------------------- MODULE MCStateStore ----------------------------
(***************************************************************************)
(* Instances of StateStore: one process with concurrent callers, and one   *)
(* process per caller.                                                     *)
(***************************************************************************)
EXTENDS StateStore, TLC

CONSTANTS c1, c2, s1, s2

OneStore == [c \in Clients |-> s1]

OwnStore == (c1 :> s1) @@ (c2 :> s2)

NameSymmetry == Permutations(Names)

NameAndClientSymmetry == Permutations(Names) \cup Permutations(Clients)
=============================================================================
