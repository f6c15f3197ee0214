----------------------------- MODULE MCRunRoom -----------------------------
(* Instances of RunRoom for TLC: which submissions there are, and whether   *)
(* each parks, waits for the release and for how long.                      *)
EXTENDS RunRoom, TLC

CONSTANTS r1, r2, r3, e1, e2

MCEpicsApart  == r1 :> e1 @@ r2 :> e2
MCEpicsShared == r1 :> e1 @@ r2 :> e2 @@ r3 :> e2
MCWindows     == [r \in Runs |-> 2]
=============================================================================
