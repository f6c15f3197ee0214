----------------------------- MODULE MCRunStore -----------------------------
(* Values of RunStore's constants for TLC. *)
EXTENDS RunStore

CONSTANTS w1, w2

MCWriters == {w1, w2}

\* What each writer writes differs: a dispatch marker names its dispatcher.
MCBody == [w \in MCWriters |-> w]

\* Calls of each writer: two reach every question the runs ask.
MCTwoCalls == [w \in MCWriters |-> 2]

\* The writers differ in nothing but who they are: a state and the one with the
\* two exchanged have the same behaviours.  NoPush names one of them, and
\* nothing compares it with a push.
MCSymmetry == Permutations(MCWriters)

=============================================================================
