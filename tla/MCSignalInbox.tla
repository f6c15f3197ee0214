--------------------------- MODULE MCSignalInbox ---------------------------
(* Instances of SignalInbox for TLC: the candidate lists share an id, so     *)
(* that a claim walks past it when another signal or writer has taken it.   *)
EXTENDS SignalInbox, TLC

CONSTANTS s1, s2, s3, i1, i2, i3

MCCandidates == {<<i1, i2>>, <<i1, i3>>}

(* Every claim draws the same list: signals compete for each id of it.        *)
MCOneList == {<<i1, i2>>}
=============================================================================
