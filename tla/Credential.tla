----------------------------- MODULE Credential -----------------------------
(***************************************************************************)
(* What the gateway's rotation promises of a run's orchestrator credential *)
(* (cloudflare/src/gateway.ts, issueRunToken): a run has one at a time.  A *)
(* new one is issued only over the grave of every earlier one, and a       *)
(* revoked one is never live again.                                        *)
(***************************************************************************)
EXTENDS Naturals

VARIABLES
    live,    \* the orchestrator credentials that are not revoked
    issued   \* how many were ever issued: they are numbered in that order

vars == <<live, issued>>

Init == live = {} /\ issued = 0

Issue ==
    /\ live = {}
    /\ issued' = issued + 1
    /\ live' = {issued'}

Revoke == live' = {} /\ UNCHANGED issued

Next == Issue \/ Revoke
Spec == Init /\ [][Next]_vars
=============================================================================
