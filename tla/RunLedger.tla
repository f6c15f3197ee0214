------------------------------ MODULE RunLedger ------------------------------
(***************************************************************************)
(* What the run-state store promises its callers (runstate/doc.go,         *)
(* store.go, outcome.go), with no pushes, leases, chains or retries: one   *)
(* ledger of records that batches advance atomically, and one grant per    *)
(* marker, held by the record that is there.                               *)
(***************************************************************************)
EXTENDS Naturals

CONSTANTS
    Markers,    \* paths only ever created
    Advancing,  \* paths whose records are replaced by later ones
    Absent      \* no record at a path

VARIABLES
    records,    \* the record at each path
    granted     \* per marker: the records whose writer was told "created"

ledger == <<records, granted>>

Init ==
    /\ records = [p \in Markers \cup Advancing |-> Absent]
    /\ granted = [p \in Markers |-> {}]

\* A record is replaced only by one that comes after it.
Follows(new, old) ==
    \/ new = old
    \/ old = Absent
    \/ new # Absent /\ old # Absent /\ new.seq > old.seq

\* One batch lands, and the creates in it or in an earlier one are answered.
Step ==
    /\ \A p \in Markers : records[p] # Absent => records'[p] = records[p]
    /\ \A p \in Advancing : Follows(records'[p], records[p])
    /\ \A p \in Markers :
          granted'[p] = granted[p] \/ granted'[p] = {records'[p]} \ {Absent}

Spec == Init /\ [][Step]_ledger

=============================================================================
