------------------------------- MODULE Lease -------------------------------
(***************************************************************************)
(* The single-slot lease of cloudflare/src/lease.ts, as what each of its   *)
(* methods decides and writes.  A slot is one storage row: which run holds *)
(* it, under which token, until when.  Two rooms keep one: RunRoom the     *)
(* dispatch lease of a project, RepoRoom the publish slot of a repository. *)
(* A method reads the row and the clock and writes without an await in     *)
(* between, so each is one atomic step of the room that calls it.          *)
(***************************************************************************)
EXTENDS Naturals

CONSTANT NoLease  \* the table holds no row

\* The row: its descriptive columns (epic, origin, requested_by, acquired_at)
\* are never compared.
Rows(R) == [run: R, token: Nat, until: Nat]

Row(run, token, until) == [run |-> run, token |-> token, until |-> until]

\* A lapsed row reads as free even before the alarm deletes it.
Live(row, now) == row # NoLease /\ row.until > now

HoldsByRun(row, run, token) == row # NoLease /\ row.run = run

\* Both the run and the token must match: this is what release, renewal and
\* compare-and-delete go by.
Holds(row, run, token) == row # NoLease /\ row.run = run /\ row.token = token

AcquirableAnyway(row, now, run) == TRUE

\* acquire: refused while another run's lease is live; a live lease of the same
\* run is a renewal and keeps its token.
Acquirable(row, now, run) == Live(row, now) => row.run = run
Acquired(row, now, run, fresh, ttl) ==
    Row(run, IF Live(row, now) /\ row.run = run THEN row.token ELSE fresh, now + ttl)

\* renew: the holder's own live lease, else "taken" when a live lease stands
\* and "expired" when none does.
Renewable(row, now, run, token) == Live(row, now) /\ Holds(row, run, token)
Extended(row, now, ttl) == [row EXCEPT !.until = now + ttl]

ReclaimableIfLapsed(row, now, run, token) == Live(row, now) => Holds(row, run, token)

\* reclaim: an empty slot, or a row still this holder's, lapsed or not.  A row
\* of somebody else's is the newer claim even when it has lapsed in turn.
Reclaimable(row, now, run, token) == row # NoLease => Holds(row, run, token)

\* expireDue: the row and the clock are read again when the alarm fires.
Due(row, now) == row # NoLease /\ row.until <= now

AfterDeleteAnyway(row, run, token) == NoLease

\* deleteHeld: compare-and-delete.
AfterDelete(row, run, token) == IF Holds(row, run, token) THEN NoLease ELSE row
=============================================================================
