------------------------------ MODULE RunRoom ------------------------------
(***************************************************************************)
(* The dispatch lease and the submission queue of one project              *)
(* (cloudflare/src/run-room.ts), with the callers that decide who runs:    *)
(* the submit path, the run's supervisor that renews, reclaims and         *)
(* releases, the sandbox dispatch door and the orphan sweep.               *)
(*                                                                         *)
(* The room is a Durable Object.  Its storage is synchronous, so a method  *)
(* is atomic up to its first await on something outside the room.  The one *)
(* such await is igniteRun, between the lease being written for a parked   *)
(* submission and its queue row being deleted: `boots` holds the ignitions *)
(* under way, and anything may happen while one is.                        *)
(***************************************************************************)
EXTENDS Naturals, FiniteSets, FiniteSetsExt, Lease

CONSTANTS
    Runs,        \* submissions, each under the fresh run id submitRun mints
    EpicOf,      \* the epic each submits
    Queuers,     \* submissions that park when the lease is held
    WaitsFor,    \* parked ones that wait for the release (no explicit window)
    Window,      \* how long each stays parked: RUN_QUEUE_TTL_MS or its own, and
                 \* at least MIN_QUEUE_TTL_MS
    HoldTtl,     \* BOOT_LEASE_TTL_MS, RENEWAL_TTL_FLOOR_MS, DOOR_RECLAIM_LEASE_TTL_MS
    IgniteTtl,   \* DEFAULT_LEASE_TTL_MS, of a lease taken for a parked submission
    Faults,      \* "crash": the room's process may be lost during an ignition
                 \* "log": startRun may throw after the Workflow exists
                 \* "slow": an ignition may outlast the lease taken for it
                 \* "late": alarms may be late, a submit may outlast its lease
    MaxTime,     \* bound: no call is made later
    Horizon,     \* bound: the clock stops
    NoAlarm      \* no alarm is set

ASSUME ConstantsAssumption ==
    /\ Window \in [Runs -> Nat \ {0}] /\ DOMAIN EpicOf = Runs
    /\ Queuers \subseteq Runs /\ WaitsFor \subseteq Runs
    /\ HoldTtl \in Nat \ {0} /\ IgniteTtl \in Nat \ {0}
    /\ Faults \subseteq {"crash", "log", "slow", "late"}
    /\ MaxTime \in Nat /\ Horizon \in Nat
    /\ NoLease \notin Rows(Runs) /\ NoAlarm \notin Nat

VARIABLES
    now,        \* Date.now()
    slot,       \* the dispatch_lease row
    lapsed,     \* lapsed_dispatch_lease: per run, the token a sweep took, or 0
    queue,      \* queued_submission rows
    alarm,      \* the Durable Object's one alarm
    boots,      \* startRun calls under way
    phase,      \* per run: how far its submission, then its Workflow, got
    cred,       \* per run: the lease token in its Workflow's params
    door,       \* runs with an authorized request at the dispatch door
    minted,     \* tokens made so far
    sure,       \* per run: until when it was last told that it holds the lease
    gaveup,     \* history: tokens whose lease was given up, not lost
    dropped     \* history: submissions removed because their window closed

lease == <<slot, lapsed, minted>>
told  == <<sure, gaveup>>
vars  == <<now, lease, queue, alarm, boots, phase, cred, door, told, dropped>>

NoToken == 0
Phases  == {"new", "refused", "submitted", "running", "lapsed", "ending", "dead", "over"}
Entries == [run: Runs, at: Nat, until: Nat, waits: BOOLEAN, window: Nat]
Boots   == [run: Runs, token: Nat, by: {"submit", "release", "alarm"},
            created: BOOLEAN]

RunsIn(rows) == {e.run : e \in rows}
Later(a, b) == IF a >= b THEN a ELSE b
InRoom(b) == b.by # "submit"

-----------------------------------------------------------------------------
(* The queue *)

\* Rows pruneExpiredQueued deletes: a waiting one never behind a lease row.
PastDue(rows, row) == {e \in rows : e.until <= now /\ (~e.waits \/ row = NoLease)}

NotRestarted(rows) == rows

\* restartWaitingWindows: a waiting row's window counts from now.
Restarted(rows) ==
    {IF e.waits THEN [e EXCEPT !.until = Later(@, now + e.window)] ELSE e : e \in rows}

Oldest(rows) == {e \in rows : \A f \in rows : e.at <= f.at}

ParkedUnderTheSameRun(rows, r) == {e \in rows : e.run = r}

\* One parked submission per epic.
ParkedAlready(rows, r) == {e \in rows : EpicOf[e.run] = EpicOf[r]}

\* A repeat of an epic already parked only widens the row that stands.
Widened(e, f) == [e EXCEPT !.waits = @ \/ f.waits,
                           !.window = Later(@, f.window),
                           !.until = Later(@, f.until)]
Joined(rows, entry) ==
    LET same == ParkedAlready(rows, entry.run)
    IN  IF same = {} THEN rows \cup {entry}
        ELSE (rows \ same) \cup {Widened(e, entry) : e \in same}

NextAlarmOfQueue(row, rows) ==
    LET deadlines == {e.until : e \in {f \in rows : ~f.waits \/ row = NoLease}}
    IN  IF deadlines = {} THEN NoAlarm ELSE Min(deadlines)

\* armAlarm: the earliest deadline that can change anything, or no alarm.
NextAlarm(row, rows) ==
    LET deadlines == {y.until : y \in {row} \ {NoLease}} \cup
                     {e.until : e \in {f \in rows : ~f.waits \/ row = NoLease}}
    IN  IF deadlines = {} THEN NoAlarm ELSE Min(deadlines)

\* igniteNextQueued, once the slot is free: the oldest parked submission gets
\* the lease and its boot starts, or nothing is parked and the room settles.
\* `gone` was pruned on the way in, `others` are the boots still under way.
HandOn(rows, by, gone, others) ==
    LET fresh == Restarted(rows)
        late  == PastDue(fresh, NoLease)
        left  == fresh \ late
    IN  /\ queue' = left
        /\ dropped' = dropped \cup RunsIn(gone \cup late)
        /\ \/ /\ left = {}
              /\ slot' = NoLease /\ boots' = others
              /\ alarm' = NextAlarm(NoLease, left)
              /\ UNCHANGED minted
           \/ \E next \in Oldest(left) :
              /\ slot' = Row(next.run, minted + 1, now + IgniteTtl)
              /\ minted' = minted + 1
              /\ boots' = others \cup {[run |-> next.run, token |-> minted + 1,
                                        by |-> by, created |-> FALSE]}
              /\ alarm' = IF by = "alarm" THEN NoAlarm ELSE alarm

\* releaseDispatchLease: refused unless run and token match the row.
ReleaseDispatchLease(r, token, others) ==
    IF Holds(slot, r, token)
    THEN /\ lapsed' = [lapsed EXCEPT ![r] = NoToken]
         /\ gaveup' = gaveup \cup {token}
         /\ HandOn(queue, "release", {}, others)
    ELSE /\ boots' = others
         /\ UNCHANGED <<lease, queue, alarm, gaveup, dropped>>

-----------------------------------------------------------------------------
(* Submitting and parking *)

Open == now <= MaxTime
In(r, phases) == phase[r] \in phases
Becomes(r, p) == phase' = [phase EXCEPT ![r] = p]

\* submitRun asks for the lease before anything durable is written.
Submit(r) ==
    /\ Open /\ In(r, {"new"})
    /\ IF Acquirable(slot, now, r)
       THEN /\ slot' = Acquired(slot, now, r, minted + 1, HoldTtl)
            /\ minted' = minted + 1
            /\ boots' = boots \cup {[run |-> r, token |-> minted + 1,
                                     by |-> "submit", created |-> FALSE]}
            /\ alarm' = NextAlarm(slot', queue)
            /\ Becomes(r, "submitted")
       ELSE Becomes(r, "refused") /\ UNCHANGED <<slot, minted, boots, alarm>>
    /\ UNCHANGED <<now, lapsed, queue, cred, door, told, dropped>>

\* queueSubmission, a call of its own after the refusal.
Park(r) ==
    LET gone == PastDue(queue, slot)
        mine == [run |-> r, at |-> now, until |-> now + Window[r],
                 waits |-> r \in WaitsFor, window |-> Window[r]]
    IN  /\ Open /\ In(r, {"refused"}) /\ r \in Queuers
        /\ queue' = Joined(queue \ gone, mine)
        /\ dropped' = dropped \cup RunsIn(gone)
        /\ alarm' = NextAlarm(slot, queue')
        /\ Becomes(r, "submitted")
        /\ UNCHANGED <<now, lease, boots, cred, door, told>>

\* cancelQueuedSubmission: answered ok when a row was deleted.
Cancel(r) ==
    /\ Open /\ r \in RunsIn(queue)
    /\ queue' = {e \in queue : e.run # r}
    /\ alarm' = NextAlarm(slot, queue')
    /\ UNCHANGED <<now, lease, boots, phase, cred, door, told, dropped>>

-----------------------------------------------------------------------------
(* startRun *)

\* The run row and the Workflow exist: the run's id makes that happen once.
Boot(b) ==
    /\ ~b.created /\ In(b.run, {"submitted"})
    /\ boots' = (boots \ {b}) \cup {[b EXCEPT !.created = TRUE]}
    /\ cred' = [cred EXCEPT ![b.run] = b.token]
    /\ Becomes(b.run, "running")
    /\ UNCHANGED <<now, lease, queue, alarm, door, told, dropped>>

BootDone(b) ==
    /\ b.created
    /\ boots' = boots \ {b}
    /\ IF InRoom(b)
       THEN /\ queue' = {e \in queue : e.run # b.run}
            /\ alarm' = NextAlarm(slot, queue')
       ELSE UNCHANGED <<queue, alarm>>
    /\ UNCHANGED <<now, lease, phase, cred, door, told, dropped>>

\* startRun threw.  The submit path releases the lease; the room deletes it and
\* leaves the submission parked.
BootFails(b) ==
    /\ ~b.created \/ "log" \in Faults
    /\ IF InRoom(b)
       THEN /\ slot' = AfterDelete(slot, b.run, b.token)
            /\ gaveup' = gaveup \cup {b.token}
            /\ boots' = boots \ {b}
            /\ alarm' = NextAlarm(slot', queue)
            /\ UNCHANGED <<lapsed, minted, queue, dropped>>
       ELSE ReleaseDispatchLease(b.run, b.token, boots \ {b})
    /\ UNCHANGED <<now, phase, cred, door, sure>>

-----------------------------------------------------------------------------
(* The run's supervisor, run-workflow.ts *)

\* A renewal.  A live lease under another token ends the run; a lapse is
\* followed by a reclaim, a call of its own.
Renew(r) ==
    /\ Open /\ In(r, {"running"})
    /\ \/ /\ Renewable(slot, now, r, cred[r])
          /\ slot' = Extended(slot, now, HoldTtl)
          /\ sure' = [sure EXCEPT ![r] = now + HoldTtl]
          /\ alarm' = NextAlarm(slot', queue)
          /\ UNCHANGED phase
       \/ /\ ~Renewable(slot, now, r, cred[r])
          /\ Becomes(r, IF Live(slot, now) THEN "ending" ELSE "lapsed")
          /\ UNCHANGED <<slot, sure, alarm>>
    /\ UNCHANGED <<now, lapsed, minted, queue, boots, cred, door, gaveup, dropped>>

Reclaim(r) ==
    /\ Open /\ In(r, {"lapsed"})
    /\ IF Reclaimable(slot, now, r, cred[r])
       THEN /\ slot' = Row(r, cred[r], now + HoldTtl)
            /\ lapsed' = [lapsed EXCEPT ![r] = NoToken]
            /\ sure' = [sure EXCEPT ![r] = now + HoldTtl]
            /\ alarm' = NextAlarm(slot', queue)
            /\ Becomes(r, "running")
       ELSE Becomes(r, "ending") /\ UNCHANGED <<slot, lapsed, sure, alarm>>
    /\ UNCHANGED <<now, minted, queue, boots, cred, door, gaveup, dropped>>

\* finalize, first part: the record is written and the credential revoked.
Finish(r) ==
    /\ In(r, {"running", "lapsed"})
    /\ Becomes(r, "ending")
    /\ UNCHANGED <<now, lease, queue, alarm, boots, cred, door, told, dropped>>

\* finalize, last part: the release, or one that never reached the room.
Release(r) ==
    /\ In(r, {"ending"})
    /\ Becomes(r, "over")
    /\ sure' = [sure EXCEPT ![r] = 0]
    /\ \/ ReleaseDispatchLease(r, cred[r], boots)
       \/ UNCHANGED <<lease, queue, alarm, boots, gaveup, dropped>>
    /\ UNCHANGED <<now, cred, door>>

\* The Workflow instance errored or was terminated, and nothing finalizes it.
Die(r) ==
    /\ In(r, {"running", "lapsed"})
    /\ Becomes(r, "dead")
    /\ UNCHANGED <<now, lease, queue, alarm, boots, cred, door, told, dropped>>

\* The orphan sweep finishes the record, then releaseLeaseOfEndedRun.
Orphan(r) ==
    /\ In(r, {"dead"})
    /\ Becomes(r, "over")
    /\ sure' = [sure EXCEPT ![r] = 0]
    /\ IF slot # NoLease /\ slot.run = r
       THEN ReleaseDispatchLease(r, slot.token, boots)
       ELSE /\ lapsed' = [lapsed EXCEPT ![r] = NoToken]
            /\ UNCHANGED <<slot, minted, queue, alarm, boots, gaveup, dropped>>
    /\ UNCHANGED <<now, cred, door>>

-----------------------------------------------------------------------------
(* The dispatch door, sandbox-dispatch.ts *)

\* A request of the run's container passes the credential check.
DoorAuthorized(r) ==
    /\ Open /\ In(r, {"running", "lapsed", "dead"}) /\ r \notin door
    /\ door' = door \cup {r}
    /\ UNCHANGED <<now, lease, queue, alarm, boots, phase, cred, told, dropped>>

\* reclaimLapsedLeaseFor: held, reclaimed under the token that lapsed, taken,
\* or unknown.
DoorAsks(r) ==
    LET held  == Live(slot, now) /\ slot.run = r
        token == IF slot # NoLease /\ slot.run = r THEN slot.token ELSE lapsed[r]
        takes == ~Live(slot, now) /\ token # NoToken /\ Reclaimable(slot, now, r, token)
    IN  /\ Open /\ r \in door
        /\ door' = door \ {r}
        /\ sure' = IF held THEN [sure EXCEPT ![r] = slot.until]
                   ELSE IF takes THEN [sure EXCEPT ![r] = now + HoldTtl] ELSE sure
        /\ IF takes
           THEN /\ slot' = Row(r, token, now + HoldTtl)
                /\ lapsed' = [lapsed EXCEPT ![r] = NoToken]
                /\ alarm' = NextAlarm(slot', queue)
           ELSE UNCHANGED <<slot, lapsed, alarm>>
        /\ UNCHANGED <<now, minted, queue, boots, phase, cred, gaveup, dropped>>

-----------------------------------------------------------------------------
(* The room by itself *)

InTime(b) == Holds(slot, b.run, b.token) => slot.until > now + 1

Tick ==
    /\ now < Horizon
    /\ "slow" \in Faults \/ \A b \in boots : InRoom(b) => InTime(b)
    /\ "late" \in Faults \/ /\ \A b \in boots : InRoom(b) \/ InTime(b)
                            /\ alarm # NoAlarm => alarm > now
    /\ now' = now + 1
    /\ UNCHANGED <<lease, queue, alarm, boots, phase, cred, door, told, dropped>>

\* The alarm's handler runs by itself, never beside another alarm.  It sweeps
\* what is due, remembers whose lease lapsed, and hands a freed lease on.
Alarm ==
    LET gone == PastDue(queue, slot)
    IN  /\ alarm # NoAlarm /\ alarm <= now
        /\ \A b \in boots : b.by # "alarm"
        /\ IF Due(slot, now)
           THEN /\ lapsed' = [lapsed EXCEPT ![slot.run] = slot.token]
                /\ HandOn(queue \ gone, "alarm", gone, boots)
           ELSE /\ queue' = queue \ gone
                /\ alarm' = NextAlarm(slot, queue')
                /\ dropped' = dropped \cup RunsIn(gone)
                /\ UNCHANGED <<lease, boots>>
        /\ UNCHANGED <<now, phase, cred, door, told>>

\* The room's process is lost during an ignition.  Storage stands; an alarm
\* whose handler had not finished fires again.
Crash ==
    /\ "crash" \in Faults /\ \E b \in boots : InRoom(b)
    /\ boots' = {b \in boots : ~InRoom(b)}
    /\ alarm' \in IF \A b \in boots : b.by # "alarm" THEN {alarm}
                  ELSE {now} \cup ({alarm} \ {NoAlarm})
    /\ UNCHANGED <<now, lease, queue, phase, cred, door, told, dropped>>

-----------------------------------------------------------------------------
(* The specification *)

Init ==
    /\ now = 0 /\ slot = NoLease /\ lapsed = [r \in Runs |-> NoToken]
    /\ queue = {} /\ alarm = NoAlarm /\ boots = {}
    /\ phase = [r \in Runs |-> "new"] /\ cred = [r \in Runs |-> NoToken]
    /\ door = {} /\ minted = 0 /\ sure = [r \in Runs |-> 0]
    /\ gaveup = {} /\ dropped = {}

Supervised(r) == Renew(r) \/ Reclaim(r) \/ Finish(r) \/ Release(r) \/ Die(r) \/ Orphan(r)
Booting == \E b \in boots : Boot(b) \/ BootDone(b) \/ BootFails(b)

Next ==
    \/ \E r \in Runs : Submit(r) \/ Park(r) \/ Cancel(r)
    \/ \E r \in Runs : Supervised(r) \/ DoorAuthorized(r) \/ DoorAsks(r)
    \/ Booting \/ Alarm \/ Crash \/ Tick

Spec == Init /\ [][Next]_vars

\* Time passes, alarms are delivered, and a call under way returns.
FairSpec == Spec /\ WF_vars(Tick) /\ WF_vars(Alarm) /\ WF_vars(Booting)

-----------------------------------------------------------------------------
(* Properties *)

\* The shape of the state: the rows, with one parked submission per epic, which
\* no key of the table enforces, the boots under way and the records of callers.
TypeOK ==
    /\ \A e, f \in queue : EpicOf[e.run] = EpicOf[f.run] => e = f
    /\ now \in Nat /\ minted \in Nat
    /\ slot \in Rows(Runs) \cup {NoLease}
    /\ lapsed \in [Runs -> Nat] /\ cred \in [Runs -> Nat] /\ sure \in [Runs -> Nat]
    /\ queue \subseteq Entries /\ boots \subseteq Boots
    /\ alarm \in Nat \cup {NoAlarm}
    /\ phase \in [Runs -> Phases]
    /\ door \subseteq Runs /\ gaveup \subseteq Nat
    /\ dropped \subseteq Runs

\* D4, one arbiter per project: of the runs that are not over, at most one was
\* told of a hold on the lease that has not run out.
Driving(r) == phase[r] \notin {"new", "over"} /\ sure[r] > now
OneArbiter == \A r, s \in Runs : Driving(r) /\ Driving(s) => r = s

\* A live lease passes to another token only when its own was given up.
NeverStolen ==
    [][Live(slot, now) /\ (slot' = NoLease \/ slot'.token # slot.token)
         => slot.token \in gaveup']_vars

\* A superseded holder stays out: while a row stands, live or lapsed, only a
\* token that was never used before replaces it.
SupersededStaysOut ==
    [][slot # NoLease /\ slot' # NoLease /\ slot'.token # slot.token
         => slot'.token > minted]_vars

\* The room never sleeps on a deadline: while a lease row stands, an alarm is
\* set, or the handler of one is still running and sets the next, or fires again.
AlarmCovers ==
    slot # NoLease => alarm # NoAlarm \/ \E b \in boots : b.by = "alarm"

\* A submission that waits for the release is never dropped behind a holder,
\* nor at the moment the holder lets go: only while the lease has been free.
WaitsOutTheHolder ==
    [][\A e \in queue : e.waits /\ e.run \in dropped' \ dropped => slot = NoLease]_vars

\* A lease that nobody renews any more does not wedge the project.
AbandonedLeaseEnds ==
    \A r \in Runs : slot # NoLease /\ slot.run = r /\ phase[r] = "dead"
                      ~> slot = NoLease \/ slot.run # r

\* Every parked submission comes to an end: started, withdrawn or dropped.
QueueDrains == \A r \in Runs : r \in RunsIn(queue) ~> r \notin RunsIn(queue)

\* The room comes to rest by its alarm alone.
RoomDrains == AbandonedLeaseEnds /\ QueueDrains
=============================================================================
