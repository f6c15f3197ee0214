------------------------------ MODULE Dispatch ------------------------------
(***************************************************************************)
(* The life of a run's attempts (internal/reconcile): the reconciler walks *)
(* the attempts of a tick, adopts the one under way or places the next,    *)
(* polls what is in its window, and takes a settled attempt through its    *)
(* collect, its merge, the gate and the close.  It may be killed at any    *)
(* step and started again from origin; the attempts it started go on       *)
(* without it, and a person may release one (`ticfac settle`) meanwhile.   *)
(*                                                                         *)
(* What stands on origin is `row`, `tries`, `rel`, `ruled`, `judged`,      *)
(* `merged` and `delivered`; the host keeps `job` and the local half of    *)
(* `work`; the rest is the reconciler's memory.  An attempt's commits are  *)
(* one commit, known by the attempt's number.                              *)
(***************************************************************************)
EXTENDS Naturals, Sequences, FiniteSets, FiniteSetsExt

CONSTANTS
    Ticks,       \* the implement ticks of the epic
    Ceiling,     \* the top of the tier ladder, whose bottom is 0
    MaxRetries,  \* maxOperationalRetries
    MaxAttempt,  \* bound: attempts of the run
    Events       \* what may happen beside the ordinary:
                 \* "crash": the reconciler is killed where it stands
                 \* "wipe": and its host with it, with what was not pushed
                 \* "lost": a supervisor dies without its terminal record
                 \* "overdue": a job is watched past its wall clock
                 \* "linger": a job lives on after its report
                 \* "stray": a worker writes outside its boundary
                 \* "conflict", "red": a merge conflicts, a gate fails
                 \* "width": the tracker refuses a claim
                 \* "decision": a run's release cannot be recorded
                 \* "settle": a person releases an attempt

ASSUME ConstantsAssumption ==
    /\ Ceiling \in Nat /\ MaxRetries \in Nat /\ MaxAttempt \in Nat
    /\ Events \subseteq {"crash", "wipe", "lost", "overdue", "linger", "stray", "conflict",
                         "red", "width", "decision", "settle"}

VARIABLES
    row,        \* the checkpoint's row of a tick: its state and its attempt
    last,       \* attempts placed: the run's markers are 1 .. last
    tries,      \* a marker: its tick, its tier, and the commits its base holds
                \* of the attempts it carries on from
    rel,        \* the release recorded of an attempt
    ruled,      \* what the first checkpoint that names an attempt's rejection
                \* says of its work
    judged,     \* attempts a checkpoint calls collected (ready-to-merge)
    merged,     \* attempts whose commit is on the integration branch
    delivered,  \* attempts whose branch on origin stands at the carried commit
    job,        \* an attempt's job, as its state directory and process show it
    work,       \* where an attempt's own commit is
    stray,      \* attempts whose commit leaves their boundary
    pc,         \* the reconciler is "up" or "down"
    mem,        \* the rows in its memory
    queue,      \* ticks to admit
    live,       \* attempts it polls
    settled,    \* attempts waiting to be finished
    bare,       \* those of them, and of `fin`, that no executor addresses: they
                \* were found merged
    disp,       \* the dispatch under way
    fin,        \* the finish under way
    parked,     \* ticks it holds, in order, and what each refusal's text says
    retried,    \* operational retries of a tick in this incarnation
    unaddressed \* history: attempts refused as unaddressed, not collected since

origin == <<row, last, tries, rel, ruled, judged, merged, delivered>>
host   == <<job, work, stray>>
window == <<queue, live, settled, bare>>
memory == <<pc, mem, window, disp, fin, parked, retried>>
vars   == <<origin, host, memory, unaddressed>>

Numbers  == 1 .. MaxAttempt
NoTry    == [tick |-> "none", tier |-> 0, under |-> {}]
NoRel    == [by |-> "none", carry |-> FALSE, step |-> "none"]
NoDisp   == [at |-> "none", tick |-> "none", n |-> 0, failed |-> 0, carry |-> 0]
NoFin    == [at |-> "none", n |-> 0, head |-> 0, why |-> "none", again |-> FALSE]
Open     == {t \in Ticks : row[t].state # "closed"}
Of(t)    == {n \in 1 .. last : tries[n].tick = t}
Alive    == {"running", "lingering"}
Terminal == {"lingering", "reported", "failed", "walled", "cancelled"}

\* tryOf
Try(n) == Cardinality({m \in Of(tries[n].tick) : m <= n})
\* deriveTier: one tier up for every failed try, to the ceiling
Tier(failed) == IF failed > Ceiling THEN Ceiling ELSE failed

-----------------------------------------------------------------------------
(* What a state of origin and of the host says of an attempt. *)

Carries(n) == tries[n].under # {}
Base(n)    == Max(tries[n].under)
\* carriedDelivery: n's branch on origin stands at the commit it was cut from
Delivery(n) == n \in delivered /\ Carries(n) /\ "origin" \notin work[n]

\* carryHead: the commit an attempt that carries on from n starts at, or 0
CarryHead(n) == IF work[n] # {} THEN n ELSE IF Delivery(n) THEN Base(n) ELSE 0

\* rejectedWorkHead, and not integrated
HeldCommit(n) == work[n] # {} /\ n \notin merged

\* integratedHead
Integrated(n) ==
    \/ "origin" \in work[n] /\ n \in merged
    \/ Delivery(n) /\ Base(n) \in merged
    \/ "origin" \notin work[n] /\ ~Delivery(n) /\ "local" \in work[n] /\ n \in merged

\* classifyRecordedRejection, of a reason made of these texts
Class(whys) ==
    IF "boundary" \in whys THEN "fresh"
    ELSE IF "nocommits" \in whys THEN "unclear"
    ELSE IF "missing" \in whys THEN "carry" ELSE "unclear"

\* recordedRejection: what is known once a checkpoint of these rows, whose
\* reason names these ticks, is on origin.  The first that names one counts.
Named(known, rows, ticks, whys) ==
    [n \in Numbers |->
        IF /\ known[n] = "none" /\ n <= last /\ tries[n].tick \in ticks
           /\ rows[tries[n].tick] = [state |-> "rejected", attempt |-> n]
        THEN Class(whys) ELSE known[n]]

\* escalatesAbove
Escalates(n) == Tier(Try(n)) > tries[n].tier
DisposesAtItsOwn(n) == Escalates(n) \/ rel[n].step # "ceiling"

\* runDispose: one tier up, or the one further try at the ceiling
Disposes(n) ==
    \/ Escalates(n)
    \/ \A m \in Of(tries[n].tick) : rel[m].step # "ceiling"
RunRelease(n, carry) ==
    [by |-> "run", carry |-> carry, step |-> IF Escalates(n) THEN "escalate" ELSE "ceiling"]

\* tearDown of these attempts: Cancel, then Dispose, which keeps the record.  A
\* job that reported either settles by itself within the grace or is cancelled.
Quits(ns) == SUBSET {n \in ns : job[n] = "lingering"}
TornDown(ns, quits) ==
    [n \in Numbers |->
        IF n \notin ns THEN job[n]
        ELSE IF n \in quits THEN "reported"
        ELSE IF job[n] \in Alive \cup {"lost"} THEN "cancelled" ELSE job[n]]

-----------------------------------------------------------------------------
\* Ticks of the epic may be closed before the run.
Init ==
    /\ row \in [Ticks -> [state : {"open", "closed"}, attempt : {0}]]
    /\ last = 0 /\ tries = [n \in Numbers |-> NoTry]
    /\ rel = [n \in Numbers |-> NoRel] /\ ruled = [n \in Numbers |-> "none"]
    /\ judged = {} /\ merged = {} /\ delivered = {}
    /\ job = [n \in Numbers |-> "none"] /\ work = [n \in Numbers |-> {}] /\ stray = {}
    /\ pc = "down" /\ mem = row /\ queue = {} /\ live = {} /\ settled = {} /\ bare = {}
    /\ disp = NoDisp /\ fin = NoFin /\ parked = <<>> /\ retried = [t \in Ticks |-> 0]
    /\ unaddressed = {}

\* The reconciler's process ends: what it held in memory is gone.
Down ==
    /\ pc' = "down" /\ mem' = row' /\ queue' = {} /\ live' = {} /\ settled' = {} /\ bare' = {}
    /\ disp' = NoDisp /\ fin' = NoFin /\ parked' = <<>> /\ retried' = [t \in Ticks |-> 0]

\* Run, up to runPlan: the rows are what the last checkpoint says.
Start ==
    /\ pc = "down" /\ Open # {}
    /\ pc' = "up" /\ mem' = row /\ queue' = Open
    /\ UNCHANGED <<origin, host, live, settled, bare, disp, fin, parked, retried, unaddressed>>

Crash ==
    /\ "crash" \in Events /\ pc = "up"
    /\ UNCHANGED <<origin, host, unaddressed>>
    /\ Down

\* The host is lost: a fresh clone has only what is on origin.
Wipe ==
    /\ "wipe" \in Events /\ \E n \in 1 .. last : job[n] # "none"
    /\ job' = [n \in Numbers |-> "none"]
    /\ work' = [n \in Numbers |-> work[n] \ {"local"}]
    /\ stray' = {n \in stray : "origin" \in work[n]}
    /\ UNCHANGED <<origin, unaddressed>>
    /\ Down

\* A refusal that stops the run: reject's checkpoint names the tick, and Run's
\* closing one names every tick that failed and quotes this refusal.
Names(ps) == {ps[i].tick : i \in DOMAIN ps}
Says(ps)  == {ps[i].why : i \in DOMAIN ps}
Stop(t, rows) ==
    /\ row' = rows
    /\ ruled' = Named(Named(ruled, rows, {t}, {"other"}), rows, {t} \cup Names(parked), {"other"})
    /\ Down

\* endHeld: its checkpoint names the tick held first, with its refusal, and
\* Run's closing one names them all, with all of theirs (heldEnd.reason).
End ==
    /\ pc = "up" /\ <<queue, live, settled>> = <<{}, {}, {}>> /\ disp = NoDisp /\ fin = NoFin
    /\ row' = mem
    /\ ruled' = IF parked = <<>> THEN ruled
                ELSE Named(Named(ruled, mem, {Head(parked).tick}, {Head(parked).why}),
                           mem, Names(parked), Says(parked))
    /\ Down
    /\ UNCHANGED <<last, tries, rel, judged, merged, delivered, host, unaddressed>>

MayRetryOnceMore(t) == retried[t] <= MaxRetries

\* The operational retries of a tick are counted within this incarnation.
MayRetry(t) == retried[t] < MaxRetries

\* holdOnly, of a refusal that holds only its tick, whose rows in memory are
\* `rows`: its work is disposed of now (carryHeldWork), it is dispatched again
\* because it never answered, or it is parked.
HoldOnly(n, rows, known, why, held, silent) ==
    LET t     == tries[n].tick
        carry == /\ held /\ known[n] = "carry" /\ rel[n] = NoRel /\ Disposes(n)
        retry == MayRetry(t)
    IN  \/ /\ carry /\ retry
           /\ rel' = [rel EXCEPT ![n] = RunRelease(n, TRUE)]
           /\ mem' = rows /\ queue' = queue \cup {t} /\ retried' = [retried EXCEPT ![t] = @ + 1]
           /\ UNCHANGED parked
        \/ /\ ~carry /\ silent /\ retry
           /\ mem' = rows /\ queue' = queue \cup {t} /\ retried' = [retried EXCEPT ![t] = @ + 1]
           /\ UNCHANGED <<rel, parked>>
        \/ /\ (carry \/ silent) /\ retry => carry /\ "decision" \in Events
           /\ mem' = [rows EXCEPT ![t].state = "rejected"]
           /\ parked' = Append(parked, [tick |-> t, why |-> why])
           /\ UNCHANGED <<rel, queue, retried>>

-----------------------------------------------------------------------------
(* claimDispatch: the walk over the attempts of a tick, newest first.  The *)
(* reconciler does one thing at a time: it admits and polls between two    *)
(* steps of the finish under way, and while a gate runs.                   *)

Between == pc = "up" /\ disp = NoDisp /\ fin.at \notin {"reject", "release"}

DispositionOfThisHost(n) ==
    IF mem[tries[n].tick].state # "rejected" THEN "adopt"
    ELSE IF "local" \in work[n] /\ n \notin merged THEN "hold"
    ELSE IF n \in merged \/ (Delivery(n) /\ Base(n) \in merged) THEN "finish" ELSE "failed"

DispositionByRow(n) ==
    IF mem[tries[n].tick].state # "rejected"
    THEN IF mem[tries[n].tick].attempt = n THEN "adopt" ELSE "failed"
    ELSE IF HeldCommit(n) THEN "hold"
    ELSE IF work[n] # {} \/ (Delivery(n) /\ Base(n) \in merged) THEN "finish" ELSE "failed"

\* disposition: the work is looked for on origin and on this host.
Disposition(n) ==
    IF mem[tries[n].tick].state # "rejected" THEN "adopt"
    ELSE IF HeldCommit(n) THEN "hold"
    ELSE IF work[n] # {} \/ (Delivery(n) /\ Base(n) \in merged) THEN "finish" ELSE "failed"

\* What the walk makes of an attempt.
Fate(n) ==
    CASE rel[n].by = "person" -> "skipped"
      [] rel[n].by = "run"    -> "failed"
      [] rel[n].by = "none"   -> Disposition(n)

Fated(t, fates) == {n \in Of(t) : Fate(n) \in fates}

\* disposeUndecidedRejection, unless its decision cannot be recorded
Decided(n) == ruled[n] \in {"carry", "fresh"} /\ Disposes(n)

\* The attempts the run releases on this walk, of those it would hold.
Release(ns) ==
    rel' = [n \in Numbers |-> IF n \in ns THEN RunRelease(n, ruled[n] = "carry") ELSE rel[n]]

\* An attempt that holds work nothing decided of stops the run.
AdmitHeld(t, denied) ==
    /\ Between /\ t \in queue
    /\ LET held  == Fated(t, {"hold"})
           stuck == {n \in held : ~Decided(n) \/ n \in denied}
           at    == Max(stuck)
           torn  == {n \in held : n >= at} \cup {n \in Of(t) : n > at /\ rel[n].by = "run"}
       IN  /\ denied \subseteq held /\ (denied # {} => "decision" \in Events)
           /\ stuck # {}
           /\ Release({n \in held : n > at})
           /\ \E quits \in Quits(torn) : job' = TornDown(torn, quits)
           /\ Stop(t, [mem EXCEPT ![t] = [state |-> "rejected", attempt |-> at]])
    /\ UNCHANGED <<last, tries, judged, merged, delivered, work, stray, unaddressed>>

\* Otherwise the latest attempt that can be adopted is, and a new one is placed
\* when none can; it carries on from the latest released with its work.
Admit(t) ==
    /\ Between /\ t \in queue
    /\ LET held   == Fated(t, {"hold"})
           able   == Fated(t, {"adopt", "finish"})
           carry  == {n \in Of(t) : rel[n].carry} \cup {n \in held : ruled[n] = "carry"}
           torn   == held \cup {n \in Of(t) : rel[n].by = "run"}
           failed == Cardinality(Fated(t, {"failed", "hold"}))
           n      == Max(able)
       IN  /\ \A m \in held : Decided(m)
           /\ Release(held)
           /\ \E quits \in Quits(torn) : job' = TornDown(torn, quits)
           /\ queue' = queue \ {t}
           /\ IF able # {} /\ Fate(n) = "finish"
              THEN /\ mem' = [mem EXCEPT ![t].attempt = n]
                   /\ settled' = settled \cup {n} /\ bare' = bare \cup {n}
                   /\ UNCHANGED disp
              ELSE /\ disp' = IF able # {}
                              THEN [NoDisp EXCEPT !.at = "adopt", !.tick = t, !.n = n]
                              ELSE [NoDisp EXCEPT !.at = "place", !.tick = t, !.failed = failed,
                                                  !.carry = Max(carry \cup {0})]
                   /\ mem' = IF able # {} THEN [mem EXCEPT ![t].attempt = n]
                              ELSE IF held # {} THEN [mem EXCEPT ![t].attempt = Min(held)] ELSE mem
                   /\ UNCHANGED <<settled, bare>>
    /\ UNCHANGED <<row, last, tries, ruled, judged, merged, delivered, work, stray, pc, live, fin,
                   parked, retried, unaddressed>>

\* adopt: a job nobody can address stops the run; one that never started here
\* is started, unless its claim is refused; any other goes into the window.
Adopt ==
    /\ disp.at = "adopt"
    /\ LET n == disp.n
       IN  \/ /\ job[n] = "none"
              /\ disp' = [disp EXCEPT !.at = "restart"]
              /\ UNCHANGED <<origin, pc, mem, window, fin, parked, retried, unaddressed>>
           \/ /\ job[n] = "none" /\ "width" \in Events
              /\ Stop(disp.tick, [mem EXCEPT ![disp.tick].state = "open"])
              /\ UNCHANGED <<last, tries, rel, judged, merged, delivered, unaddressed>>
           \/ /\ job[n] = "lost"
              /\ unaddressed' = unaddressed \cup {n}
              /\ Stop(disp.tick, [mem EXCEPT ![disp.tick].state = "rejected"])
              /\ UNCHANGED <<last, tries, rel, judged, merged, delivered>>
           \/ /\ job[n] \notin {"none", "lost"}
              /\ live' = live \cup {n} /\ disp' = NoDisp
              /\ UNCHANGED <<origin, pc, mem, queue, settled, bare, fin, parked, retried, unaddressed>>
    /\ UNCHANGED host

\* setTick: a rejected row is the rejection of the attempt before this one.
Ready(t) == [mem EXCEPT ![t].state = "open"]

\* planDispatch, then the row and the marker in one push.  What it carries must
\* still be there: carryHead's error ends the process.
Place ==
    /\ disp.at = "place" /\ last < MaxAttempt
    /\ LET t    == disp.tick
           n    == last + 1
           from == disp.carry
           base == IF from = 0 THEN 0 ELSE CarryHead(from)
       IN  IF from # 0 /\ base = 0
           THEN UNCHANGED <<origin, unaddressed>> /\ Down
           ELSE /\ mem' = Ready(t) /\ row' = Ready(t)
                /\ last' = n
                /\ tries' = [tries EXCEPT ![n] =
                       [tick |-> t, tier |-> Tier(disp.failed),
                        under |-> IF base = 0 THEN {} ELSE {base} \cup tries[base].under]]
                /\ disp' = [NoDisp EXCEPT !.at = "claim", !.tick = t, !.n = n]
                /\ UNCHANGED <<rel, ruled, judged, merged, delivered, pc, window, fin, parked,
                               retried, unaddressed>>
    /\ UNCHANGED host

\* The marker read back, the attempt's number in the row, and the claim.
Claim ==
    /\ disp.at = "claim"
    /\ LET t == disp.tick
       IN  \/ /\ mem' = [mem EXCEPT ![t].attempt = disp.n]
              /\ disp' = [disp EXCEPT !.at = "start"]
              /\ UNCHANGED <<origin, pc, window, fin, parked, retried>>
           \/ /\ "width" \in Events
              /\ Stop(t, [mem EXCEPT ![t] = [state |-> "open", attempt |-> disp.n]])
              /\ UNCHANGED <<last, tries, rel, judged, merged, delivered>>
    /\ UNCHANGED <<host, unaddressed>>

\* Start: a job that continues its own pushed work has it in the checkout again.
StartJob ==
    /\ disp.at \in {"start", "restart"}
    /\ LET n == disp.n
       IN  /\ job' = [job EXCEPT ![n] = "running"]
           /\ work' = [work EXCEPT ![n] = IF @ = {} THEN {} ELSE @ \cup {"local"}]
           /\ mem' = [mem EXCEPT ![disp.tick].state = "open"]
           /\ IF disp.at = "start"
              THEN disp' = [disp EXCEPT !.at = "note"] /\ UNCHANGED live
              ELSE disp' = NoDisp /\ live' = live \cup {n}
    /\ UNCHANGED <<origin, stray, pc, queue, settled, bare, fin, parked, retried, unaddressed>>

\* The process dies between the attempt's record and its supervisor.
DieStarting ==
    /\ "crash" \in Events /\ disp.at \in {"start", "restart"}
    /\ job' = [job EXCEPT ![disp.n] = "lost"]
    /\ UNCHANGED <<origin, work, stray, unaddressed>>
    /\ Down

\* The checkpoint that says the attempt runs.
Note ==
    /\ disp.at = "note"
    /\ row' = mem
    /\ live' = live \cup {disp.n} /\ disp' = NoDisp
    /\ UNCHANGED <<last, tries, rel, ruled, judged, merged, delivered, host, pc, mem, queue, settled,
                   bare, fin, parked, retried, unaddressed>>

-----------------------------------------------------------------------------
(* addressOnce, of an attempt in the window. *)

Poll(n) ==
    /\ Between /\ n \in live /\ job[n] \in Terminal
    /\ live' = live \ {n} /\ settled' = settled \cup {n}
    /\ UNCHANGED <<origin, host, pc, mem, queue, bare, disp, fin, parked, retried, unaddressed>>

\* Lost, or past its wall clock and not to be stopped: its tick is held.
Refuse(n) ==
    /\ Between /\ n \in live
    /\ job[n] \in IF "overdue" \in Events THEN {"lost", "running"} ELSE {"lost"}
    /\ HoldOnly(n, mem, ruled, "other", FALSE, FALSE)
    /\ live' = live \ {n}
    /\ unaddressed' = unaddressed \cup {n}
    /\ UNCHANGED <<row, last, tries, ruled, judged, merged, delivered, host, pc, settled, bare, disp, fin>>

-----------------------------------------------------------------------------
(* The finish of one attempt at a time: collect, integrate, gate, close. *)

BeginFinish(n) ==
    /\ Between /\ fin = NoFin /\ n \in settled
    /\ settled' = settled \ {n}
    /\ fin' = [NoFin EXCEPT !.at = "collect", !.n = n]
    /\ UNCHANGED <<origin, host, pc, mem, queue, live, bare, disp, parked, retried, unaddressed>>

CancelledAnyway(n) == job[n] = "cancelled"

\* readRecordedVerdictFirst: a cancellation counts only before the verdict.
Cancelled(n) == job[n] = "cancelled" /\ n \notin judged

\* classify, with deliverCarriedWork and checkCarriedWork over it; a boundary
\* violation is asked first.
Verdict(n) ==
    LET own  == work[n] # {}
        says == IF job[n] \in {"failed", "walled"} \/ Cancelled(n) THEN "missing"
                ELSE IF own \/ Carries(n) \/ job[n] = "cancelled" THEN "ready" ELSE "nocommits"
    IN  IF (own /\ n \in stray) \/ (says = "ready" /\ tries[n].under \cap stray # {})
        THEN "boundary" ELSE says

\* The commit collected: 0 when a cancelled attempt's branch holds none of its
\* own, for what it delivers was only read into the collect it had before.
Collected(n) ==
    IF work[n] # {} THEN n ELSE IF job[n] = "cancelled" THEN 0 ELSE Base(n)

\* collect, up to its verdict: the work is put on origin, a ready verdict is
\* recorded, and the run's release of a rejected attempt is, before its row.
\* One that is merged is not collected again.
Collect ==
    /\ Between /\ fin.at = "collect" /\ (fin.n \in bare => Integrated(fin.n))
    /\ LET n    == fin.n
           says == Verdict(n)
           held == HeldCommit(n)
           ours == held /\ rel[n].by = "none" /\ Disposes(n)
       IN  IF Integrated(n)
           THEN /\ mem' = [mem EXCEPT ![tries[n].tick].state = "open"]
                /\ row' = mem
                /\ fin' = [fin EXCEPT !.at = "gate"]
                /\ UNCHANGED <<rel, judged, work, unaddressed>>
           ELSE /\ mem' = [mem EXCEPT ![tries[n].tick].state = "open"]
                /\ work' = [work EXCEPT ![n] = IF "local" \in @ THEN @ \cup {"origin"} ELSE @]
                /\ unaddressed' = unaddressed \ {n}
                /\ IF says = "ready"
                   THEN /\ judged' = judged \cup {n}
                        /\ row' = mem'
                        /\ fin' = [fin EXCEPT !.at = "release", !.head = Collected(n)]
                        /\ UNCHANGED rel
                   ELSE /\ \/ /\ ours
                              /\ rel' = [rel EXCEPT ![n] = RunRelease(n, says # "boundary")]
                              /\ fin' = [fin EXCEPT !.at = "reject", !.why = says, !.again = TRUE]
                           \/ /\ ours => "decision" \in Events
                              /\ rel' = rel
                              /\ fin' = [fin EXCEPT !.at = "reject", !.why = says,
                                                    !.again = held /\ rel[n].by = "run"]
                        /\ UNCHANGED <<row, judged>>
    /\ UNCHANGED <<last, tries, ruled, merged, delivered, job, stray, pc, window, disp, parked, retried>>

\* Taken as merged and no longer found so, an attempt has no executor to be
\* collected through: the run stops.
HeadMissing ==
    /\ Between /\ fin.at = "collect" /\ fin.n \in bare /\ ~Integrated(fin.n)
    /\ Stop(tries[fin.n].tick, [mem EXCEPT ![tries[fin.n].tick].state = "rejected"])
    /\ UNCHANGED <<last, tries, rel, judged, merged, delivered, host, unaddressed>>

\* The rejection: durable, unless it is of the boundary; the attempt is torn
\* down, and its tick is dispatched again or held.
Reject ==
    /\ fin.at = "reject"
    /\ LET n     == fin.n
           t     == tries[n].tick
           rows  == [mem EXCEPT ![t].state = "rejected"]
           known == IF fin.why = "boundary" THEN ruled ELSE Named(ruled, rows, {t}, {fin.why})
       IN  /\ row' = IF fin.why = "boundary" THEN row ELSE rows
           /\ ruled' = known
           /\ \E quits \in Quits({n}) : job' = TornDown({n}, quits)
           /\ IF fin.again
              THEN mem' = rows /\ queue' = queue \cup {t} /\ UNCHANGED <<rel, parked, retried>>
              ELSE HoldOnly(n, rows, known, fin.why, fin.why # "boundary" /\ HeldCommit(n),
                            fin.why = "missing" /\ job[n] = "failed" /\ work[n] = {})
    /\ fin' = NoFin
    /\ UNCHANGED <<last, tries, judged, merged, delivered, work, stray, pc, live, settled, bare, disp, unaddressed>>

\* releaseWorker: the worker is let go before its work is merged.
ReleaseWorker ==
    /\ fin.at = "release"
    /\ \E quits \in Quits({fin.n}) : job' = TornDown({fin.n}, quits)
    /\ fin' = [fin EXCEPT !.at = "merge"]
    /\ UNCHANGED <<origin, work, stray, pc, mem, window, disp, parked, retried, unaddressed>>

\* integrate: the collected commit is put on origin and merged, with what it
\* carries; a run that collected none stops.
Merge ==
    /\ Between /\ fin.at = "merge" /\ fin.head # 0
    /\ row' = mem
    /\ delivered' = IF fin.head = fin.n THEN delivered ELSE delivered \cup {fin.n}
    /\ merged' = merged \cup {fin.head} \cup tries[fin.head].under
    /\ fin' = [fin EXCEPT !.at = "gate"]
    /\ UNCHANGED <<last, tries, rel, ruled, judged, host, pc, mem, window, disp, parked, retried, unaddressed>>

MergeNothing ==
    /\ Between /\ fin.at = "merge" /\ fin.head = 0
    /\ Stop(tries[fin.n].tick, [mem EXCEPT ![tries[fin.n].tick].state = "rejected"])
    /\ UNCHANGED <<last, tries, rel, judged, merged, delivered, host, unaddressed>>

\* conflictToLadder: the attempt is released with its work, or its tick held.
Conflict ==
    /\ "conflict" \in Events
    /\ Between /\ fin.at = "merge" /\ fin.head # 0 /\ fin.head \notin merged
    /\ LET n    == fin.n
           t    == tries[n].tick
           ours == HeldCommit(n) /\ rel[n].by = "none" /\ Disposes(n)
       IN  /\ row' = mem
           /\ delivered' = IF fin.head = n THEN delivered ELSE delivered \cup {n}
           /\ \/ /\ ours
                 /\ rel' = [rel EXCEPT ![n] = RunRelease(n, TRUE)]
                 /\ mem' = [mem EXCEPT ![t].state = "rejected"]
                 /\ queue' = queue \cup {t}
                 /\ UNCHANGED <<parked, retried>>
              \/ /\ ~ours \/ "decision" \in Events
                 /\ IF HeldCommit(n) /\ rel[n].by = "run"
                    THEN /\ mem' = [mem EXCEPT ![t].state = "rejected"]
                         /\ queue' = queue \cup {t}
                         /\ UNCHANGED <<rel, parked, retried>>
                    ELSE HoldOnly(n, mem, ruled, "other", FALSE, FALSE)
    /\ fin' = NoFin
    /\ UNCHANGED <<last, tries, ruled, judged, merged, host, pc, live, settled, bare, disp, unaddressed>>

\* The gate over the integration branch: its failure stops the run, and tears
\* down what an executor addresses.
GatePasses ==
    /\ Between /\ fin.at = "gate"
    /\ fin' = [fin EXCEPT !.at = "close"]
    /\ UNCHANGED <<origin, host, pc, mem, window, disp, parked, retried, unaddressed>>

GateFails ==
    /\ "red" \in Events /\ Between /\ fin.at = "gate"
    /\ \E quits \in Quits({fin.n} \ bare) : job' = TornDown({fin.n} \ bare, quits)
    /\ Stop(tries[fin.n].tick, [mem EXCEPT ![tries[fin.n].tick].state = "rejected"])
    /\ UNCHANGED <<last, tries, rel, judged, merged, delivered, work, stray, unaddressed>>

\* closeTickHeld, and cleanUp of the attempt.
Close ==
    /\ Between /\ fin.at = "close"
    /\ mem' = [mem EXCEPT ![tries[fin.n].tick].state = "closed"]
    /\ row' = mem'
    /\ \E quits \in Quits({fin.n}) : job' = TornDown({fin.n}, quits)
    /\ fin' = NoFin /\ bare' = bare \ {fin.n}
    /\ UNCHANGED <<last, tries, rel, ruled, judged, merged, delivered, work, stray, pc, queue, live,
                   settled, disp, parked, retried, unaddressed>>

-----------------------------------------------------------------------------
(* The attempts' jobs, which nothing above waits for, and the person. *)

\* The worker commits; the supervisor pushes its branch on a timer.
WorkerCommits(n) ==
    /\ job[n] = "running" /\ "local" \notin work[n]
    /\ work' = [work EXCEPT ![n] = @ \cup {"local"}]
    /\ \/ UNCHANGED stray
       \/ "stray" \in Events /\ stray' = stray \cup {n}
    /\ UNCHANGED <<origin, job, memory, unaddressed>>

WorkerPushes(n) ==
    /\ job[n] \in Alive /\ work[n] = {"local"}
    /\ work' = [work EXCEPT ![n] = @ \cup {"origin"}]
    /\ UNCHANGED <<origin, job, stray, memory, unaddressed>>

\* Its report left, a job settles or lives on; without one it fails, or is
\* stopped at its wall clock.
WorkerEnds(n) ==
    /\ \/ /\ job[n] = "running"
          /\ \E how \in {"reported", "failed", "walled"} \cup Events :
                /\ how \in {"reported", "failed", "walled", "linger", "lost"}
                /\ job' = [job EXCEPT ![n] = IF how = "linger" THEN "lingering" ELSE how]
       \/ /\ job[n] = "lingering"
          /\ job' = [job EXCEPT ![n] = "reported"]
    /\ UNCHANGED <<origin, work, stray, memory, unaddressed>>

\* settle: of an attempt nobody can address, or one whose rejection is on
\* record and whose work nothing merged; with its work only if it left some.
PersonSettles(n, carry) ==
    /\ "settle" \in Events
    /\ n <= last /\ rel[n].by = "none"
    /\ \/ job[n] = "lost"
       \/ /\ job[n] \in Terminal
          /\ row[tries[n].tick] = [state |-> "rejected", attempt |-> n]
          /\ ~("origin" \in work[n] /\ n \in merged)
    /\ carry => work[n] # {}
    /\ rel' = [rel EXCEPT ![n] = [by |-> "person", carry |-> carry, step |-> "none"]]
    /\ \E quits \in Quits({n}) : job' = TornDown({n}, quits)
    /\ UNCHANGED <<row, last, tries, ruled, judged, merged, delivered, work, stray, memory, unaddressed>>

Next ==
    \/ Start \/ Crash \/ Wipe \/ End
    \/ \E t \in Ticks : Admit(t) \/ \E denied \in SUBSET Of(t) : AdmitHeld(t, denied)
    \/ Adopt \/ Place \/ Claim \/ StartJob \/ DieStarting \/ Note
    \/ \E n \in live : Poll(n) \/ Refuse(n)
    \/ \E n \in settled : BeginFinish(n)
    \/ Collect \/ HeadMissing \/ Reject \/ ReleaseWorker \/ Merge \/ MergeNothing \/ Conflict
    \/ GatePasses \/ GateFails \/ Close
    \/ \E n \in Numbers : \/ WorkerCommits(n) \/ WorkerPushes(n) \/ WorkerEnds(n)
                          \/ \E carry \in BOOLEAN : PersonSettles(n, carry)

Spec == Init /\ [][Next]_vars

-----------------------------------------------------------------------------
Row == [state : {"open", "rejected", "closed"}, attempt : 0 .. MaxAttempt]
Tick == Ticks \cup {"none"}
Commits == SUBSET Numbers

TypeOK ==
    /\ row \in [Ticks -> Row] /\ last \in 0 .. MaxAttempt
    /\ tries \in [Numbers -> [tick : Tick, tier : 0 .. Ceiling, under : Commits]]
    /\ rel \in [Numbers -> [by : {"none", "person", "run"}, carry : BOOLEAN,
                            step : {"none", "escalate", "ceiling"}]]
    /\ ruled \in [Numbers -> {"none", "unclear", "carry", "fresh"}]
    /\ judged \subseteq 1 .. last /\ merged \subseteq 1 .. last /\ delivered \subseteq 1 .. last
    /\ job \in [Numbers -> {"none", "running", "lost"} \cup Terminal]
    /\ work \in [Numbers -> SUBSET {"local", "origin"}] /\ stray \subseteq 1 .. last
    /\ pc \in {"up", "down"} /\ mem \in [Ticks -> Row]
    /\ queue \subseteq Ticks /\ live \subseteq 1 .. last
    /\ settled \subseteq 1 .. last /\ bare \subseteq 1 .. last
    /\ disp \in [at : {"none", "adopt", "restart", "place", "claim", "start", "note"},
                 tick : Tick, n : 0 .. last, failed : 0 .. MaxAttempt, carry : 0 .. last]
    /\ fin \in [at : {"none", "collect", "reject", "release", "merge", "gate", "close"},
                n : 0 .. last, head : 0 .. last,
                why : {"none", "boundary", "missing", "nocommits"}, again : BOOLEAN]
    /\ parked \in Seq([tick : Ticks, why : {"boundary", "missing", "nocommits", "other"}])
    /\ retried \in [Ticks -> 0 .. MaxRetries]
    /\ unaddressed \subseteq 1 .. last

\* Two attempts of a tick never run at once, but for one the run refused as
\* unaddressed (RefusedUnaddressed), which may still be at work.
LiveIsNeverRedispatched ==
    \A m, n \in 1 .. last :
        /\ m < n /\ tries[m].tick = tries[n].tick
        /\ job[m] = "running" /\ job[n] = "running"
        => m \in unaddressed

\* No attempt is placed over an earlier one of its tick that holds work nothing
\* merged and nobody released (RefusedRejectedWork: "that would orphan the only
\* copy"), whatever stopped the run in between.
WorkIsNeverOrphaned ==
    [][last' > last =>
        \A m \in Of(tries'[last'].tick) :
            work[m] # {} /\ m \notin merged /\ rel[m].by = "none" => m \in unaddressed]_vars

\* What the collect found ready-to-merge is released by the run over a merge
\* conflict and for nothing else, however often the run is started again before
\* it is merged (collect: "the recorded verdict stands").  Of a host that is
\* lost with its work nothing is claimed.
JudgedStands ==
    [][\A m \in judged :
        rel[m].by = "none" /\ rel'[m].by = "run" => fin.at = "merge"]_vars

\* Only a person releases an attempt the run could not address ("it is held,
\* never redispatched", dispatch.go, RefusedUnaddressed): what the run releases
\* by itself, it collected.
HeldForAPerson ==
    [][\A m \in unaddressed' : rel[m].by = "none" => rel'[m].by # "run"]_vars

\* The run's own releases of a tick are bounded by its ladder: one a tier, and
\* the one further try at the ceiling, over all its incarnations (runDispose).
\* Of a host that is lost with its work nothing is claimed: see the README.
LadderIsBounded ==
    \A t \in Ticks : Cardinality({n \in Of(t) : rel[n].by = "run"}) <= Ceiling + 1

=============================================================================
