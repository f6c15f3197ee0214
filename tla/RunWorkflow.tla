---------------------------- MODULE RunWorkflow ----------------------------
(***************************************************************************)
(* One run's supervisor (cloudflare/src/run-workflow.ts: superviseRun,     *)
(* supervisePass, observe, finalize) with the watch it decides by          *)
(* (run-watch.ts), and everyone whose steps fall between the supervisor's: *)
(* the orchestrator processes it boots, the done door they report through  *)
(* (run-done.ts), the operator's stop (runs.ts, stopRun), the orphan sweep *)
(* (run-orphans.ts) and one worker the orchestrator dispatched.            *)
(*                                                                         *)
(* A Workflow step is journalled: `pc` is the step the instance stands at. *)
(* The boot step is taken apart, because its retries repeat it from the    *)
(* start over whatever an earlier try already did.  A boot is the epic     *)
(* work pass's: superviseReview and superviseLocalOrchestrator, and hosted *)
(* conversations, are not modelled.                                        *)
(***************************************************************************)
EXTENDS Naturals, Sequences

CONSTANTS
    Workers,              \* the workers an orchestrator may dispatch
    Codes,                \* the exit codes there are, by what isTerminalExit and
                          \* isTransientExit make of them
    MaxSandboxBoots,      \* MAX_SANDBOX_BOOTS: crashes a pass survives, and one
    MaxTransientReboots,  \* maxTransientReboots(): as many fit the window, in a row
    TransientMaxLooks,    \* TRANSIENT_BOOT_MAX_LOOKS
    MaxObservations,      \* config.max_observations: looks of one boot
    MaxUnansweredLooks,   \* MAX_UNANSWERED_LOOKS
    BootRetries,          \* BOOT_RETRIES.retries.limit
    Faults,               \* "boot": a try of the boot step may throw anywhere
                          \* "deaf": a look's question may fail
                          \* "blind": a read of the stop record may fail
                          \* "kill", "destroy", "revoke": the call may fail,
                          \* which its caller swallows
                          \* "step": a step may exhaust its retries and throw
                          \* "lost": the instance may end where it stands
    MaxStops              \* bound: requests to stop

ASSUME ConstantsAssumption ==
    /\ Codes \subseteq {"zero", "terminal", "transient", "other"}
    /\ MaxSandboxBoots \in Nat \ {0} /\ MaxTransientReboots \in Nat
    /\ TransientMaxLooks \in Nat /\ MaxObservations \in Nat \ {0}
    /\ MaxUnansweredLooks \in Nat \ {0} /\ BootRetries \in Nat /\ MaxStops \in Nat
    /\ Faults \subseteq {"boot", "deaf", "blind", "kill", "destroy", "revoke", "step", "lost"}

VARIABLES
    pc,        \* the step the instance stands at
    boot,      \* counter.next - 1: boots counted
    crashes,   \* how many of them crashed
    streak,    \* transient.reboots: transient reboots in a row
    tries,     \* retries of the boot step
    watch,     \* WatchState: looks, unasked, the exit reported, and whether its
               \* settle window has begun
    seen,      \* the process state the last look was answered
    outcome,   \* how the pass ends: "none" while it may still reboot
    trip,      \* the trip under way: "none", "clean", "hard"
    net,       \* superviseRun's catch has been entered: finalize:failed
    live,      \* run_gateway_token: the orchestrator's that are not revoked
    minted,    \* how many were minted: each is known by its number
    workers,   \* each worker: "none", at work with its token "live" or "cut", "ended"
    up,        \* boots whose container is up
    procs,     \* orchestrator processes running: their boot and their token
    exit,      \* how the newest process ended, "none" while it has not
    haltLine,  \* a supervision_halted line stands on the newest boot's feed
    said,      \* the exit the newest process posted to the done door
    mail,      \* the exits in the done events the platform buffers, in order
    stop,      \* the run_stop record
    stopper,   \* where stopRun is: "idle", "record", "revoke", "flip", "check"
    stops,     \* requests to stop so far
    row        \* the run's index row

loop   == <<boot, crashes, streak, tries>>
looks  == <<watch, seen>>
ending == <<outcome, trip, net>>
tokens == <<live, minted, workers>>
world  == <<up, procs, exit, haltLine, said, mail>>
asked  == <<stop, stopper, stops>>
vars   == <<pc, loop, looks, ending, tokens, world, asked, row>>

Ends     == Codes \cup {"gone"}
Fresh    == [looks |-> 0, unasked |-> 0, report |-> "none", pinned |-> FALSE]
Active   == {"starting", "running", "stopping"}
Verdicts == {"completed", "stopped", "failed"}

InBootStep == {"rotate", "mint", "provision", "start", "answer"}
InWatch    == {"wait", "ask", "judge", "linger", "cutoff", "drain", "cutclean", "drainout"}
InFinalize == {"fin_revoke", "fin_row", "fin_workers", "fin_sweep"}
Ended      == {"complete", "errored"}  \* INSTANCE_ENDED
Steps == {"context", "killcheck", "killrevoke", "booted", "ended", "destroy", "record",
          "progress"} \cup InBootStep \cup InWatch \cup InFinalize \cup Ended

Newest  == [boot |-> boot, token |-> minted]
Running == Newest \in procs
Watched == pc \in {"answer", "booted", "ended"} \cup InWatch

\* authorizeRunCredential: an unrevoked token, of a run whose row is active.
Spends(p) == p.token \in live /\ row \in Active

\* revokeRunTokens: every live credential the run holds, its workers' too.
CutOf == [w \in Workers |-> IF workers[w] = "live" THEN "cut" ELSE workers[w]]
RevokeAll == live' = {} /\ workers' = CutOf
\* Callers that swallow its failure.
TriesToRevoke == \/ RevokeAll
                 \/ "revoke" \in Faults /\ UNCHANGED <<live, workers>>

Goto(s) == pc' = s
\* Out of the watch: its state goes out of scope.
Leave == Goto("ended") /\ watch' = Fresh /\ seen' = "none"

Init ==
    /\ pc = "context" /\ boot = 0 /\ crashes = 0 /\ streak = 0 /\ tries = 0
    /\ watch = Fresh /\ seen = "none"
    /\ outcome = "none" /\ trip = "none" /\ net = FALSE
    /\ live = {} /\ minted = 0 /\ workers = [w \in Workers |-> "none"]
    /\ up = {} /\ procs = {} /\ exit = "none" /\ haltLine = FALSE
    /\ said = "none" /\ mail = <<>>
    /\ stop = "none" /\ stopper = "idle" /\ stops = 0 /\ row = "starting"

-----------------------------------------------------------------------------
(* One boot: the kill check, then the boot step, try by try *)

\* acquireContext: a run it cannot resolve ends without a boot.
Context ==
    /\ pc = "context"
    /\ \/ Goto("killcheck") /\ row' = "running" /\ UNCHANGED outcome
       \/ Goto("fin_revoke") /\ outcome' = "failed" /\ UNCHANGED row
    /\ UNCHANGED <<loop, looks, trip, net, tokens, world, asked>>

\* What a read of the stop record answers: a read that fails is not a stop.
StopRead == {stop} \cup (IF "blind" \in Faults THEN {"none"} ELSE {})

\* hardStopRecord, before the boot is even counted.
KillCheck ==
    /\ pc = "killcheck"
    /\ \E standing \in StopRead :
        IF standing = "hard"
        THEN Goto("killrevoke") /\ UNCHANGED <<boot, tries, haltLine>>
        ELSE Goto("rotate") /\ boot' = boot + 1 /\ tries' = 0 /\ haltLine' = FALSE
    /\ UNCHANGED <<crashes, streak, looks, ending, tokens, up, procs, exit, said, mail,
                   asked, row>>

\* A trip: a stopped run.
KillRevoke ==
    /\ pc = "killrevoke" /\ Goto("record")
    /\ RevokeAll /\ outcome' = "stopped" /\ trip' = "hard"
    /\ UNCHANGED <<loop, looks, net, minted, world, asked, row>>

RotateNothing ==
    /\ pc = "rotate" /\ Goto("mint")
    /\ UNCHANGED <<loop, looks, ending, tokens, world, asked, row>>

\* issueRunToken: the run's tokens die before the next is live.
Rotate ==
    /\ pc = "rotate" /\ Goto("mint")
    /\ RevokeAll
    /\ UNCHANGED <<loop, looks, ending, minted, world, asked, row>>

Mint ==
    /\ pc = "mint" /\ Goto("provision")
    /\ minted' = minted + 1 /\ live' = live \cup {minted'}
    /\ exit' = "none" /\ said' = "none"
    /\ UNCHANGED <<loop, looks, ending, workers, up, procs, haltLine, mail, asked, row>>

\* binding.get: the boot's container, kept alive until it is destroyed.
Provision ==
    /\ pc = "provision" /\ Goto("start")
    /\ up' = up \cup {boot}
    /\ UNCHANGED <<loop, looks, ending, tokens, procs, exit, haltLine, said, mail, asked, row>>

\* startProcess runs another process, whatever a try before it left running.
Start ==
    /\ pc = "start" /\ Goto("answer")
    /\ procs' = procs \cup {Newest}
    /\ UNCHANGED <<loop, looks, ending, tokens, up, exit, haltLine, said, mail, asked, row>>

\* The step's result is journalled: the watch starts, after the lease renewal.
Booted ==
    /\ pc = "answer" /\ Goto("booted")
    /\ watch' = Fresh /\ seen' = "none" /\ tries' = 0
    /\ UNCHANGED <<boot, crashes, streak, ending, tokens, world, asked, row>>

BootThrowsPastRotation ==
    /\ pc \in InBootStep /\ "boot" \in Faults
    /\ IF tries < BootRetries
       THEN Goto("mint") /\ tries' = tries + 1 /\ UNCHANGED outcome
       ELSE Goto("progress") /\ outcome' = "failed" /\ UNCHANGED tries
    /\ UNCHANGED <<boot, crashes, streak, looks, trip, net, tokens, world, asked, row>>

\* A try throws: the step starts over, or the run is unbootable.  It has been
\* counted, so finalize's sweep reaches its container.
BootThrows ==
    /\ pc \in InBootStep /\ "boot" \in Faults
    /\ IF tries < BootRetries
       THEN Goto("rotate") /\ tries' = tries + 1 /\ UNCHANGED outcome
       ELSE Goto("progress") /\ outcome' = "failed" /\ UNCHANGED tries
    /\ UNCHANGED <<boot, crashes, streak, looks, trip, net, tokens, world, asked, row>>

LeaseRenewal ==
    /\ pc = "booted" /\ Goto("wait")
    /\ UNCHANGED <<loop, looks, ending, tokens, world, asked, row>>

-----------------------------------------------------------------------------
(* The watch: one look after another *)

\* waitDoneSignal, then watchHear.  A buffered event ends the wait at once, and
\* it says nothing of the boot it came from; the first report stands.
Wait ==
    /\ pc = "wait" /\ Goto("ask")
    /\ \/ mail = <<>> /\ UNCHANGED <<watch, mail>>
       \/ /\ mail # <<>> /\ mail' = Tail(mail)
          /\ watch' = IF watch.report = "none"
                      THEN [watch EXCEPT !.report = Head(mail)] ELSE watch
    /\ UNCHANGED <<loop, seen, ending, tokens, up, procs, exit, haltLine, said, asked, row>>

\* askProcess: what the platform answers of the process, or that it did not.
Ask ==
    /\ pc = "ask" /\ Goto("judge")
    /\ \/ seen' = IF Running THEN "running" ELSE exit
       \/ "deaf" \in Faults /\ seen' = "unknown"
    /\ UNCHANGED <<loop, watch, ending, tokens, world, asked, row>>

\* detectTrip: the operator's stop first.  A lease taken, the wall clock and the
\* cost are not modelled: any look may find one of them, and all cut hard.
Trips == {IF standing = "none" THEN budget ELSE standing :
             standing \in StopRead, budget \in {"none", "hard"}}

Untripped == pc = "judge" /\ "none" \in Trips
Counted   == [watch EXCEPT !.looks = @ + 1]
Answered  == [Counted EXCEPT !.unasked = 0]

\* Live and undecided: look again, unless the looks are spent (watchOut).
Hold(state) ==
    /\ watch' = state
    /\ Goto(IF state.looks >= MaxObservations THEN "drainout" ELSE "wait")
    /\ UNCHANGED <<loop, seen, ending, tokens, world, asked, row>>

TrippedAlwaysCuts ==
    /\ pc = "judge"
    /\ \E found \in Trips \ {"none"} : trip' = found
    /\ Goto("cutoff") /\ outcome' = "stopped"
    /\ UNCHANGED <<loop, looks, net, tokens, world, asked, row>>

Tripped ==
    /\ pc = "judge"
    /\ \E found \in Trips \ {"none"} :
        trip' = found /\ Goto(IF found = "hard" THEN "cutoff" ELSE "drain")
    /\ outcome' = "stopped"
    /\ UNCHANGED <<loop, looks, net, tokens, world, asked, row>>

\* The question failed: only a stretch of those ends the pass.
Unanswered ==
    /\ Untripped /\ seen = "unknown"
    /\ \/ /\ watch.unasked + 1 < MaxUnansweredLooks
          /\ Hold([Counted EXCEPT !.unasked = @ + 1])
       \/ /\ watch.unasked + 1 >= MaxUnansweredLooks
          /\ outcome' = "failed" /\ Leave
          /\ UNCHANGED <<loop, trip, net, tokens, world, asked, row>>

StillRunning ==
    /\ Untripped /\ seen = "running"
    /\ Hold([Answered EXCEPT !.pinned = watch.report # "none"])

\* The settle window, begun by an earlier look, is over: it lingers.
Settled ==
    /\ Untripped /\ seen = "running" /\ watch.pinned
    /\ Goto("linger")
    /\ UNCHANGED <<loop, looks, ending, tokens, world, asked, row>>

\* What the boot's end makes of the pass.  A halt on the feed is asked about
\* first, unless the platform took the container; then the exit code.
Halted(end)    == end # "gone" /\ haltLine
Transient(end) == end = "transient" /\ watch.looks <= TransientMaxLooks

Concludes(end) ==
    /\ Leave
    /\ \/ end = "zero" /\ outcome' = "completed" /\ UNCHANGED <<crashes, streak>>
       \/ /\ end # "zero" /\ (Halted(end) \/ end = "terminal")
          /\ outcome' = "failed" /\ UNCHANGED <<crashes, streak>>
       \/ /\ end \notin {"zero", "terminal"} /\ ~Halted(end) /\ Transient(end)
          /\ IF streak < MaxTransientReboots
             THEN streak' = streak + 1 /\ UNCHANGED outcome
             ELSE outcome' = "failed" /\ UNCHANGED streak
          /\ UNCHANGED crashes
       \/ /\ end \notin {"zero", "terminal"} /\ ~Halted(end) /\ ~Transient(end)
          /\ crashes' = crashes + 1 /\ streak' = 0
          /\ outcome' = IF crashes' < MaxSandboxBoots THEN outcome ELSE "failed"
    /\ UNCHANGED <<boot, tries, trip, net, tokens, up, exit, haltLine, said, mail,
                   asked, row>>

Over == Untripped /\ seen \in Ends /\ Concludes(seen) /\ UNCHANGED procs

\* killProcess, of the one process the boot step answered with.
KillsTheProcess ==
    \/ procs' = procs \ {Newest}
    \/ "kill" \in Faults /\ UNCHANGED procs

\* It is stopped, and the boot concluded as the exit it reported.
Linger == pc = "linger" /\ KillsTheProcess /\ Concludes(watch.report)

\* A hard trip cuts the credential before the grace window, a clean one after.
CutOff ==
    /\ pc = "cutoff" /\ Goto("drain") /\ RevokeAll
    /\ UNCHANGED <<loop, looks, ending, minted, world, asked, row>>

\* The end of the grace window, if the process had not already ended.
Drain ==
    /\ pc = "drain" /\ KillsTheProcess
    /\ IF trip = "hard" THEN Leave ELSE Goto("cutclean") /\ UNCHANGED looks
    /\ UNCHANGED <<loop, ending, tokens, up, exit, haltLine, said, mail, asked, row>>

CutClean ==
    /\ pc = "cutclean" /\ Leave /\ RevokeAll
    /\ UNCHANGED <<loop, ending, minted, world, asked, row>>

\* Out of looks with the orchestrator alive: a clean stop, never a reboot.
DrainOut ==
    /\ pc = "drainout" /\ KillsTheProcess
    /\ Leave /\ outcome' = "stopped" /\ trip' = "clean"
    /\ UNCHANGED <<loop, net, tokens, up, exit, haltLine, said, mail, asked, row>>

-----------------------------------------------------------------------------
(* The boot's finally, and the run's end *)

\* The boot's closing line: its slice of the feed is closed to the relay, and
\* nobody asks about its process again.
EndedLine ==
    /\ pc = "ended" /\ Goto("destroy")
    /\ exit' = "none" /\ haltLine' = FALSE
    /\ UNCHANGED <<loop, looks, ending, tokens, up, procs, said, mail, asked, row>>

\* destroy, of one boot's container and every process in it.
Destroys(boots) ==
    /\ up' = up \ boots
    /\ procs' = {p \in procs : p.boot \notin boots}

DestroyAtTheEnd ==
    /\ pc = "destroy"
    /\ IF outcome = "none" THEN UNCHANGED <<up, procs>> ELSE Destroys({boot})
    /\ Goto(IF net THEN "fin_revoke" ELSE IF outcome = "none" THEN "killcheck" ELSE "progress")
    /\ UNCHANGED <<loop, looks, ending, tokens, exit, haltLine, said, mail, asked, row>>

\* A pass that may still reboot goes around again; a transient reboot waits
\* out its backoff first.  A look that threw goes on to the net.
Destroy ==
    /\ pc = "destroy"
    /\ \/ Destroys({boot})
       \/ "destroy" \in Faults /\ UNCHANGED <<up, procs>>
    /\ IF net THEN Goto("fin_revoke")
       ELSE Goto(IF outcome = "none" THEN "killcheck"
                 ELSE IF outcome = "stopped" THEN "record" ELSE "progress")
    /\ UNCHANGED <<loop, looks, ending, tokens, exit, haltLine, said, mail, asked, row>>

Record ==
    /\ pc = "record" /\ Goto("progress") /\ row' = "stopping"
    /\ UNCHANGED <<loop, looks, ending, tokens, world, asked>>

\* assessProgress and applyProgress: an exit 0 that moved nothing is a stop.
Progress ==
    /\ pc = "progress" /\ Goto("fin_revoke")
    /\ \/ UNCHANGED outcome
       \/ outcome = "completed" /\ outcome' = "stopped"
    /\ UNCHANGED <<loop, looks, trip, net, tokens, world, asked, row>>

\* finalize, in the order of its writes.
FinRevoke ==
    /\ pc = "fin_revoke" /\ Goto("fin_row") /\ TriesToRevoke
    /\ UNCHANGED <<loop, looks, ending, minted, world, asked, row>>

FinRow ==
    /\ pc = "fin_row" /\ Goto("fin_workers") /\ row' = outcome
    /\ UNCHANGED <<loop, looks, ending, tokens, world, asked>>

\* reclaimRunWorkers: each is asked to stop, given its grace and destroyed.
FinWorkers ==
    /\ pc = "fin_workers" /\ Goto("fin_sweep")
    /\ workers' = [w \in Workers |-> IF workers[w] = "none" THEN "none" ELSE "ended"]
    /\ UNCHANGED <<loop, looks, ending, live, minted, world, asked, row>>

FinSweepStarted ==
    /\ pc = "fin_sweep" /\ Goto("complete")
    /\ Destroys(1..(boot - 1))
    /\ UNCHANGED <<loop, looks, ending, tokens, exit, haltLine, said, mail, asked, row>>

\* Every boot counted, each destroyed or not; the lease is the run room's.
FinSweep ==
    /\ pc = "fin_sweep" /\ Goto("complete")
    /\ \E boots \in SUBSET (1..boot) :
        /\ boots = 1..boot \/ "destroy" \in Faults
        /\ Destroys(boots)
    /\ UNCHANGED <<loop, looks, ending, tokens, exit, haltLine, said, mail, asked, row>>

StepThrowsUnjudged ==
    /\ "step" \in Faults /\ ~net /\ net' = TRUE
    /\ pc \in {"killcheck", "booted", "destroy"} /\ Goto("fin_revoke")
    /\ UNCHANGED <<loop, looks, outcome, trip, tokens, world, asked, row>>

\* A step exhausts its retries.  Under a boot's watch the finally still runs;
\* either way the net's own finalize ends the run as failed.
StepThrows ==
    /\ "step" \in Faults /\ ~net
    /\ net' = TRUE /\ outcome' = "failed"
    /\ \/ pc \in InWatch /\ Leave
       \/ /\ pc \in InFinalize \cup {"context", "killcheck", "killrevoke", "booted",
                                   "ended", "destroy", "record", "progress"}
          /\ Goto("fin_revoke") /\ UNCHANGED looks
    /\ UNCHANGED <<loop, trip, tokens, world, asked, row>>

\* finalize is tried again from its start, and from the net it may throw for good.
FinalizeThrows ==
    /\ "step" \in Faults /\ pc \in InFinalize
    /\ \/ Goto("fin_revoke")
       \/ net /\ Goto("errored")
    /\ UNCHANGED <<loop, looks, ending, tokens, world, asked, row>>

\* The instance is terminated, or the platform loses it.
InstanceLost ==
    /\ "lost" \in Faults /\ pc \notin Ended /\ Goto("errored")
    /\ UNCHANGED <<loop, looks, ending, tokens, world, asked, row>>

-----------------------------------------------------------------------------
(* Everyone else *)

\* supervisorHalted's line reaches the feed while the process is up.
Halts ==
    /\ Running /\ Watched /\ ~haltLine /\ haltLine' = TRUE
    /\ UNCHANGED <<pc, loop, looks, ending, tokens, up, procs, exit, said, mail, asked, row>>

\* signalRunDone: authorized by the credential alone, then sendEvent.
Reports ==
    /\ Running /\ Spends(Newest) /\ said = "none" /\ pc \notin Ended
    /\ \E code \in Codes : said' = code /\ mail' = Append(mail, code)
    /\ UNCHANGED <<pc, loop, looks, ending, tokens, up, procs, exit, haltLine, asked, row>>

ProcessExits ==
    /\ Running /\ Watched /\ procs' = procs \ {Newest}
    /\ \E code \in IF said = "none" THEN Codes ELSE {said} : exit' = code
    /\ UNCHANGED <<pc, loop, looks, ending, tokens, up, haltLine, said, mail, asked, row>>

\* One an earlier try of the boot step started, or of a boot no longer watched.
OrphanExits ==
    /\ \E p \in IF Watched THEN procs \ {Newest} ELSE procs : procs' = procs \ {p}
    /\ UNCHANGED <<pc, loop, looks, ending, tokens, up, exit, haltLine, said, mail, asked, row>>

\* The platform replaces the container: its processes are no longer there.
ContainerReplaced ==
    /\ Running /\ Watched /\ exit' = "gone"
    /\ procs' = {p \in procs : p.boot # boot}
    /\ UNCHANGED <<pc, loop, looks, ending, tokens, up, haltLine, said, mail, asked, row>>

\* The orchestrator dispatches a worker, whose own credential revokes nothing.
Dispatches ==
    /\ Running /\ Spends(Newest)
    /\ \E w \in Workers : workers[w] = "none" /\ workers' = [workers EXCEPT ![w] = "live"]
    /\ UNCHANGED <<pc, loop, looks, ending, live, minted, world, asked, row>>

WorkerEnds ==
    /\ \E w \in Workers : /\ workers[w] \in {"live", "cut"}
                         /\ workers' = [workers EXCEPT ![w] = "ended"]
    /\ UNCHANGED <<pc, loop, looks, ending, live, minted, world, asked, row>>

\* stopRun, from its read of an active row on.  The room's record is written
\* once, and only ever upgraded.
StopAsked ==
    /\ stopper = "idle" /\ stops < MaxStops /\ row \in Active
    /\ stopper' = "record" /\ stops' = stops + 1
    /\ UNCHANGED <<pc, loop, looks, ending, tokens, world, stop, row>>

StopRecordedLast ==
    /\ stopper = "record"
    /\ stop' \in {"clean", "hard"}
    /\ stopper' = IF stop' = "hard" THEN "revoke" ELSE "flip"
    /\ UNCHANGED <<pc, loop, looks, ending, tokens, world, stops, row>>

StopRecorded ==
    /\ stopper = "record"
    /\ \E mode \in {"clean", "hard"} : stop' = IF stop = "hard" THEN "hard" ELSE mode
    /\ stopper' = IF stop' = "hard" THEN "revoke" ELSE "flip"
    /\ UNCHANGED <<pc, loop, looks, ending, tokens, world, stops, row>>

StopRevokes ==
    /\ stopper = "revoke" /\ stopper' = "flip" /\ TriesToRevoke
    /\ UNCHANGED <<pc, loop, looks, ending, minted, world, stop, stops, row>>

\* The row is flipped whatever it has become since it was read.
StopFlips ==
    /\ stopper = "flip" /\ stopper' = "check" /\ row' = "stopping"
    /\ UNCHANGED <<pc, loop, looks, ending, tokens, world, stop, stops>>

\* endedSupervisor: nobody is left to honour the stop, so it is finished here.
StopChecks ==
    /\ stopper = "check" /\ stopper' = "idle"
    /\ IF pc \in Ended
       THEN /\ row' = "stopped"
            /\ IF stop = "hard" THEN UNCHANGED <<live, workers>> ELSE TriesToRevoke
       ELSE UNCHANGED <<row, live, workers>>
    /\ UNCHANGED <<pc, loop, looks, ending, minted, world, stop, stops>>

\* The request's own isolate goes, wherever it stands.
StopLost ==
    /\ "lost" \in Faults /\ stopper # "idle" /\ stopper' = "idle"
    /\ UNCHANGED <<pc, loop, looks, ending, tokens, world, stop, stops, row>>

SweepOnlyTheRunning ==
    /\ pc \in Ended /\ row \in Active \ {"stopping"}
    /\ row' = "failed" /\ TriesToRevoke
    /\ UNCHANGED <<pc, loop, looks, ending, minted, world, asked>>

\* sweepOne: the row is flipped only from the state it was read in.
Sweep ==
    /\ pc \in Ended /\ row \in Active
    /\ row' = IF row = "stopping" THEN "stopped" ELSE "failed"
    /\ TriesToRevoke
    /\ UNCHANGED <<pc, loop, looks, ending, minted, world, asked>>

Look == \/ Wait \/ Ask \/ Tripped \/ Unanswered \/ StillRunning \/ Settled \/ Over
        \/ Linger \/ CutOff \/ Drain \/ CutClean \/ DrainOut

\* The steps the engine takes when nothing fails.
Supervises ==
    \/ Context \/ KillCheck \/ KillRevoke \/ Rotate \/ Mint \/ Provision \/ Start
    \/ Booted \/ LeaseRenewal \/ Look \/ EndedLine \/ Destroy \/ Record \/ Progress
    \/ FinRevoke \/ FinRow \/ FinWorkers \/ FinSweep

Fails == BootThrows \/ StepThrows \/ FinalizeThrows \/ InstanceLost

Orchestrates ==
    \/ Halts \/ Reports \/ ProcessExits \/ OrphanExits \/ ContainerReplaced
    \/ Dispatches \/ WorkerEnds

StopRun == StopAsked \/ StopRecorded \/ StopRevokes \/ StopFlips \/ StopChecks \/ StopLost

Next == Supervises \/ Fails \/ Orchestrates \/ StopRun \/ Sweep

\* The engine drives an instance and retries its steps until it has ended, and
\* the sweep is on a schedule.  An operator, a request to stop and an
\* orchestrator owe nothing.
Spec == Init /\ [][Next]_vars
FairSpec == Spec /\ WF_vars(Supervises) /\ WF_vars(Sweep)

-----------------------------------------------------------------------------
(* Properties *)

SupervisorOK ==
    /\ pc \in Steps /\ boot \in Nat /\ crashes \in Nat /\ streak \in Nat /\ tries \in Nat
    /\ outcome \in Verdicts \cup {"none"} /\ trip \in {"none", "clean", "hard"}
    /\ net \in BOOLEAN

LooksOK ==
    /\ watch \in [looks : Nat, unasked : Nat, report : Codes \cup {"none"}, pinned : BOOLEAN]
    /\ seen \in Ends \cup {"none", "unknown", "running"}

\* Every credential was minted, and every container and process is of a boot
\* that was counted.
HoldingsOK ==
    /\ minted \in Nat /\ live \subseteq 1..minted
    /\ workers \in [Workers -> {"none", "live", "cut", "ended"}]
    /\ up \subseteq 1..boot /\ procs \subseteq [boot : 1..boot, token : 1..minted]

WorldOK ==
    /\ exit \in Ends \cup {"none"} /\ haltLine \in BOOLEAN
    /\ said \in Codes \cup {"none"} /\ mail \in Seq(Codes)
    /\ stop \in {"none", "clean", "hard"}
    /\ stopper \in {"idle", "record", "revoke", "flip", "check"}
    /\ stops \in 0..MaxStops /\ row \in Active \cup Verdicts

TypeOK == SupervisorOK /\ LooksOK /\ HoldingsOK /\ WorldOK

\* However a boot's tries, its retries and its replacements fall, at most one
\* orchestrator process can spend (issueRunToken's rotation).
OneSpender == \A p, q \in procs : Spends(p) /\ Spends(q) => p = q

\* Rotation, step by step: no credential is issued while another is live, and
\* none comes back.
Orchestrator == INSTANCE Credential WITH live <- live, issued <- minted
ImplementsCredential == Orchestrator!Spec

\* No boot is credentialled while a process of an earlier one is still there:
\* the finally destroyed its container first.
NoneBesideTheNext == pc \in InBootStep \cup InWatch => \A p \in procs : p.boot = boot

\* An orchestrator that is only asked to stop keeps its credential to the end
\* of its grace, whatever races the trip: nothing revokes under a watched boot
\* but a hard stop, or the trip itself.
CleanStopKeepsItsGrace ==
    (\/ pc \in {"booted", "wait", "ask", "judge", "linger", "drainout"}
     \/ pc = "drain" /\ trip = "clean")
    => minted \in live \/ stop = "hard"

\* A finished run has no credential and no container, of any boot it counted.
EndedIsQuiet == pc = "complete" => live = {} /\ up = {} /\ procs = {}

\* A hard stop, once on record, is never weakened, and no boot is counted over
\* it: neither another request, nor a crash, nor a transient reboot, nor a retry.
HardStopIsARefusal ==
    [][stop = "hard" => stop' = "hard" /\ boot' = boot]_vars

\* Whoever ends it, and whoever flips it meanwhile, the row ends terminal.
RecordEnds == <>[](row \in Verdicts)

\* A watch never ends a boot as anything but what its own process did or said
\* (run-done.ts: the signal never decides anything).
LingersOnItsOwnReport == pc = "linger" => said # "none"
=============================================================================
