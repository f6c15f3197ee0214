------------------------------ MODULE WorkerDoor -----------------------------
(***************************************************************************)
(* The factory around one hosted attempt: the start and state routes of    *)
(* the door (cloudflare/src/sandbox-dispatch.ts, sandbox-executor.ts), the *)
(* boot, settlement and reclaim rows it keeps in D1 (db.ts), and the       *)
(* reclaim of an ended run's workers (container-capacity.ts), composed     *)
(* with the WorkerAgent.                                                   *)
(*                                                                         *)
(* The orchestrator asks about one attempt one call at a time; the agent,  *)
(* its drive and the reclaim go on meanwhile.                              *)
(***************************************************************************)
EXTENDS WorkerAgent

CONSTANT MaxStarts  \* bound: starts the orchestrator asks for

ASSUME DoorAssumption == MaxStarts \in Nat

VARIABLES
    run,        \* "active" or "ended"
    booted,     \* the row of sandbox_job_boot
    verdict,    \* the row of sandbox_job_settled
    reclaimed,  \* the row of sandbox_job_reclaimed
    req,        \* where the orchestrator's call stands
    saw,        \* the exit its state read found
    starts,     \* starts it asked for
    sweep       \* where the reclaim of the run's workers stands

doorVars == <<run, booted, verdict, reclaimed, req, saw, starts, sweep>>
callVars == <<req, saw, starts>>
vars == <<agentVars, doorVars>>

VerdictOf(e) == IF e = "ok" THEN "completed" ELSE "failed"

-----------------------------------------------------------------------------
(* The state route *)

\* A job that is settled in the records answers from them; one that was never
\* booted, or whose agent holds nothing, reads as lost; any other as running.
ReadsSettled == booted /\ rec.phase = "settled"

Look ==
    /\ req = "idle" /\ run = "active" /\ verdict = "none"
    /\ ReadsSettled /\ req' = "write" /\ saw' = rec.exit
    /\ UNCHANGED <<agentVars, run, booted, verdict, reclaimed, starts, sweep>>

\* The first verdict wins.
Write ==
    /\ req = "write" /\ req' = "release" /\ saw' = "none"
    /\ verdict' = IF verdict = "none" THEN VerdictOf(saw) ELSE verdict
    /\ UNCHANGED <<agentVars, run, booted, reclaimed, starts, sweep>>

\* A release that fails is not the verdict's to inherit.
Release ==
    /\ req = "release" /\ req' = "idle"
    /\ \/ box' = Destroyed /\ UNCHANGED faults
       \/ Fault("destroy") /\ UNCHANGED box
    /\ UNCHANGED <<rec, conv, alarm, host, drive, beat, stop>>
    /\ UNCHANGED <<run, booted, verdict, reclaimed, saw, starts, sweep>>

-----------------------------------------------------------------------------
(* The start route *)

Adoptable == booted /\ verdict = "none" /\ ~reclaimed

\* Start by an orchestrator that holds no record of the attempt, and is told it is
\* not over: nothing the door reads next has changed since, but the agent's state.
\* Only an adoption is never refused for want of a slot.
Start ==
    /\ req = "idle" /\ run = "active" /\ starts < MaxStarts
    /\ verdict = "none" /\ ~ReadsSettled
    /\ starts' = starts + 1
    /\ \/ req' = "ask"
       \/ ~Adoptable /\ req' = "idle"
    /\ UNCHANGED <<agentVars, run, booted, verdict, reclaimed, saw, sweep>>

\* An attempt the agent holds and has not settled is adopted.
Ask ==
    /\ req = "ask" /\ req' = IF Unsettled(rec) THEN "idle" ELSE "record"
    /\ UNCHANGED <<agentVars, run, booted, verdict, reclaimed, saw, starts, sweep>>

\* Recorded before the agent is started: what was settled or reclaimed under
\* this identity was another process.
RecordBoot ==
    /\ req = "record" /\ req' = "send"
    /\ booted' = TRUE /\ verdict' = "none" /\ reclaimed' = FALSE
    /\ UNCHANGED <<agentVars, run, saw, starts, sweep>>

\* Once the attempt is recorded the heartbeat is armed, where it was recorded now.
AfterRecord == IF rec.phase = "absent" THEN "arm" ELSE "idle"

\* WorkerAgent.start: a settled attempt is forgotten first.
Send ==
    /\ req = "send"
    /\ \/ rec.phase = "settled" /\ Forget /\ req' = "hosting"
       \/ rec.phase # "settled" /\ host = "none" /\ req' = "hosting"
          /\ UNCHANGED <<rec, conv, alarm, host, drive>>
       \/ rec.phase # "settled" /\ RecordHere /\ req' = AfterRecord
    /\ UNCHANGED <<beat, stop, box, faults>>
    /\ UNCHANGED <<run, booted, verdict, reclaimed, saw, starts, sweep>>

SendHosted ==
    /\ req = "hosting" /\ req' = AfterRecord /\ RecordHosted
    /\ UNCHANGED <<beat, stop, box, faults>>
    /\ UNCHANGED <<run, booted, verdict, reclaimed, saw, starts, sweep>>

\* Both writes are the object's own storage: nothing but its loss comes between.
Gated == req = "arm"

Arm ==
    /\ Gated /\ req' = "idle" /\ Arms
    /\ UNCHANGED <<host, beat, stop, box, faults>>
    /\ UNCHANGED <<run, booted, verdict, reclaimed, saw, starts, sweep>>

-----------------------------------------------------------------------------
(* The reclaim of an ended run's workers: by finalize, then by every sweep *)

\* No new call of the run is let in.  One that is under way goes on.
RunEnds ==
    /\ run = "active" /\ run' = "ended"
    /\ UNCHANGED <<agentVars, booted, verdict, reclaimed, callVars, sweep>>

\* Mutant of Due: a recorded reclaim is believed.
DueOnce == booted /\ ~reclaimed
\* A worker already reclaimed is looked at again, and left alone when it is down.
Due == booted /\ (~reclaimed \/ box.up)

\* A settled one is destroyed as a backstop; any other is stopped first.
SweepAsks ==
    /\ run = "ended" /\ sweep = "idle" /\ Due
    /\ \/ verdict # "none" /\ sweep' = "destroy" /\ UNCHANGED agentVars
       \/ verdict = "none" /\ ~Gated /\ sweep' = "stop" /\ Reclaim
    /\ UNCHANGED <<run, booted, verdict, reclaimed, callVars>>

\* The agent's answer, which may come when nobody waits for it any more.
StopAnswered ==
    /\ stop = "done" /\ stop' = "idle"
    /\ sweep' = IF sweep = "stop" THEN "destroy" ELSE sweep
    /\ UNCHANGED <<rec, conv, alarm, host, drive, beat, box, faults>>
    /\ UNCHANGED <<run, booted, verdict, reclaimed, callVars>>

\* ... or not in time: the container is destroyed under it.
StopTimesOut ==
    /\ Fault("slow") /\ sweep = "stop" /\ sweep' = "destroy"
    /\ UNCHANGED <<rec, conv, alarm, host, drive, beat, stop, box>>
    /\ UNCHANGED <<run, booted, verdict, reclaimed, callVars>>

SweepDestroys ==
    /\ sweep = "destroy"
    /\ \/ box' = Down /\ sweep' = "record" /\ UNCHANGED faults
       \/ Fault("destroy") /\ sweep' = "idle" /\ UNCHANGED box
    /\ UNCHANGED <<rec, conv, alarm, host, drive, beat, stop>>
    /\ UNCHANGED <<run, booted, verdict, reclaimed, callVars>>

\* One that still reads as up is left for the next sweep.
SweepRecords ==
    /\ sweep = "record" /\ sweep' = "idle" /\ reclaimed' = (reclaimed \/ ~box.up)
    /\ UNCHANGED <<agentVars, run, booted, verdict, callVars>>

-----------------------------------------------------------------------------

\* The calls under way in the object fail with it.
AgentCrashes ==
    /\ Crash /\ stop' = "idle"
    /\ req' = IF req \in {"hosting", "arm"} THEN "idle" ELSE req
    /\ sweep' = IF sweep = "stop" /\ stop # "idle" THEN "destroy" ELSE sweep
    /\ UNCHANGED <<run, booted, verdict, reclaimed, saw, starts>>

Init ==
    /\ AgentInit
    /\ run = "active" /\ booted = FALSE /\ verdict = "none" /\ reclaimed = FALSE
    /\ req = "idle" /\ saw = "none" /\ starts = 0 /\ sweep = "idle"

DoorStep == Write \/ Release \/ Ask \/ RecordBoot \/ Send \/ SendHosted \/ Arm
Sweep == SweepAsks \/ StopAnswered \/ SweepDestroys \/ SweepRecords

Next ==
    \/ ~Gated /\ AgentStep /\ UNCHANGED doorVars
    \/ AgentCrashes \/ Look \/ Start \/ DoorStep
    \/ RunEnds \/ Sweep \/ StopTimesOut

\* What is under way in the object goes on, a process ends, a conversation ends
\* or is stopped, the alarm rings, a call is carried out, the sweep comes again.
Fairness ==
    /\ WF_vars(DriveStep /\ UNCHANGED doorVars)
    /\ WF_vars(Talk /\ UNCHANGED doorVars)
    /\ WF_vars(Exit /\ UNCHANGED doorVars)
    /\ WF_vars((Beat \/ BeatHosted) /\ UNCHANGED doorVars)
    /\ WF_vars(Stopping /\ UNCHANGED doorVars)
    /\ WF_vars(DoorStep)
    /\ WF_vars(Sweep)

Spec == Init /\ [][Next]_vars /\ Fairness

-----------------------------------------------------------------------------
(* Properties *)

\* What each variable holds, the record's retries and the rows of D1 among them.
TypeOK ==
    /\ AgentTypeOK
    /\ run \in {"active", "ended"} /\ verdict \in {"none", "completed", "failed"}
    /\ booted \in BOOLEAN /\ reclaimed \in BOOLEAN
    /\ req \in {"idle", "ask", "record", "send", "hosting", "arm", "write", "release"}
    /\ saw \in Exits \cup {"none"} /\ starts \in 0..MaxStarts
    /\ sweep \in {"idle", "stop", "destroy", "record"}

\* A settled attempt is not written back to life, nor its verdict changed, by a
\* drive that was parked while it settled, by a reclaim, or by a life that was
\* replaced: only a new start takes it, as a whole.
SettledStands == [][rec.phase = "settled" => rec' \in {rec, Blank}]_vars

\* An attempt the stuck watch stopped stays stopped until it settles, and is not
\* conversed on: not by the life that finds it after the one that stopped it
\* died, and not by a phase that writes the record it read before.
Stopped == Unsettled(rec) /\ rec.stuck
StoppedIsNotResumed ==
    [][Stopped => drive'.pc # "talk" /\ (rec'.stuck \/ rec'.phase = "settled")]_vars

\* The attempt has a heartbeat, or the drive of the host at hand.
Tended == Unsettled(rec) /\ (alarm \/ (drive.pc # "off" /\ drive.mine))

\* An attempt that was once tended settles, whatever life, container or call is
\* lost from then on, or its run ends.  One whose object is lost between the
\* record and its heartbeat never is: the door adopts it, and nobody drives it.
AttemptEnds == (run = "active" /\ Tended) ~> (rec.phase = "settled" \/ run = "ended")

\* An ended run holds no container and drives no attempt, for good: not one that
\* was started while the run ended, nor one whose destroy did not take.
EndedRunHoldsNothing == (run = "ended") ~> [](~box.up /\ drive.pc = "off")
=============================================================================
