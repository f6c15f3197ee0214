----------------------------- MODULE WorkerAgent ----------------------------
(***************************************************************************)
(* One hosted worker attempt: the WorkerAgent object (cloudflare/src/      *)
(* worker-agent.ts), the host it drives the attempt with (harness/src/     *)
(* host/worker-attempt.ts), the conversation's storage and the container.  *)
(*                                                                         *)
(* `rec`, `conv` and `alarm` are durable.  `host`, `drive`, `beat` and     *)
(* `stop` are one life of the object and go with it.  A step runs from one *)
(* call that leaves the object (a container door, D1, a harness closing)   *)
(* to the next: between them the object's input gate is closed.            *)
(***************************************************************************)
EXTENDS Naturals

CONSTANTS
    PhaseRetries,     \* PHASE_RETRIES
    ResumeLoopLimit,  \* RESUME_LOOP_LIMIT
    ProcIds,          \* process ids of the container
    Faults,           \* "crash": the object is evicted or redeployed
                      \* "lost": the container is lost
                      \* "fail": what the drive waits for throws
                      \* "slow": the stop is not answered in time
                      \* "destroy": a destroy does not take
    MaxFaults         \* bound: faults in a behaviour

ASSUME AgentAssumption ==
    /\ PhaseRetries \in Nat /\ ResumeLoopLimit \in Nat \ {0} /\ MaxFaults \in Nat
    /\ ProcIds \subseteq Nat \ {0}
    /\ Faults \subseteq {"crash", "lost", "fail", "slow", "destroy"}

VARIABLES
    rec,     \* the attempt's record
    conv,    \* the conversation in the object's storage
    alarm,   \* the heartbeat is armed
    host,    \* this life's host: none, live, or told to reclaim
    drive,   \* the drive under way, and the await it is parked at
    beat,    \* the alarm handler waits for a host
    stop,    \* where the reclaim handler stands
    box,     \* the container and its processes
    faults   \* faults so far

agentVars == <<rec, conv, alarm, host, drive, beat, stop, box, faults>>

NoProc == 0
Exits == {"ok", "bad", "lost", "reclaimed"}
InContainer == {"booting", "finishing"}

\* `tries` and `proc` are those of the container phase under way.  The status
\* the finish phase is told is left out: nothing here turns on it.
Blank == [phase |-> "absent", tries |-> 0, proc |-> NoProc, sub |-> FALSE,
          stuck |-> FALSE, idle |-> 0, exit |-> "none"]
Fresh == [Blank EXCEPT !.phase = "booting"]
Ended(e) == [Blank EXCEPT !.phase = "settled", !.exit = e]
Unsettled(r) == r.phase \in {"booting", "conversing", "finishing"}

Off == [pc |-> "off", kind |-> "booting", mine |-> TRUE, told |-> FALSE,
        rec |-> Blank, proc |-> NoProc]
Down == [up |-> FALSE, procs |-> [p \in ProcIds |-> "none"]]

\* What each variable holds: a process id only of the container, retries within
\* their bound.
Records == [phase : {"absent", "settled", "conversing"} \cup InContainer,
            tries : 0..(PhaseRetries + 1), proc : ProcIds \cup {NoProc},
            sub : BOOLEAN, stuck : BOOLEAN, idle : Nat, exit : Exits \cup {"none"}]
Drives == [pc : {"off", "ask", "reply", "wait", "talk", "stop", "shut"},
           kind : InContainer, mine : BOOLEAN, told : BOOLEAN, rec : Records,
           proc : ProcIds \cup {NoProc}]
Boxes == [up : BOOLEAN, procs : [ProcIds -> {"none", "running", "ok", "bad"}]]

AgentTypeOK ==
    /\ rec \in Records /\ drive \in Drives /\ box \in Boxes
    /\ conv \in {"none", "working", "over"}
    /\ alarm \in BOOLEAN /\ beat \in BOOLEAN /\ host \in {"none", "live", "told"}
    /\ stop \in {"idle", "hosting", "abort", "clear", "destroy", "done"}
    /\ faults \in 0..MaxFaults

-----------------------------------------------------------------------------
(* Writing the record *)

\* What the stuck watch wrote is carried over.
Written(r) ==
    IF rec.phase = "absent" THEN r
    ELSE [r EXCEPT !.stuck = r.stuck \/ rec.stuck, !.idle = rec.idle]

\* A settled record is never written over.
Save(r) == IF rec.phase = "settled" THEN rec ELSE Written(r)

Settle(e) == IF rec.phase = "settled" THEN rec ELSE Ended(e)

\* The record as it stands, or the drive's own when there is none.
Loaded == IF rec.phase = "absent" THEN drive.rec ELSE rec

Finishing(r) == [r EXCEPT !.phase = "finishing", !.tries = 0, !.proc = NoProc]
Conversing(r) == [r EXCEPT !.phase = "conversing", !.tries = 0, !.proc = NoProc]

-----------------------------------------------------------------------------
(* The drive *)

\* Whether the host that drives was told to reclaim.
Told == IF drive.mine THEN host = "told" ELSE drive.told

\* The drive goes on for a host this object does not hold any more.
Adrift == IF drive.pc = "off" THEN drive ELSE [drive EXCEPT !.mine = FALSE, !.told = Told]

At(d, pc, r) ==
    [d EXCEPT !.pc = pc, !.rec = r, !.proc = r.proc,
              !.kind = IF r.phase \in InContainer THEN r.phase ELSE @]

\* A drive that ends settled takes the heartbeat with it.
DriveEnds(r) == rec' = r /\ drive' = Off /\ alarm' = FALSE

\* Mutant of Spent: a phase is tried once more.
SpentLate(r) == r.proc = NoProc /\ r.tries > PhaseRetries + 1
Spent(r) == r.proc = NoProc /\ r.tries > PhaseRetries

\* A container phase: its process is polled, started, or tried too often.
ContainerPhase(d, r, a) ==
    IF Spent(r)
    THEN DriveEnds(Settle("lost"))
    ELSE /\ rec' = r /\ alarm' = a
         /\ drive' = At(d, IF r.proc = NoProc THEN "ask" ELSE "wait", r)

\* judgeResume: whether the conversation moved since the last resume, and for
\* how long it has been quiet, is anybody's guess.
Resume(d, r, a) ==
    \E n \in {0, 1, r.idle + 1} :
        LET judged == [r EXCEPT !.idle = n, !.stuck = (n >= ResumeLoopLimit)]
        IN  /\ rec' = judged /\ alarm' = a
            /\ drive' = At(d, IF judged.stuck THEN "shut" ELSE "talk", judged)

\* The prompt is submitted under one request id: who finds it, joins it.
Submit(d, r, a) ==
    /\ conv' = IF conv = "none" THEN "working" ELSE conv
    /\ rec' = [r EXCEPT !.sub = TRUE] /\ alarm' = a
    /\ drive' = At(d, "talk", [r EXCEPT !.sub = TRUE])

\* Mutant of Converse: a new life does not look for the stop.
ConverseAnyway(d, r, a) ==
    \/ r.sub /\ UNCHANGED conv /\ Resume(d, r, a)
    \/ ~r.sub /\ Submit(d, r, a)

\* A life that finds the attempt stopped as stuck finishes it.
Converse(d, r, a) ==
    \/ r.stuck /\ UNCHANGED conv /\ ContainerPhase(d, Finishing(r), a)
    \/ ~r.stuck /\ r.sub /\ UNCHANGED conv /\ Resume(d, r, a)
    \/ ~r.stuck /\ ~r.sub /\ Submit(d, r, a)

\* driveOnce, from the record r that stands, to the next await.
Loop(d, r, a) ==
    \/ r.phase = "settled" /\ DriveEnds(r) /\ UNCHANGED conv
    \/ r.phase \in InContainer /\ ContainerPhase(d, r, a) /\ UNCHANGED conv
    \/ r.phase = "conversing" /\ Converse(d, r, a)

\* kick: one drive per life, for the host `mine`; nothing is driven that is not
\* recorded.
Kick(r, a) ==
    IF drive.pc = "off" /\ r.phase # "absent"
    THEN Loop(Off, r, a)
    ELSE rec' = r /\ alarm' = a /\ UNCHANGED <<drive, conv>>

\* ... of a host that was just made, in place of any other.
KickNew(r, a) ==
    IF drive.pc = "off" /\ r.phase # "absent"
    THEN Loop(Off, r, a)
    ELSE rec' = r /\ alarm' = a /\ drive' = Adrift /\ UNCHANGED conv

\* How a process ended is kept as long as somebody may ask: its id is then free
\* to stand for another.
Asked(p) == p \in {rec.proc, drive.proc, drive.rec.proc}
Free == {p \in ProcIds : box.procs[p] # "running" /\ ~Asked(p)}
Landed(p) == [up |-> TRUE,
              procs |-> [q \in ProcIds |-> IF q = p THEN "running"
                                           ELSE IF q \in Free THEN "none"
                                           ELSE box.procs[q]]]
IsNext(p) == p \in Free /\ \A q \in Free : p <= q

\* startProcess (and what prepareFinish asks before it) reaches the container,
\* and boots it when it is down.
Land(p) ==
    /\ drive.pc = "ask" /\ IsNext(p)
    /\ box' = Landed(p)
    /\ drive' = [drive EXCEPT !.pc = "reply", !.proc = p]
    /\ UNCHANGED <<rec, conv, alarm, host, beat, stop, faults>>

\* The process id is recorded, and polled.
Reply ==
    /\ drive.pc = "reply"
    /\ LET r == Save([drive.rec EXCEPT !.tries = @ + 1, !.proc = drive.proc])
       IN  rec' = r /\ drive' = [drive EXCEPT !.pc = "wait", !.rec = r]
    /\ UNCHANGED <<conv, alarm, host, beat, stop, box, faults>>

PhaseLost ==
    /\ drive.pc = "wait" /\ (Told \/ box.procs[drive.proc] = "none")
    /\ Loop(drive, Save([drive.rec EXCEPT !.proc = NoProc]), alarm)
    /\ UNCHANGED <<host, beat, stop, box, faults>>

\* A boot that exits 0 without its handoff counts as one that failed.
PhaseExits ==
    /\ drive.pc = "wait" /\ ~Told /\ box.procs[drive.proc] \in {"ok", "bad"}
    /\ IF drive.kind = "booting" /\ box.procs[drive.proc] = "ok"
       THEN Loop(drive, Save(Conversing(drive.rec)), alarm)
       ELSE DriveEnds(Settle(box.procs[drive.proc])) /\ UNCHANGED conv
    /\ UNCHANGED <<host, beat, stop, box, faults>>

\* A tool round runs in the container, which is restored when it is gone.
ToolRound ==
    /\ drive.pc = "talk" /\ conv = "working" /\ ~box.up
    /\ box' = [box EXCEPT !.up = TRUE]
    /\ UNCHANGED <<rec, conv, alarm, host, drive, beat, stop, faults>>

ConversationEnds ==
    /\ drive.pc \in {"talk", "stop"} /\ conv = "working" /\ conv' = "over"
    /\ UNCHANGED <<rec, alarm, host, drive, beat, stop, box, faults>>

\* The stuck watch: recorded before the conversation is aborted.
StuckStop ==
    /\ drive.pc = "talk" /\ conv = "working"
    /\ rec' = IF Unsettled(rec) THEN [rec EXCEPT !.stuck = TRUE] ELSE rec
    /\ drive' = [drive EXCEPT !.pc = "stop"]
    /\ UNCHANGED <<conv, alarm, host, beat, stop, box, faults>>

\* The conversation settled: the harness closes first, unless the host was told.
TalkEnds ==
    /\ drive.pc \in {"talk", "stop"} /\ conv = "over"
    /\ \/ Told /\ Loop(drive, Loaded, alarm)
       \/ /\ ~Told /\ UNCHANGED <<rec, conv, alarm>>
          /\ drive' = [drive EXCEPT !.pc = "shut"]
    /\ UNCHANGED <<host, beat, stop, box, faults>>

\* A stopped conversation that does not settle within its grace is left behind.
GiveUp ==
    /\ drive.pc = "stop" /\ conv = "working"
    /\ Loop(drive, IF Told THEN Loaded ELSE Save(Finishing(Loaded)), alarm)
    /\ UNCHANGED <<host, beat, stop, box, faults>>

ToFinish ==
    /\ drive.pc = "shut"
    /\ Loop(drive, Save(Finishing(Loaded)), alarm)
    /\ UNCHANGED <<host, beat, stop, box, faults>>

-----------------------------------------------------------------------------
(* The heartbeat *)

\* Re-armed before the drive is looked for.  A drive under way is left alone.
Beat ==
    /\ alarm /\ ~beat /\ (drive.pc = "off" \/ host = "none" \/ ~Unsettled(rec))
    /\ \/ ~Unsettled(rec) /\ alarm' = FALSE /\ UNCHANGED <<rec, conv, drive, beat>>
       \/ Unsettled(rec) /\ host # "none" /\ Kick(rec, TRUE) /\ UNCHANGED beat
       \/ Unsettled(rec) /\ host = "none" /\ beat' = TRUE
          /\ UNCHANGED <<rec, conv, alarm, drive>>
    /\ UNCHANGED <<host, stop, box, faults>>

\* The host is made after a read of D1, whoever made one meanwhile.
BeatHosted ==
    /\ beat /\ beat' = FALSE
    /\ host' = IF drive.pc = "off" /\ rec.phase = "absent" THEN "none" ELSE "live"
    /\ KickNew(rec, alarm)
    /\ UNCHANGED <<stop, box, faults>>

-----------------------------------------------------------------------------
(* The calls the door makes *)

\* start under a settled name: everything this object held goes.  A wait on a
\* conversation ends when its harness is closed and its storage deleted.
Forget ==
    /\ rec' = Blank /\ conv' = "none" /\ alarm' = FALSE
    /\ host' = "none"
    /\ drive' = IF drive.pc \in {"talk", "stop"} THEN Off ELSE Adrift

\* host.start records the attempt once.  One that it finds recorded is kicked;
\* a fresh one has neither heartbeat nor drive yet.
Recorded == rec.phase = "absent" /\ rec' = Fresh /\ UNCHANGED <<conv, alarm>>

\* ... on the host at hand, or on one made after a read of D1.
RecordHere ==
    /\ host # "none" /\ UNCHANGED host
    /\ \/ Recorded /\ UNCHANGED drive
       \/ rec.phase # "absent" /\ Kick(rec, alarm)

RecordHosted ==
    /\ host' = "live"
    /\ \/ Recorded /\ drive' = Adrift
       \/ rec.phase = "settled" /\ drive' = Adrift /\ UNCHANGED <<rec, conv, alarm>>
       \/ Unsettled(rec) /\ KickNew(rec, alarm)

\* Mutant of Armed: the heartbeat is left to the drive.
ArmedAlready == alarm
Armed == TRUE

\* The heartbeat of a fresh record is armed, and the drive kicked.
Arms == Kick(rec, Armed)

Conversation == drive.mine /\ drive.pc \in {"talk", "stop"}

\* host.reclaim on the host of this life: a live conversation is aborted first.
Tell(next) ==
    /\ host' = "told" /\ drive' = next
    /\ IF Unsettled(rec) /\ Conversation /\ next.mine
       THEN stop' = "abort" /\ UNCHANGED rec
       ELSE /\ stop' = "clear"
            /\ rec' = IF Unsettled(rec) THEN Settle("reclaimed") ELSE rec

\* reclaim: nothing is held, or a host is at hand, or one is made.
Reclaim ==
    /\ stop = "idle"
    /\ \/ rec.phase = "absent" /\ stop' = "done" /\ UNCHANGED <<rec, host, drive>>
       \/ rec.phase # "absent" /\ host # "none" /\ Tell(drive)
       \/ rec.phase # "absent" /\ host = "none" /\ stop' = "hosting"
          /\ UNCHANGED <<rec, host, drive>>
    /\ UNCHANGED <<conv, alarm, beat, box, faults>>

ReclaimHosted ==
    /\ stop = "hosting" /\ Tell(Adrift)
    /\ UNCHANGED <<conv, alarm, beat, box, faults>>

ReclaimAborted ==
    /\ stop = "abort" /\ stop' = "clear"
    /\ conv' = IF conv = "working" THEN "over" ELSE conv
    /\ rec' = Settle("reclaimed")
    /\ UNCHANGED <<alarm, host, drive, beat, box, faults>>

ReclaimClears ==
    /\ stop = "clear" /\ stop' = "destroy" /\ alarm' = FALSE
    /\ UNCHANGED <<rec, conv, host, drive, beat, box, faults>>

Destroyed == IF rec.phase = "absent" THEN box ELSE Down

ReclaimReleases ==
    /\ stop = "destroy" /\ stop' = "done" /\ box' = Destroyed
    /\ UNCHANGED <<rec, conv, alarm, host, drive, beat, faults>>

-----------------------------------------------------------------------------
(* What happens to them *)

Fault(f) == f \in Faults /\ faults < MaxFaults /\ faults' = faults + 1

ProcessExits(p, e) ==
    /\ box.procs[p] = "running"
    /\ box' = [box EXCEPT !.procs[p] = IF Asked(p) THEN e ELSE "none"]
    /\ UNCHANGED <<rec, conv, alarm, host, drive, beat, stop, faults>>

ContainerLost ==
    /\ Fault("lost") /\ box.up /\ box' = Down
    /\ UNCHANGED <<rec, conv, alarm, host, drive, beat, stop>>

\* The drive failed: its host is dropped, and the next heartbeat drives again.
DriveFails ==
    /\ Fault("fail") /\ drive.pc \in {"ask", "reply", "wait", "talk", "stop"}
    /\ drive' = Off /\ host' = IF drive.mine THEN "none" ELSE host
    /\ UNCHANGED <<rec, conv, alarm, beat, stop, box>>

\* A new life.  A process asked for may have been started all the same.
Crash ==
    /\ Fault("crash")
    /\ host' = "none" /\ drive' = Off /\ beat' = FALSE
    /\ \/ UNCHANGED box
       \/ drive.pc = "ask" /\ \E p \in ProcIds : IsNext(p) /\ box' = Landed(p)
    /\ UNCHANGED <<rec, conv, alarm>>

AgentInit ==
    /\ rec = Blank /\ conv = "none" /\ alarm = FALSE /\ host = "none" /\ drive = Off
    /\ beat = FALSE /\ stop = "idle" /\ box = Down /\ faults = 0

DriveStep ==
    (\E p \in ProcIds : Land(p)) \/ Reply \/ PhaseLost \/ PhaseExits \/ TalkEnds \/ ToFinish
Talk == GiveUp \/ StuckStop \/ ConversationEnds
Exit == \E p \in ProcIds, e \in {"ok", "bad"} : ProcessExits(p, e)
Stopping == ReclaimHosted \/ ReclaimAborted \/ ReclaimClears \/ ReclaimReleases

AgentStep ==
    DriveStep \/ Talk \/ Exit \/ ToolRound \/ Beat \/ BeatHosted \/ Stopping
       \/ ContainerLost \/ DriveFails
=============================================================================
