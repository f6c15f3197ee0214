--------------------------- MODULE WorkerDoorProofs --------------------------
(***************************************************************************)
(* What holds of one hosted attempt for every bound, every set of process  *)
(* ids and every fault.                                                    *)
(***************************************************************************)
EXTENDS WorkerDoor, TLAPS

USE AgentAssumption, DoorAssumption DEF AgentAssumption, DoorAssumption

\* A phase is asked for only while it has a try left.
TriesLeft == drive.pc \in {"ask", "reply"} => drive.rec.tries <= PhaseRetries

\* Nothing converses on a stopped attempt.
StoppedIsQuiet == Stopped => drive.pc # "talk"

IInv == TypeOK /\ TriesLeft /\ StoppedIsQuiet

LEMMA Constants == PhaseRetries \in Nat /\ ResumeLoopLimit \in Nat /\ MaxFaults \in Nat /\ MaxStarts \in Nat
OBVIOUS

LEMMA BlankTypes == Blank \in Records
<1>1. 0 \in 0..(PhaseRetries + 1) /\ 0 \in Nat
  BY Constants
<1>2. /\ "absent" \in {"absent", "settled", "conversing"} \cup InContainer
      /\ NoProc \in ProcIds \cup {NoProc} /\ "none" \in Exits \cup {"none"} /\ FALSE \in BOOLEAN
  OBVIOUS
<1> QED BY <1>1, <1>2, Zenon DEF Blank, Records

LEMMA EndedTypes ==
    ASSUME NEW e \in Exits
    PROVE  /\ Ended(e) \in Records /\ Ended(e).phase = "settled" /\ ~Ended(e).stuck
           /\ Fresh \in Records /\ Fresh.phase = "booting" /\ ~Fresh.stuck
<1>1. Ended(e) \in Records /\ Ended(e).phase = "settled" /\ Fresh \in Records /\ Fresh.phase = "booting"
  BY BlankTypes DEF Ended, Fresh, Records, InContainer
<1>2. Ended(e).stuck = Blank.stuck /\ Fresh.stuck = Blank.stuck
  BY BlankTypes DEF Ended, Fresh, Records
<1> QED BY <1>1, <1>2 DEF Blank

LEMMA OffTypes == Off \in Drives /\ Off.pc = "off" /\ Down \in Boxes
<1>1. Off \in Drives /\ Off.pc = "off"
  BY BlankTypes DEF Off, Drives, InContainer
<1>2. Down \in Boxes
  BY DEF Down, Boxes
<1> QED BY <1>1, <1>2

LEMMA FinishingTypes ==
    ASSUME NEW r \in Records
    PROVE  /\ Finishing(r) \in Records /\ Conversing(r) \in Records
           /\ Finishing(r).phase = "finishing" /\ Finishing(r).stuck = r.stuck /\ Finishing(r).tries = 0
<1>1. 0 \in 0..(PhaseRetries + 1) /\ NoProc \in ProcIds \cup {NoProc}
  BY Constants
<1> QED BY <1>1 DEF Finishing, Conversing, Records, InContainer

LEMMA SaveTypes ==
    ASSUME AgentTypeOK, NEW r \in Records
    PROVE  /\ Save(r) \in Records
           /\ rec.phase = "settled" => Save(r) = rec
           /\ Stopped => Save(r).stuck /\ Save(r).phase = r.phase
<1>1. rec \in Records
  BY DEF AgentTypeOK
<1>2. CASE rec.phase = "settled"
  BY <1>1, <1>2 DEF Save, Stopped, Unsettled
<1>3. CASE rec.phase = "absent"
  BY <1>1, <1>3 DEF Save, Written, Stopped, Unsettled
<1>4. CASE rec.phase \notin {"absent", "settled"}
  <2>1. Save(r) = [r EXCEPT !.stuck = r.stuck \/ rec.stuck, !.idle = rec.idle]
    BY <1>4 DEF Save, Written
  <2>2. (r.stuck \/ rec.stuck) \in BOOLEAN /\ rec.idle \in Nat
    BY <1>1 DEF Records
  <2>3. Save(r) \in Records /\ Save(r).phase = r.phase
    BY <2>1, <2>2 DEF Records
  <2>4. Save(r).stuck = (r.stuck \/ rec.stuck)
    BY <2>1 DEF Records
  <2> QED BY <1>4, <2>3, <2>4 DEF Stopped
<1> QED BY <1>2, <1>3, <1>4

LEMMA SettleTypes ==
    ASSUME AgentTypeOK, NEW e \in Exits
    PROVE  /\ Settle(e) \in Records /\ Settle(e).phase = "settled"
           /\ rec.phase = "settled" => Settle(e) = rec
BY EndedTypes DEF AgentTypeOK, Settle

LEMMA AtTypes ==
    ASSUME NEW d \in Drives, NEW r \in Records,
           NEW pc \in {"off", "ask", "reply", "wait", "talk", "stop", "shut"}
    PROVE  At(d, pc, r) \in Drives
<1>1. r.proc \in ProcIds \cup {NoProc}
  BY DEF Records
<1>2. (IF r.phase \in InContainer THEN r.phase ELSE d.kind) \in InContainer
  BY DEF Drives
<1> QED BY <1>1, <1>2 DEF At, Drives

LEMMA AtFields ==
    \A d \in Drives, r \in Records :
        \A pc \in {"off", "ask", "reply", "wait", "talk", "stop", "shut"} :
            At(d, pc, r).pc = pc /\ At(d, pc, r).rec = r
BY DEF At, Drives
-----------------------------------------------------------------------------
(* What one turn of the drive's loop leaves *)

\* The types of what a turn writes, and the two facts the invariant keeps of it.
LoopLeaves ==
    /\ rec' \in Records /\ drive' \in Drives
    /\ conv' \in {"none", "working", "over"} /\ alarm' \in BOOLEAN
    /\ drive'.pc \in {"ask", "reply"} => drive'.rec.tries <= PhaseRetries
    /\ drive'.pc = "talk" => ~rec'.stuck

LEMMA EndLeaves ==
    ASSUME AgentTypeOK, NEW r \in Records, DriveEnds(r), UNCHANGED conv
    PROVE  LoopLeaves /\ rec' = r /\ drive'.pc = "off"
BY OffTypes DEF LoopLeaves, DriveEnds, AgentTypeOK

LEMMA ContainerPhaseLeaves ==
    ASSUME AgentTypeOK, NEW d \in Drives, NEW r \in Records, NEW a \in BOOLEAN,
           ContainerPhase(d, r, a), UNCHANGED conv
    PROVE  /\ LoopLeaves /\ drive'.pc # "talk"
           /\ rec'.phase = "settled" \/ rec' = r
<1>1. CASE Spent(r)
  <2>1. Settle("lost") \in Records /\ Settle("lost").phase = "settled"
    BY SettleTypes DEF Exits
  <2>2. DriveEnds(Settle("lost"))
    BY <1>1 DEF ContainerPhase
  <2> QED BY <2>1, <2>2, EndLeaves
<1>2. CASE ~Spent(r)
  <2>1. rec' = r /\ alarm' = a /\ (r.proc = NoProc => r.tries <= PhaseRetries)
    BY <1>2, Constants DEF ContainerPhase, Spent, Records
  <2>2. CASE drive' = At(d, "ask", r) /\ r.proc = NoProc
    <3>1. At(d, "ask", r) \in Drives /\ At(d, "ask", r).pc = "ask" /\ At(d, "ask", r).rec = r
      BY AtTypes, AtFields
    <3> QED BY <2>1, <2>2, <3>1 DEF LoopLeaves, AgentTypeOK
  <2>3. CASE drive' = At(d, "wait", r)
    <3>1. At(d, "wait", r) \in Drives /\ At(d, "wait", r).pc = "wait"
      BY AtTypes, AtFields
    <3> QED BY <2>1, <2>3, <3>1 DEF LoopLeaves, AgentTypeOK
  <2> QED BY <1>2, <2>2, <2>3 DEF ContainerPhase
<1> QED BY <1>1, <1>2

LEMMA ResumeLeaves ==
    ASSUME AgentTypeOK, NEW d \in Drives, NEW r \in Records, NEW a \in BOOLEAN,
           Resume(d, r, a), UNCHANGED conv
    PROVE  LoopLeaves
<1>1. PICK n \in {0, 1, r.idle + 1} :
        LET judged == [r EXCEPT !.idle = n, !.stuck = (n >= ResumeLoopLimit)]
        IN  /\ rec' = judged /\ alarm' = a
            /\ drive' = At(d, IF judged.stuck THEN "shut" ELSE "talk", judged)
  BY DEF Resume
<1> DEFINE judged == [r EXCEPT !.idle = n, !.stuck = (n >= ResumeLoopLimit)]
<1>2. n \in Nat /\ (n >= ResumeLoopLimit) \in BOOLEAN
  BY <1>1, Constants DEF Records
<1>3. judged \in Records
  BY <1>2 DEF Records
<1>4. rec' = judged /\ alarm' = a /\ drive' = At(d, IF judged.stuck THEN "shut" ELSE "talk", judged)
  BY <1>1
<1>5. judged.stuck \in BOOLEAN
  BY <1>3 DEF Records
<1> HIDE DEF judged
<1>6. CASE drive' = At(d, "shut", judged)
  <2>1. At(d, "shut", judged) \in Drives /\ At(d, "shut", judged).pc = "shut"
    BY <1>3, AtTypes, AtFields
  <2> QED BY <1>3, <1>4, <1>6, <2>1 DEF LoopLeaves, AgentTypeOK
<1>7. CASE drive' = At(d, "talk", judged) /\ ~judged.stuck
  <2>1. At(d, "talk", judged) \in Drives /\ At(d, "talk", judged).pc = "talk"
    BY <1>3, AtTypes, AtFields
  <2> QED BY <1>3, <1>4, <1>7, <2>1 DEF LoopLeaves, AgentTypeOK
<1> QED BY <1>4, <1>5, <1>6, <1>7

LEMMA SubmitLeaves ==
    ASSUME AgentTypeOK, NEW d \in Drives, NEW r \in Records, NEW a \in BOOLEAN,
           ~r.stuck, Submit(d, r, a)
    PROVE  LoopLeaves
<1> DEFINE s == [r EXCEPT !.sub = TRUE]
<1>1. s \in Records /\ s.stuck = r.stuck
  BY DEF Records
<1>2. rec' = s /\ alarm' = a /\ drive' = At(d, "talk", s)
  BY DEF Submit
<1>3. conv' \in {"none", "working", "over"}
  BY DEF Submit, AgentTypeOK
<1> HIDE DEF s
<1>4. At(d, "talk", s) \in Drives /\ At(d, "talk", s).pc = "talk"
  BY <1>1, AtTypes, AtFields
<1> QED BY <1>1, <1>2, <1>3, <1>4 DEF LoopLeaves

\* A turn keeps a settled record, and a stopped attempt is not conversed on.
LEMMA LoopTypes ==
    ASSUME AgentTypeOK, NEW d \in Drives, NEW r \in Records, NEW a \in BOOLEAN,
           Loop(d, r, a)
    PROVE  /\ LoopLeaves
           /\ r.phase = "settled" => rec' = r
           /\ r.stuck => drive'.pc # "talk" /\ (rec'.stuck \/ rec'.phase = "settled")
<1>1. CASE r.phase = "settled" /\ DriveEnds(r) /\ UNCHANGED conv
  BY <1>1, EndLeaves
<1>2. CASE r.phase \in InContainer /\ ContainerPhase(d, r, a) /\ UNCHANGED conv
  BY <1>2, ContainerPhaseLeaves DEF InContainer
<1>3. CASE r.phase = "conversing" /\ Converse(d, r, a)
  <2>1. CASE r.stuck /\ UNCHANGED conv /\ ContainerPhase(d, Finishing(r), a)
    BY <1>3, <2>1, FinishingTypes, ContainerPhaseLeaves
  <2>2. CASE ~r.stuck /\ r.sub /\ UNCHANGED conv /\ Resume(d, r, a)
    BY <1>3, <2>2, ResumeLeaves
  <2>3. CASE ~r.stuck /\ ~r.sub /\ Submit(d, r, a)
    BY <1>3, <2>3, SubmitLeaves
  <2> QED BY <1>3, <2>1, <2>2, <2>3 DEF Converse
<1> QED BY <1>1, <1>2, <1>3 DEF Loop
-----------------------------------------------------------------------------
(* What every step leaves of the record and the drive, and of the rest *)

\* What the two action properties say of a step.
RecordKept ==
    /\ rec.phase = "settled" => rec' \in {rec, Blank}
    /\ Stopped => drive'.pc # "talk" /\ (rec'.stuck \/ rec'.phase = "settled")

Turn ==
    /\ rec' \in Records /\ drive' \in Drives
    /\ conv' \in {"none", "working", "over"} /\ alarm' \in BOOLEAN
    /\ TriesLeft' /\ StoppedIsQuiet' /\ RecordKept

Rest ==
    /\ box \in Boxes /\ beat \in BOOLEAN /\ host \in {"none", "live", "told"}
    /\ stop \in {"idle", "hosting", "abort", "clear", "destroy", "done"}
    /\ faults \in 0..MaxFaults

Door ==
    /\ run \in {"active", "ended"} /\ verdict \in {"none", "completed", "failed"}
    /\ booted \in BOOLEAN /\ reclaimed \in BOOLEAN
    /\ req \in {"idle", "ask", "record", "send", "hosting", "arm", "write", "release"}
    /\ saw \in Exits \cup {"none"} /\ starts \in 0..MaxStarts
    /\ sweep \in {"idle", "stop", "destroy", "record"}

LEMMA Parts == IInv <=> /\ rec \in Records /\ drive \in Drives
                        /\ conv \in {"none", "working", "over"} /\ alarm \in BOOLEAN
                        /\ TriesLeft /\ StoppedIsQuiet /\ Rest /\ Door
BY DEF IInv, TypeOK, AgentTypeOK, Rest, Door

LEMMA Together ==
    ASSUME Turn, Rest', Door'
    PROVE  IInv' /\ RecordKept
BY DEF Turn, IInv, TypeOK, AgentTypeOK, Rest, Door

\* A record a turn may start from: the one that stands, or one that keeps its end
\* and its stop.
Keeps(r) == (rec.phase = "settled" => r = rec) /\ (Stopped => r.stuck)

LEMMA LoopTurns ==
    ASSUME IInv, NEW d \in Drives, NEW r \in Records, NEW a \in BOOLEAN, Keeps(r), Loop(d, r, a)
    PROVE  Turn
<1>1. AgentTypeOK
  BY DEF IInv, TypeOK
<1>2. /\ LoopLeaves
      /\ r.phase = "settled" => rec' = r
      /\ r.stuck => drive'.pc # "talk" /\ (rec'.stuck \/ rec'.phase = "settled")
  BY <1>1, LoopTypes
<1>3. TriesLeft' /\ StoppedIsQuiet'
  BY <1>2 DEF LoopLeaves, TriesLeft, StoppedIsQuiet, Stopped
<1>4. RecordKept
  BY <1>2 DEF RecordKept, Keeps
<1> QED BY <1>2, <1>3, <1>4 DEF LoopLeaves, Turn

LEMMA SaveKeeps ==
    ASSUME IInv, NEW r \in Records
    PROVE  Save(r) \in Records /\ Keeps(Save(r))
BY SaveTypes DEF IInv, TypeOK, Keeps

LEMMA LoadedKeeps ==
    ASSUME IInv
    PROVE  Loaded \in Records /\ Keeps(Loaded) /\ Keeps(rec)
<1>1. drive.rec \in Records /\ rec \in Records
  BY DEF IInv, TypeOK, AgentTypeOK, Drives
<1> QED BY <1>1 DEF Loaded, Keeps, Stopped, Unsettled

\* The record, the conversation and the heartbeat stand, and the drive does not
\* come to converse or to ask.
LEMMA QuietTurns ==
    ASSUME IInv, rec' = rec, conv' \in {"none", "working", "over"}, alarm' \in BOOLEAN,
           drive' \in Drives, drive'.pc = "talk" => drive.pc = "talk",
           drive'.pc \in {"ask", "reply"} =>
               drive.pc \in {"ask", "reply"} /\ drive'.rec = drive.rec
    PROVE  Turn
BY DEF IInv, TypeOK, AgentTypeOK, Turn, RecordKept, TriesLeft, StoppedIsQuiet, Stopped, Unsettled

\* ... or the attempt ends under it.
LEMMA SettleTurns ==
    ASSUME IInv, NEW e \in Exits, rec' = Settle(e), UNCHANGED conv, alarm' \in BOOLEAN,
           drive' \in Drives, drive'.pc = "talk" => drive.pc = "talk",
           drive'.pc \in {"ask", "reply"} =>
               drive.pc \in {"ask", "reply"} /\ drive'.rec = drive.rec
    PROVE  Turn
<1>1. AgentTypeOK
  BY DEF IInv, TypeOK
<1>2. rec' \in Records /\ rec'.phase = "settled" /\ (rec.phase = "settled" => rec' = rec)
  BY <1>1, SettleTypes
<1> QED BY <1>1, <1>2 DEF IInv, AgentTypeOK, Turn, RecordKept, TriesLeft, StoppedIsQuiet, Stopped, Unsettled

\* An object that drives for nobody any more drives on at the same point.
LEMMA AdriftTypes ==
    ASSUME IInv
    PROVE  Adrift \in Drives /\ Adrift.pc = drive.pc /\ Adrift.rec = drive.rec
<1>1. drive \in Drives /\ Told \in BOOLEAN
  BY DEF IInv, TypeOK, AgentTypeOK, Told, Drives
<1> QED BY <1>1 DEF Adrift, Drives
-----------------------------------------------------------------------------
(* The steps of the agent *)

LEMMA LandedTypes ==
    ASSUME IInv, NEW p \in ProcIds
    PROVE  Landed(p) \in Boxes
<1>1. box.procs \in [ProcIds -> {"none", "running", "ok", "bad"}]
  BY DEF IInv, TypeOK, AgentTypeOK, Boxes
<1> QED BY <1>1 DEF Landed, Boxes

LEMMA DriveSteps ==
    ASSUME IInv, DriveStep
    PROVE  Turn /\ Rest'
<1>1. drive \in Drives /\ drive.rec \in Records /\ alarm \in BOOLEAN /\ Rest
  BY Parts DEF Drives
<1>2. ASSUME NEW p \in ProcIds, Land(p) PROVE Turn /\ Rest'
  <2>1. Rest'
    BY <1>1, <1>2, LandedTypes DEF Land, Rest
  <2>2. drive' = [drive EXCEPT !.pc = "reply", !.proc = p] /\ drive.pc = "ask"
    BY <1>2 DEF Land
  <2>3. drive' \in Drives /\ drive'.pc = "reply" /\ drive'.rec = drive.rec
    BY <1>1, <2>2 DEF Drives
  <2>4. rec' = rec /\ conv' \in {"none", "working", "over"} /\ alarm' \in BOOLEAN
    BY <1>2, Parts DEF Land
  <2> QED BY <2>1, <2>2, <2>3, <2>4, QuietTurns
<1>3. CASE Reply
  <2> DEFINE r == [drive.rec EXCEPT !.tries = @ + 1, !.proc = drive.proc]
  <2>1. drive.rec.tries + 1 \in 0..(PhaseRetries + 1) /\ drive.proc \in ProcIds \cup {NoProc}
    BY <1>1, <1>3, Parts, Constants DEF Reply, TriesLeft, Records, Drives
  <2>2. r \in Records
    BY <1>1, <2>1 DEF Records
  <2>3. rec' = Save(r) /\ drive' = [drive EXCEPT !.pc = "wait", !.rec = Save(r)]
    BY <1>3 DEF Reply
  <2> HIDE DEF r
  <2>4. Save(r) \in Records /\ Keeps(Save(r))
    BY <2>2, SaveKeeps
  <2>5. drive' \in Drives /\ drive'.pc = "wait"
    BY <1>1, <2>3, <2>4 DEF Drives
  <2>6. conv' \in {"none", "working", "over"} /\ alarm' \in BOOLEAN /\ Rest'
    BY <1>1, <1>3, Parts DEF Reply, Rest
  <2> QED BY <2>3, <2>4, <2>5, <2>6 DEF Turn, RecordKept, Keeps, TriesLeft, StoppedIsQuiet
<1>4. CASE PhaseLost
  <2> DEFINE r == [drive.rec EXCEPT !.proc = NoProc]
  <2>1. r \in Records
    BY <1>1 DEF Records
  <2>2. Loop(drive, Save(r), alarm) /\ Rest'
    BY <1>1, <1>4 DEF PhaseLost, Rest
  <2> HIDE DEF r
  <2> QED BY <1>1, <2>1, <2>2, SaveKeeps, LoopTurns
<1>5. CASE PhaseExits
  <2>1. Rest'
    BY <1>1, <1>5 DEF PhaseExits, Rest
  <2>2. CASE Loop(drive, Save(Conversing(drive.rec)), alarm)
    BY <1>1, <2>1, <2>2, FinishingTypes, SaveKeeps, LoopTurns
  <2>3. CASE DriveEnds(Settle(box.procs[drive.proc])) /\ UNCHANGED conv
    <3>1. box.procs[drive.proc] \in Exits
      BY <1>5 DEF PhaseExits, Exits
    <3>2. rec' = Settle(box.procs[drive.proc]) /\ drive' = Off /\ alarm' = FALSE
      BY <2>3 DEF DriveEnds
    <3> QED BY <2>1, <2>3, <3>1, <3>2, OffTypes, SettleTurns
  <2> QED BY <1>5, <2>2, <2>3 DEF PhaseExits
<1>6. CASE TalkEnds
  <2>1. Rest'
    BY <1>1, <1>6 DEF TalkEnds, Rest
  <2>2. CASE Loop(drive, Loaded, alarm)
    BY <1>1, <2>1, <2>2, LoadedKeeps, LoopTurns
  <2>3. CASE UNCHANGED <<rec, conv, alarm>> /\ drive' = [drive EXCEPT !.pc = "shut"]
    <3>1. drive' \in Drives /\ drive'.pc = "shut"
      BY <1>1, <2>3 DEF Drives
    <3> QED BY <2>1, <2>3, <3>1, Parts, QuietTurns
  <2> QED BY <1>6, <2>2, <2>3 DEF TalkEnds
<1>7. CASE ToFinish
  <2>1. Loop(drive, Save(Finishing(Loaded)), alarm) /\ Rest'
    BY <1>1, <1>7 DEF ToFinish, Rest
  <2> QED BY <1>1, <2>1, LoadedKeeps, FinishingTypes, SaveKeeps, LoopTurns
<1> QED BY <1>2, <1>3, <1>4, <1>5, <1>6, <1>7 DEF DriveStep

LEMMA TalkSteps ==
    ASSUME IInv, Talk
    PROVE  Turn /\ Rest'
<1>1. drive \in Drives /\ rec \in Records /\ alarm \in BOOLEAN /\ Rest
  BY Parts
<1>2. CASE GiveUp
  <2>1. Loop(drive, IF Told THEN Loaded ELSE Save(Finishing(Loaded)), alarm) /\ Rest'
    BY <1>1, <1>2 DEF GiveUp, Rest
  <2>2. CASE Told
    BY <1>1, <2>1, <2>2, LoadedKeeps, LoopTurns
  <2>3. CASE ~Told
    BY <1>1, <2>1, <2>3, LoadedKeeps, FinishingTypes, SaveKeeps, LoopTurns
  <2> QED BY <2>2, <2>3
<1>3. CASE StuckStop
  <2>1. drive' = [drive EXCEPT !.pc = "stop"] /\ Rest' /\ UNCHANGED <<conv, alarm>>
    BY <1>1, <1>3 DEF StuckStop, Rest
  <2>2. drive' \in Drives /\ drive'.pc = "stop"
    BY <1>1, <2>1 DEF Drives
  <2>3. rec' \in Records /\ (Stopped => rec'.stuck) /\ (rec.phase = "settled" => rec' = rec)
    BY <1>1, <1>3 DEF StuckStop, Records, Stopped, Unsettled
  <2> QED BY <2>1, <2>2, <2>3, Parts DEF Turn, RecordKept, TriesLeft, StoppedIsQuiet
<1>4. CASE ConversationEnds
  <2>1. UNCHANGED <<rec, alarm, drive>> /\ conv' = "over" /\ Rest'
    BY <1>1, <1>4 DEF ConversationEnds, Rest
  <2> QED BY <1>1, <2>1, QuietTurns
<1> QED BY <1>2, <1>3, <1>4 DEF Talk

LEMMA BeatSteps ==
    ASSUME IInv, Beat \/ BeatHosted
    PROVE  Turn /\ Rest'
<1>1. drive \in Drives /\ rec \in Records /\ alarm \in BOOLEAN /\ Rest
  BY Parts
<1>2. CASE Beat
  <2>1. Rest'
    BY <1>1, <1>2 DEF Beat, Rest
  <2>2. CASE Kick(rec, TRUE)
    <3>1. CASE Loop(Off, rec, TRUE)
      BY <1>1, <2>1, <3>1, OffTypes, LoadedKeeps, LoopTurns
    <3>2. CASE rec' = rec /\ alarm' = TRUE /\ UNCHANGED <<drive, conv>>
      BY <2>1, <3>2, Parts, QuietTurns
    <3> QED BY <2>2, <3>1, <3>2 DEF Kick
  <2>3. CASE UNCHANGED <<rec, conv, drive>> /\ alarm' \in BOOLEAN
    BY <2>1, <2>3, Parts, QuietTurns
  <2> QED BY <1>1, <1>2, <2>2, <2>3 DEF Beat
<1>3. CASE BeatHosted
  <2>1. Rest'
    BY <1>1, <1>3 DEF BeatHosted, Rest
  <2>2. CASE Loop(Off, rec, alarm)
    BY <1>1, <2>1, <2>2, OffTypes, LoadedKeeps, LoopTurns
  <2>3. CASE rec' = rec /\ alarm' = alarm /\ drive' = Adrift /\ UNCHANGED conv
    BY <2>1, <2>3, Parts, AdriftTypes, QuietTurns
  <2> QED BY <1>3, <2>2, <2>3 DEF BeatHosted, KickNew
<1> QED BY <1>2, <1>3
LEMMA TellTurns ==
    ASSUME IInv, NEW next \in Drives, next.pc = drive.pc, next.rec = drive.rec, Tell(next),
           UNCHANGED <<conv, alarm, beat, box, faults>>
    PROVE  Turn /\ Rest'
<1>1. rec \in Records /\ conv \in {"none", "working", "over"} /\ alarm \in BOOLEAN /\ Rest
  BY Parts
<1>2. drive' = next /\ Rest'
  BY <1>1 DEF Tell, Rest
<1>3. CASE rec' = rec
  BY <1>1, <1>2, <1>3, QuietTurns
<1>4. CASE rec' = Settle("reclaimed")
  BY <1>1, <1>2, <1>4, SettleTurns DEF Exits
<1> QED BY <1>3, <1>4 DEF Tell

LEMMA StopSteps ==
    ASSUME IInv, Stopping \/ Reclaim
    PROVE  Turn /\ Rest'
<1>1. /\ drive \in Drives /\ conv \in {"none", "working", "over"} /\ alarm \in BOOLEAN
      /\ Rest /\ rec \in Records
  BY Parts
<1>2. CASE Reclaim
  <2>1. UNCHANGED <<conv, alarm, beat, box, faults>>
    BY <1>2 DEF Reclaim
  <2>2. CASE Tell(drive)
    BY <1>1, <2>1, <2>2, TellTurns
  <2>3. CASE UNCHANGED <<rec, host, drive>> /\ stop' \in {"done", "hosting"}
    BY <1>1, <2>1, <2>3, QuietTurns DEF Rest
  <2> QED BY <1>2, <2>2, <2>3 DEF Reclaim
<1>3. CASE ReclaimHosted
  BY <1>3, AdriftTypes, TellTurns DEF ReclaimHosted
<1>4. CASE ReclaimAborted
  <2>1. rec' = Settle("reclaimed") /\ UNCHANGED <<alarm, drive>> /\ Rest'
    BY <1>1, <1>4 DEF ReclaimAborted, Rest
  <2>2. rec' \in Records /\ rec'.phase = "settled" /\ (rec.phase = "settled" => rec' = rec)
    BY <2>1, SettleTypes DEF IInv, TypeOK, Exits
  <2>3. conv' \in {"none", "working", "over"}
    BY <1>1, <1>4 DEF ReclaimAborted
  <2> QED BY <1>1, <2>1, <2>2, <2>3, Parts
          DEF Turn, RecordKept, TriesLeft, StoppedIsQuiet, Stopped, Unsettled
<1>5. CASE ReclaimClears
  <2>1. alarm' = FALSE /\ UNCHANGED <<rec, conv, drive>> /\ Rest'
    BY <1>1, <1>5 DEF ReclaimClears, Rest
  <2> QED BY <1>1, <2>1, QuietTurns
<1>6. CASE ReclaimReleases
  <2>1. UNCHANGED <<rec, conv, alarm, drive>> /\ Rest'
    BY <1>1, <1>6, OffTypes DEF ReclaimReleases, Destroyed, Rest
  <2> QED BY <1>1, <2>1, QuietTurns
<1> QED BY <1>2, <1>3, <1>4, <1>5, <1>6 DEF Stopping

LEMMA OtherSteps ==
    ASSUME IInv, Exit \/ ToolRound \/ ContainerLost \/ DriveFails
    PROVE  Turn /\ Rest'
<1>1. drive \in Drives /\ conv \in {"none", "working", "over"} /\ alarm \in BOOLEAN /\ Rest
  BY Parts
<1>2. ASSUME NEW p \in ProcIds, NEW e \in {"ok", "bad"}, ProcessExits(p, e)
      PROVE  Turn /\ Rest'
  <2>1. box' \in Boxes
    BY <1>1, <1>2 DEF ProcessExits, Rest, Boxes
  <2>2. UNCHANGED <<rec, conv, alarm, host, drive, beat, stop, faults>>
    BY <1>2 DEF ProcessExits
  <2> QED BY <1>1, <2>1, <2>2, QuietTurns DEF Rest
<1>3. CASE ToolRound
  <2>1. box' \in Boxes
    BY <1>1, <1>3 DEF ToolRound, Rest, Boxes
  <2>2. UNCHANGED <<rec, conv, alarm, host, drive, beat, stop, faults>>
    BY <1>3 DEF ToolRound
  <2> QED BY <1>1, <2>1, <2>2, QuietTurns DEF Rest
<1>4. CASE ContainerLost
  <2>1. faults' \in 0..MaxFaults /\ box' \in Boxes
    BY <1>1, <1>4, OffTypes, Constants DEF ContainerLost, Fault, Rest
  <2>2. UNCHANGED <<rec, conv, alarm, host, drive, beat, stop>>
    BY <1>4 DEF ContainerLost
  <2> QED BY <1>1, <2>1, <2>2, QuietTurns DEF Rest
<1>5. CASE DriveFails
  <2>1. faults' \in 0..MaxFaults /\ host' \in {"none", "live", "told"} /\ drive' = Off
    BY <1>1, <1>5, Constants DEF DriveFails, Fault, Rest
  <2>2. UNCHANGED <<rec, conv, alarm, beat, stop, box>>
    BY <1>5 DEF DriveFails
  <2> QED BY <1>1, <2>1, <2>2, OffTypes, QuietTurns DEF Rest
<1> QED BY <1>2, <1>3, <1>4, <1>5 DEF Exit

LEMMA AgentSteps ==
    ASSUME IInv, AgentStep, UNCHANGED doorVars
    PROVE  IInv' /\ RecordKept
<1>1. Turn /\ Rest'
  BY DriveSteps, TalkSteps, BeatSteps, StopSteps, OtherSteps DEF AgentStep
<1>2. Door'
  BY Parts DEF Door, doorVars
<1> QED BY <1>1, <1>2, Together
-----------------------------------------------------------------------------
(* The steps of the door and of the sweep *)

\* A step that leaves the attempt alone.
LEMMA Aside ==
    ASSUME IInv, UNCHANGED <<rec, conv, alarm, drive>>, Rest', Door'
    PROVE  IInv' /\ RecordKept
<1>1. Turn
  BY Parts, QuietTurns
<1> QED BY <1>1, Together

\* A fresh record is one nothing stopped, and no turn is under way on it but one
\* of a host that is gone.
LEMMA RecordedTurns ==
    ASSUME IInv, Recorded, drive' \in {drive, Adrift}
    PROVE  Turn
<1>1. rec' \in Records /\ ~rec'.stuck
  BY EndedTypes DEF Recorded, Exits
<1>2. drive' \in Drives /\ drive'.pc = drive.pc /\ drive'.rec = drive.rec
  BY Parts, AdriftTypes
<1>3. conv' \in {"none", "working", "over"} /\ alarm' \in BOOLEAN /\ rec.phase = "absent"
  BY Parts DEF Recorded
<1> QED BY <1>1, <1>2, <1>3, Parts
        DEF Turn, RecordKept, TriesLeft, StoppedIsQuiet, Stopped, Unsettled

\* To look whether a drive is to be started leaves the record, unless one is.
LEMMA KickTurns ==
    ASSUME IInv, NEW a \in BOOLEAN, Kick(rec, a) \/ KickNew(rec, a)
    PROVE  Turn
<1>1. rec \in Records /\ drive \in Drives
  BY Parts
<1>2. CASE Loop(Off, rec, a)
  BY <1>1, <1>2, OffTypes, LoadedKeeps, LoopTurns
<1>3. CASE rec' = rec /\ alarm' = a /\ drive' \in {drive, Adrift} /\ UNCHANGED conv
  BY <1>1, <1>3, Parts, AdriftTypes, QuietTurns
<1> QED BY <1>2, <1>3 DEF Kick, KickNew

LEMMA SendSteps ==
    ASSUME IInv, Send \/ SendHosted \/ Arm
    PROVE  IInv' /\ RecordKept
<1>1. /\ drive \in Drives /\ rec \in Records /\ conv \in {"none", "working", "over"}
      /\ alarm \in BOOLEAN /\ Rest /\ Door
  BY Parts
<1>2. Door' /\ UNCHANGED <<beat, stop, box, faults>>
  BY <1>1 DEF Send, SendHosted, Arm, AfterRecord, Door
<1>3. CASE Send
  <2>1. CASE rec.phase = "settled" /\ Forget
    <3>1. rec' = Blank /\ conv' = "none" /\ alarm' = FALSE /\ host' = "none"
      BY <2>1 DEF Forget
    <3>2. drive' \in Drives /\ drive'.pc # "talk"
          /\ (drive'.pc \in {"ask", "reply"} => drive'.pc = drive.pc /\ drive'.rec = drive.rec)
      BY <2>1, AdriftTypes, OffTypes DEF Forget
    <3>3. Turn
      BY <1>1, <2>1, <3>1, <3>2, BlankTypes, Parts
         DEF Turn, RecordKept, TriesLeft, StoppedIsQuiet, Stopped, Unsettled
    <3> QED BY <1>1, <1>2, <3>1, <3>3, Together DEF Rest
  <2>2. CASE UNCHANGED <<rec, conv, alarm, host, drive>>
    BY <1>1, <1>2, <2>2, Aside DEF Rest
  <2>3. CASE RecordHere
    <3>1. Turn
      BY <1>1, <2>3, RecordedTurns, KickTurns DEF RecordHere
    <3>2. Rest'
      BY <1>1, <1>2, <2>3 DEF RecordHere, Rest
    <3> QED BY <1>2, <3>1, <3>2, Together
  <2> QED BY <1>3, <2>1, <2>2, <2>3 DEF Send
<1>4. CASE SendHosted
  <2>1. RecordHosted /\ Rest'
    BY <1>1, <1>2, <1>4 DEF SendHosted, RecordHosted, Rest
  <2>2. CASE rec.phase = "settled" /\ drive' = Adrift /\ UNCHANGED <<rec, conv, alarm>>
    BY <1>1, <1>2, <2>1, <2>2, AdriftTypes, QuietTurns, Together
  <2>3. CASE (Recorded /\ drive' = Adrift) \/ KickNew(rec, alarm)
    BY <1>1, <1>2, <2>1, <2>3, RecordedTurns, KickTurns, Together
  <2> QED BY <2>1, <2>2, <2>3 DEF RecordHosted
<1>5. CASE Arm
  <2>1. Kick(rec, TRUE) /\ Rest'
    BY <1>1, <1>2, <1>5 DEF Arm, Arms, Armed, Rest
  <2> QED BY <1>2, <2>1, KickTurns, Together
<1> QED BY <1>3, <1>4, <1>5

LEMMA CallSteps ==
    ASSUME IInv, Look \/ Start \/ DoorStep
    PROVE  IInv' /\ RecordKept
<1>1. rec \in Records /\ Rest /\ Door
  BY Parts
<1>2. CASE Look
  <2>1. rec.exit \in Exits \cup {"none"}
    BY <1>1 DEF Records
  <2> QED BY <1>1, <1>2, <2>1, Aside DEF Look, agentVars, Rest, Door
<1>3. CASE Start
  <2>1. starts' \in 0..MaxStarts
    BY <1>1, <1>3, Constants DEF Start, Door
  <2> QED BY <1>1, <1>3, <2>1, Aside DEF Start, agentVars, Rest, Door
<1>4. CASE Write
  BY <1>1, <1>4, Aside DEF Write, VerdictOf, agentVars, Rest, Door
<1>5. CASE Release
  <2>1. box' \in Boxes
    BY <1>1, <1>5, OffTypes DEF Release, Destroyed, Rest
  <2>2. faults' \in 0..MaxFaults
    BY <1>1, <1>5, Constants DEF Release, Fault, Rest
  <2> QED BY <1>1, <1>5, <2>1, <2>2, Aside DEF Release, Rest, Door
<1>6. CASE Ask
  BY <1>1, <1>6, Aside DEF Ask, agentVars, Rest, Door
<1>7. CASE RecordBoot
  BY <1>1, <1>7, Aside DEF RecordBoot, agentVars, Rest, Door
<1>8. CASE Send \/ SendHosted \/ Arm
  BY <1>8, SendSteps
<1> QED BY <1>2, <1>3, <1>4, <1>5, <1>6, <1>7, <1>8 DEF DoorStep

LEMMA SweepSteps ==
    ASSUME IInv, RunEnds \/ Sweep \/ StopTimesOut \/ AgentCrashes
    PROVE  IInv' /\ RecordKept
<1>1. Rest /\ Door
  BY Parts
<1>2. CASE RunEnds
  BY <1>1, <1>2, Aside DEF RunEnds, callVars, agentVars, Rest, Door
<1>3. CASE SweepAsks
  <2>1. Door'
    BY <1>1, <1>3 DEF SweepAsks, callVars, Door
  <2>2. CASE UNCHANGED agentVars
    BY <1>1, <2>1, <2>2, Aside DEF agentVars, Rest
  <2>3. CASE Reclaim
    BY <2>1, <2>3, StopSteps, Together
  <2> QED BY <1>3, <2>2, <2>3 DEF SweepAsks
<1>4. CASE StopAnswered
  BY <1>1, <1>4, Aside DEF StopAnswered, callVars, Rest, Door
<1>5. CASE SweepDestroys
  <2>1. box' \in Boxes
    BY <1>1, <1>5, OffTypes DEF SweepDestroys, Rest
  <2>2. faults' \in 0..MaxFaults
    BY <1>1, <1>5, Constants DEF SweepDestroys, Fault, Rest
  <2> QED BY <1>1, <1>5, <2>1, <2>2, Aside DEF SweepDestroys, callVars, Rest, Door
<1>6. CASE SweepRecords
  <2>1. (reclaimed \/ ~box.up) \in BOOLEAN
    OBVIOUS
  <2> QED BY <1>1, <1>6, <2>1, Aside DEF SweepRecords, callVars, agentVars, Rest, Door
<1>7. CASE StopTimesOut
  <2>1. faults' \in 0..MaxFaults
    BY <1>1, <1>7, Constants DEF StopTimesOut, Fault, Rest
  <2> QED BY <1>1, <1>7, <2>1, Aside DEF StopTimesOut, callVars, Rest, Door
<1>8. CASE AgentCrashes
  <2>1. faults' \in 0..MaxFaults
    BY <1>1, <1>8, Constants DEF AgentCrashes, Crash, Fault, Rest
  <2>2. box' \in Boxes
    BY <1>1, <1>8, LandedTypes DEF AgentCrashes, Crash, Rest
  <2>3. drive' = Off /\ UNCHANGED <<rec, conv, alarm>>
    BY <1>8 DEF AgentCrashes, Crash
  <2>4. Rest' /\ Door'
    BY <1>1, <1>8, <2>1, <2>2 DEF AgentCrashes, Crash, Rest, Door
  <2>5. Turn
    BY <2>3, Parts, OffTypes, QuietTurns
  <2> QED BY <2>4, <2>5, Together
<1> QED BY <1>2, <1>3, <1>4, <1>5, <1>6, <1>7, <1>8 DEF Sweep

-----------------------------------------------------------------------------
(* The theorems *)

LEMMA StartsRight == Init => IInv
<1> SUFFICES ASSUME Init PROVE IInv
  OBVIOUS
<1>1. rec \in Records /\ drive \in Drives /\ drive.pc = "off" /\ box \in Boxes
  BY BlankTypes, OffTypes DEF Init, AgentInit
<1>2. faults \in 0..MaxFaults /\ starts \in 0..MaxStarts
  BY Constants DEF Init, AgentInit
<1> QED BY <1>1, <1>2, Parts
        DEF Init, AgentInit, Rest, Door, TriesLeft, StoppedIsQuiet

LEMMA StepsKeep ==
    ASSUME IInv, [Next]_vars
    PROVE  IInv' /\ (RecordKept \/ UNCHANGED vars)
<1>1. CASE UNCHANGED vars
  <2>1. Rest' /\ Door' /\ UNCHANGED <<rec, conv, alarm, drive>>
    BY <1>1, Parts DEF vars, agentVars, doorVars, Rest, Door
  <2> QED BY <1>1, <2>1, Aside
<1>2. CASE AgentStep /\ UNCHANGED doorVars
  BY <1>2, AgentSteps
<1>3. CASE AgentCrashes \/ RunEnds \/ Sweep \/ StopTimesOut
  BY <1>3, SweepSteps
<1>4. CASE Look \/ Start \/ DoorStep
  BY <1>4, CallSteps
<1> QED BY <1>1, <1>2, <1>3, <1>4 DEF Next

THEOREM Invariance == Spec => []IInv
<1>1. IInv /\ [Next]_vars => IInv'
  BY StepsKeep
<1> QED BY <1>1, StartsRight, PTL DEF Spec

\* Every variable holds what it should, whatever the retries, the process ids and
\* the faults: a phase is never tried more often than its bound allows, which is
\* what decides that an attempt whose container keeps dying is lost.
THEOREM TypeCorrect == Spec => []TypeOK
<1>1. IInv => TypeOK
  BY DEF IInv
<1> QED BY <1>1, Invariance, PTL

\* No drive parked at an await, no reclaim and no replaced life of the object
\* writes over a settled record (settle and save of worker-attempt.ts): only the
\* next start takes it, as a whole.
THEOREM SettledRecordStands == Spec => SettledStands
<1>1. IInv /\ [Next]_vars => [rec.phase = "settled" => rec' \in {rec, Blank}]_vars
  BY StepsKeep DEF RecordKept
<1> QED BY <1>1, Invariance, PTL DEF Spec, SettledStands

\* An attempt that the stuck watch stopped is not conversed on again by any life,
\* and stays stopped until it settles (stuckLook, conversePhase and save).
THEOREM StoppedStays == Spec => StoppedIsNotResumed
<1>1. IInv /\ [Next]_vars
      => [Stopped => drive'.pc # "talk" /\ (rec'.stuck \/ rec'.phase = "settled")]_vars
  BY StepsKeep DEF RecordKept
<1> QED BY <1>1, Invariance, PTL DEF Spec, StoppedIsNotResumed
=============================================================================
