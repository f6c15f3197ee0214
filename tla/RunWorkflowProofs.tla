------------------------- MODULE RunWorkflowProofs -------------------------
(***************************************************************************)
(* Theorems about RunWorkflow for every budget of boots, looks, retries    *)
(* and stops, any workers and exit codes.  With every fault allowed: the   *)
(* shape of the state, that the credential the supervisor hands out is the *)
(* one of Credential, that at most one orchestrator can spend, and that a  *)
(* clean stop keeps its grace.  With the one fault each names ruled out: a *)
(* hard stop is a refusal, no boot runs beside an earlier one's processes, *)
(* and a finished run holds nothing.                                       *)
(***************************************************************************)
EXTENDS RunWorkflow, TLAPS

-----------------------------------------------------------------------------
(* Who may disturb what *)

\* Nobody but the supervisor moves the supervisor, or mints.
LEMMA Elsewhere ==
    ASSUME Orchestrates \/ StopRun \/ Sweep
    PROVE  UNCHANGED <<pc, loop, looks, ending, minted, up>>
<1>1. CASE Halts
  BY <1>1 DEF Halts, tokens, world
<1>2. CASE Reports
  BY <1>2 DEF Reports, tokens, world
<1>3. CASE ProcessExits
  BY <1>3 DEF ProcessExits, tokens, world
<1>4. CASE OrphanExits
  BY <1>4 DEF OrphanExits, tokens, world
<1>5. CASE ContainerReplaced
  BY <1>5 DEF ContainerReplaced, tokens, world
<1>6. CASE Dispatches
  BY <1>6 DEF Dispatches, tokens, world
<1>7. CASE WorkerEnds
  BY <1>7 DEF WorkerEnds, tokens, world
<1>8. CASE StopAsked
  BY <1>8 DEF StopAsked, tokens, world
<1>9. CASE StopRecorded
  BY <1>9 DEF StopRecorded, tokens, world
<1>10. CASE StopRevokes
  BY <1>10 DEF StopRevokes, tokens, world
<1>11. CASE StopFlips
  BY <1>11 DEF StopFlips, tokens, world
<1>12. CASE StopChecks
  BY <1>12 DEF StopChecks, tokens, world
<1>13. CASE StopLost
  BY <1>13 DEF StopLost, tokens, world
<1>14. CASE Sweep
  BY <1>14 DEF Sweep, tokens, world
<1> QED BY <1>1, <1>2, <1>3, <1>4, <1>5, <1>6, <1>7, <1>8, <1>9, <1>10, <1>11, <1>12,
       <1>13, <1>14 DEF Orchestrates, StopRun

\* Once a run's end is being recorded, or its net was entered, it has an outcome.
Judged == (net \/ pc \in {"record", "progress"} \cup InFinalize) => outcome \in Verdicts

-----------------------------------------------------------------------------
(* Types, part by part *)

LEMMA SupervisorStep ==
    ASSUME SupervisorOK, Judged, stop \in {"none", "clean", "hard"}, [Next]_vars
    PROVE  SupervisorOK' /\ Judged'
<1> USE ConstantsAssumption
    DEF SupervisorOK, Judged, Goto, loop, ending, Steps, InBootStep, InWatch,
        InFinalize, Ended, Ends, Verdicts
<1>1. CASE Context
  BY <1>1 DEF Context
<1>2. CASE KillCheck
  BY <1>2 DEF KillCheck
<1>3. CASE KillRevoke
  BY <1>3 DEF KillRevoke
<1>4. CASE Rotate
  BY <1>4 DEF Rotate
<1>5. CASE Mint
  BY <1>5 DEF Mint
<1>6. CASE Provision
  BY <1>6 DEF Provision
<1>7. CASE Start
  BY <1>7 DEF Start
<1>8. CASE Booted
  BY <1>8 DEF Booted
<1>9. CASE LeaseRenewal
  BY <1>9 DEF LeaseRenewal
<1>10. CASE BootThrows
  BY <1>10 DEF BootThrows
<1>11. CASE Wait
  BY <1>11 DEF Wait
<1>12. CASE Ask
  BY <1>12 DEF Ask, Running
<1>13. CASE Tripped
  <2>1. \A found \in Trips : found \in {"none", "clean", "hard"}
    BY DEF Trips, StopRead
  <2>2. trip' \in {"none", "clean", "hard"} /\ pc' \in {"cutoff", "drain"}
    BY <1>13, <2>1 DEF Tripped
  <2> QED BY <1>13, <2>2 DEF Tripped
<1>14. CASE Unanswered
  BY <1>14 DEF Unanswered, Untripped, Hold, Leave
<1>15. CASE StillRunning
  BY <1>15 DEF StillRunning, Untripped, Hold
<1>16. CASE Settled
  BY <1>16 DEF Settled, Untripped
<1>17. CASE Over
  BY <1>17 DEF Over, Untripped, Concludes, Leave
<1>18. CASE Linger
  BY <1>18 DEF Linger, Concludes, Leave
<1>19. CASE CutOff
  BY <1>19 DEF CutOff
<1>20. CASE Drain
  BY <1>20 DEF Drain, Leave
<1>21. CASE CutClean
  BY <1>21 DEF CutClean, Leave
<1>22. CASE DrainOut
  BY <1>22 DEF DrainOut, Leave
<1>23. CASE EndedLine
  BY <1>23 DEF EndedLine
<1>24. CASE Destroy
  BY <1>24 DEF Destroy
<1>25. CASE Record
  BY <1>25 DEF Record
<1>26. CASE Progress
  BY <1>26 DEF Progress
<1>27. CASE FinRevoke
  BY <1>27 DEF FinRevoke
<1>28. CASE FinRow
  BY <1>28 DEF FinRow
<1>29. CASE FinWorkers
  BY <1>29 DEF FinWorkers
<1>30. CASE FinSweep
  BY <1>30 DEF FinSweep
<1>31. CASE StepThrows
  BY <1>31 DEF StepThrows, Leave
<1>32. CASE FinalizeThrows
  BY <1>32 DEF FinalizeThrows
<1>33. CASE InstanceLost
  BY <1>33 DEF InstanceLost
<1>34. CASE Orchestrates \/ StopRun \/ Sweep
  BY <1>34, Elsewhere
<1>35. CASE UNCHANGED vars
  BY <1>35 DEF vars
<1> QED BY <1>1, <1>2, <1>3, <1>4, <1>5, <1>6, <1>7, <1>8, <1>9, <1>10, <1>11, <1>12,
       <1>13, <1>14, <1>15, <1>16, <1>17, <1>18, <1>19, <1>20, <1>21, <1>22, <1>23,
       <1>24, <1>25, <1>26, <1>27, <1>28, <1>29, <1>30, <1>31, <1>32, <1>33, <1>34,
       <1>35
        DEF Next, Supervises, Look, Fails

LEMMA LooksStep ==
    ASSUME LooksOK, exit \in Ends \cup {"none"}, mail \in Seq(Codes), [Next]_vars
    PROVE  LooksOK'
<1>0. Counted \in [looks : Nat, unasked : Nat, report : Codes \cup {"none"}, pinned : BOOLEAN]
  BY DEF LooksOK, Counted
<1>1. Fresh \in [looks : Nat, unasked : Nat, report : Codes \cup {"none"}, pinned : BOOLEAN]
  BY DEF Fresh
<1>2. CASE watch' = Fresh /\ seen' = "none"
  BY <1>1, <1>2 DEF LooksOK
<1>3. CASE UNCHANGED looks
  BY <1>3 DEF LooksOK, looks
<1>4. CASE Wait
  <2>1. PICK code \in Codes \cup {"none"} : watch' = [watch EXCEPT !.report = code] \/ watch' = watch
    <3>1. CASE mail = <<>>
      BY <1>4, <3>1 DEF Wait
    <3>2. CASE mail # <<>>
      <4>1. Head(mail) \in Codes
        BY <3>2
      <4> QED BY <1>4, <3>2, <4>1 DEF Wait
    <3> QED BY <3>1, <3>2
  <2> QED BY <1>4, <2>1 DEF Wait, LooksOK
<1>5. CASE Ask
  BY <1>5 DEF Ask, LooksOK
<1>6. ASSUME NEW state, Hold(state),
             state \in [looks : Nat, unasked : Nat, report : Codes \cup {"none"}, pinned : BOOLEAN]
      PROVE  LooksOK'
  BY <1>6 DEF Hold, LooksOK
<1>7. CASE Unanswered
  <2>1. [Counted EXCEPT !.unasked = @ + 1]
          \in [looks : Nat, unasked : Nat, report : Codes \cup {"none"}, pinned : BOOLEAN]
    <3>1. PICK n \in Nat : n = Counted.unasked + 1
      BY <1>0
    <3>2. [Counted EXCEPT !.unasked = n]
            \in [looks : Nat, unasked : Nat, report : Codes \cup {"none"}, pinned : BOOLEAN]
      BY <1>0
    <3> QED BY <3>1, <3>2
  <2>2. Hold([Counted EXCEPT !.unasked = @ + 1]) \/ Leave
    BY <1>7 DEF Unanswered
  <2> QED BY <1>2, <1>6, <2>1, <2>2 DEF Leave
<1>8. CASE StillRunning
  <2>1. [Answered EXCEPT !.pinned = watch.report # "none"]
          \in [looks : Nat, unasked : Nat, report : Codes \cup {"none"}, pinned : BOOLEAN]
    <3>1. Answered \in [looks : Nat, unasked : Nat, report : Codes \cup {"none"}, pinned : BOOLEAN]
      BY <1>0 DEF Answered
    <3> QED BY <3>1
  <2> QED BY <1>6, <1>8, <2>1 DEF StillRunning
<1>9. CASE Over \/ Linger \/ CutClean \/ DrainOut \/ Booted
  BY <1>2, <1>9 DEF Over, Linger, Concludes, CutClean, DrainOut, Booted, Leave
<1>10. CASE Drain \/ StepThrows
  BY <1>2, <1>3, <1>10 DEF Drain, StepThrows, Leave
<1>11. CASE Context \/ KillCheck \/ KillRevoke \/ Rotate \/ Mint \/ Provision \/ Start
            \/ LeaseRenewal \/ BootThrows
  BY <1>3, <1>11
     DEF Context, KillCheck, KillRevoke, Rotate, Mint, Provision, Start, LeaseRenewal, BootThrows
<1>12. CASE Tripped \/ Settled \/ CutOff
  BY <1>3, <1>12 DEF Tripped, Settled, CutOff
<1>13. CASE EndedLine \/ Destroy \/ Record \/ Progress \/ FinRevoke \/ FinRow \/ FinWorkers
            \/ FinSweep \/ FinalizeThrows \/ InstanceLost
  BY <1>3, <1>13
     DEF EndedLine, Destroy, Record, Progress, FinRevoke, FinRow, FinWorkers, FinSweep,
         FinalizeThrows, InstanceLost
<1>14. CASE Orchestrates \/ StopRun \/ Sweep
  BY <1>3, <1>14, Elsewhere DEF looks
<1>15. CASE UNCHANGED vars
  BY <1>3, <1>15 DEF vars
<1> QED BY <1>4, <1>5, <1>7, <1>8, <1>9, <1>10, <1>11, <1>12, <1>13, <1>14, <1>15
        DEF Next, Supervises, Look, Fails

\* A revocation leaves fewer credentials, and workers where they are.
LEMMA Revoking ==
    ASSUME HoldingsOK, TriesToRevoke \/ RevokeAll \/ UNCHANGED <<live, workers>>,
           UNCHANGED <<minted, up, procs>>, boot' = boot
    PROVE  HoldingsOK'
<1>1. CASE RevokeAll
  BY <1>1 DEF HoldingsOK, RevokeAll, CutOf
<1>2. CASE UNCHANGED <<live, workers>>
  BY <1>2 DEF HoldingsOK
<1> QED BY <1>1, <1>2 DEF TriesToRevoke

\* A process or a container less.
LEMMA Fewer ==
    ASSUME HoldingsOK, up' \subseteq up, procs' \subseteq procs, UNCHANGED tokens, boot' = boot
    PROVE  HoldingsOK'
BY DEF HoldingsOK, tokens

\* A boot is counted before its step, and a credential minted before a process.
Begun == /\ pc \in InBootStep => boot > 0
         /\ pc \in {"provision", "start"} => minted > 0

LEMMA HoldingsStep ==
    ASSUME HoldingsOK, boot \in Nat, Begun, [Next]_vars
    PROVE  HoldingsOK'
<1>1. CASE KillCheck
  BY <1>1 DEF KillCheck, HoldingsOK, tokens
<1>2. CASE KillRevoke \/ Rotate \/ CutOff \/ CutClean \/ FinRevoke
  <2>1. TriesToRevoke /\ boot' = boot /\ UNCHANGED <<minted, up, procs>>
    BY <1>2 DEF KillRevoke, Rotate, CutOff, CutClean, FinRevoke, TriesToRevoke, loop, world
  <2> QED BY <2>1, Revoking
<1>3. CASE Mint
  BY <1>3 DEF Mint, HoldingsOK, loop
<1>4. CASE Provision
  BY <1>4 DEF Provision, HoldingsOK, loop, tokens, Begun, InBootStep
<1>5. CASE Start
  <2>1. Newest \in [boot : 1..boot, token : 1..minted]
    BY <1>5 DEF Start, Newest, HoldingsOK, Begun, InBootStep
  <2> QED BY <1>5, <2>1 DEF Start, HoldingsOK, loop, tokens
<1>6. CASE Over \/ Linger \/ Drain \/ DrainOut
  <2>1. procs' \subseteq procs /\ up' = up /\ UNCHANGED tokens /\ boot' = boot
    BY <1>6 DEF Over, Linger, Concludes, Drain, DrainOut, KillsTheProcess, loop
  <2> QED BY <2>1, Fewer
<1>7. CASE Destroy \/ FinSweep
  <2>1. up' \subseteq up /\ procs' \subseteq procs
    BY <1>7 DEF Destroy, FinSweep, Destroys
  <2>2. UNCHANGED tokens /\ boot' = boot
    BY <1>7 DEF Destroy, FinSweep, loop
  <2> QED BY <2>1, <2>2, Fewer
<1>8. CASE FinWorkers
  BY <1>8 DEF FinWorkers, HoldingsOK, loop, world
<1>9. CASE Context \/ Booted \/ LeaseRenewal \/ EndedLine \/ Record \/ Progress \/ FinRow
  <2>1. UNCHANGED <<tokens, up, procs, boot>>
    BY <1>9 DEF Context, Booted, LeaseRenewal, EndedLine, Record, Progress, FinRow, loop, world
  <2> QED BY <2>1 DEF HoldingsOK, tokens
<1>10. CASE Wait \/ Ask \/ Tripped \/ Unanswered \/ StillRunning \/ Settled
  <2>1. UNCHANGED <<tokens, up, procs, boot>>
    BY <1>10 DEF Wait, Ask, Tripped, Unanswered, StillRunning, Hold, Settled, loop, world
  <2> QED BY <2>1 DEF HoldingsOK, tokens
<1>11. CASE Fails
  <2>1. UNCHANGED <<tokens, up, procs, boot>>
    BY <1>11 DEF Fails, BootThrows, StepThrows, FinalizeThrows, InstanceLost, loop, world
  <2> QED BY <2>1 DEF HoldingsOK, tokens
<1>12. CASE Halts \/ Reports \/ ProcessExits \/ OrphanExits \/ ContainerReplaced
  <2>1. procs' \subseteq procs /\ UNCHANGED <<up, tokens>> /\ boot' = boot
    BY <1>12 DEF Halts, Reports, ProcessExits, OrphanExits, ContainerReplaced, loop
  <2> QED BY <2>1, Fewer
<1>13. CASE Dispatches \/ WorkerEnds
  BY <1>13 DEF Dispatches, WorkerEnds, HoldingsOK, loop, world
<1>14. CASE StopRun \/ Sweep
  <2>1. /\ TriesToRevoke \/ UNCHANGED <<live, workers>>
        /\ boot' = boot /\ UNCHANGED <<minted, up, procs>>
    BY <1>14 DEF StopRun, StopAsked, StopRecorded, StopRevokes, StopFlips, StopChecks, StopLost,
                 Sweep, loop, world, tokens
  <2> QED BY <2>1, Revoking
<1>15. CASE UNCHANGED vars
  BY <1>15 DEF vars, HoldingsOK, tokens, world, loop
<1> QED BY <1>1, <1>2, <1>3, <1>4, <1>5, <1>6, <1>7, <1>8, <1>9, <1>10, <1>11, <1>12, <1>13,
           <1>14, <1>15
        DEF Next, Supervises, Look, Orchestrates

LEMMA BegunStep ==
    ASSUME Begun, boot \in Nat, minted \in Nat, [Next]_vars
    PROVE  Begun'
<1> USE DEF Begun, Goto, InBootStep, InWatch, InFinalize, loop, tokens
<1>1. CASE KillCheck
  BY <1>1 DEF KillCheck
<1>2. CASE Mint
  BY <1>2 DEF Mint
<1>3. CASE Rotate \/ Provision \/ Start \/ Booted \/ LeaseRenewal
  BY <1>3 DEF Rotate, Provision, Start, Booted, LeaseRenewal
<1>4. CASE BootThrows
  BY <1>4 DEF BootThrows
<1>5. CASE Context \/ KillRevoke \/ EndedLine \/ Destroy \/ Record \/ Progress
  BY <1>5 DEF Context, KillRevoke, EndedLine, Destroy, Record, Progress
<1>6. CASE FinRevoke \/ FinRow \/ FinWorkers \/ FinSweep \/ FinalizeThrows
  BY <1>6 DEF FinRevoke, FinRow, FinWorkers, FinSweep, FinalizeThrows
<1>7. CASE StepThrows \/ InstanceLost
  BY <1>7 DEF StepThrows, InstanceLost, Leave
<1>8. CASE Wait \/ Ask \/ Tripped \/ Unanswered \/ StillRunning \/ Settled
  BY <1>8 DEF Wait, Ask, Tripped, Unanswered, StillRunning, Hold, Settled, Leave
<1>9. CASE Over \/ Linger \/ CutOff \/ Drain \/ CutClean \/ DrainOut
  BY <1>9 DEF Over, Linger, Concludes, CutOff, Drain, CutClean, DrainOut, Leave
<1>10. CASE Orchestrates \/ StopRun \/ Sweep
  BY <1>10, Elsewhere
<1>11. CASE UNCHANGED vars
  BY <1>11 DEF vars
<1> QED BY <1>1, <1>2, <1>3, <1>4, <1>5, <1>6, <1>7, <1>8, <1>9, <1>10, <1>11
        DEF Next, Supervises, Look, Fails

\* What a step leaves alone when it touches nothing of the world's but containers
\* and processes.
LEMMA WorldKept ==
    ASSUME WorldOK, UNCHANGED <<exit, haltLine, said, mail, stop, stopper, stops, row>>
    PROVE  WorldOK'
BY DEF WorldOK

LEMMA WorldIdle ==
    ASSUME \/ Provision \/ Start \/ Booted \/ LeaseRenewal
           \/ Ask \/ Tripped \/ Unanswered \/ StillRunning \/ Settled
    PROVE  UNCHANGED <<exit, haltLine, said, mail, stop, stopper, stops, row>>
BY DEF Provision, Start, Booted, LeaseRenewal, Ask, Tripped, Unanswered, StillRunning, Hold,
       Settled, world, asked

LEMMA WorldStep ==
    ASSUME WorldOK, Judged, [Next]_vars
    PROVE  WorldOK'
<1>1. CASE Provision \/ Start \/ Booted \/ LeaseRenewal
  BY <1>1, WorldIdle, WorldKept
<1>2. CASE Ask \/ Tripped \/ Unanswered \/ StillRunning \/ Settled
  BY <1>2, WorldIdle, WorldKept
<1>3. CASE Wait
  <2>1. UNCHANGED <<exit, haltLine, said, stop, stopper, stops, row>>
    BY <1>3 DEF Wait, asked
  <2>2. mail' = mail \/ (mail # <<>> /\ mail' = Tail(mail))
    BY <1>3 DEF Wait
  <2>3. mail \in Seq(Codes)
    BY DEF WorldOK
  <2>4. mail # <<>> => Tail(mail) \in Seq(Codes)
    BY <2>3
  <2> QED BY <2>1, <2>2, <2>3, <2>4 DEF WorldOK
<1>4. CASE Context \/ KillCheck \/ KillRevoke \/ Rotate \/ Mint
  <2>1. UNCHANGED <<mail, stop, stopper, stops>>
    BY <1>4 DEF Context, KillCheck, KillRevoke, Rotate, Mint, world, asked
  <2>2. /\ exit' \in {exit, "none"} /\ haltLine' \in {haltLine, FALSE}
        /\ said' \in {said, "none"} /\ row' \in {row, "running"}
    BY <1>4 DEF Context, KillCheck, KillRevoke, Rotate, Mint, world, asked
  <2> QED BY <2>1, <2>2 DEF WorldOK, Active
<1> USE ConstantsAssumption DEF WorldOK, world, asked, Ends, Active, Verdicts
<1>5. CASE Over \/ Linger \/ CutOff \/ Drain \/ CutClean \/ DrainOut
  BY <1>5 DEF Over, Linger, Concludes, CutOff, Drain, CutClean, DrainOut
<1>6. CASE EndedLine \/ Destroy \/ Record \/ Progress
  BY <1>6 DEF EndedLine, Destroy, Record, Progress
<1>7. CASE FinRow
  BY <1>7 DEF FinRow, Judged, InFinalize
<1>8. CASE FinRevoke \/ FinWorkers \/ FinSweep \/ Fails
  BY <1>8 DEF FinRevoke, FinWorkers, FinSweep, Fails, BootThrows, StepThrows, FinalizeThrows,
              InstanceLost
<1>9. CASE Halts \/ OrphanExits \/ ContainerReplaced \/ Dispatches \/ WorkerEnds
  BY <1>9 DEF Halts, OrphanExits, ContainerReplaced, Dispatches, WorkerEnds
<1>10. CASE Reports
  <2>1. PICK code \in Codes : said' = code /\ mail' = Append(mail, code)
    BY <1>10 DEF Reports
  <2> QED BY <1>10, <2>1 DEF Reports
<1>11. CASE ProcessExits
  BY <1>11 DEF ProcessExits
<1>12. CASE StopAsked \/ StopRecorded
  BY <1>12 DEF StopAsked, StopRecorded
<1>13. CASE StopRevokes \/ StopFlips \/ StopChecks \/ StopLost \/ Sweep
  BY <1>13 DEF StopRevokes, StopFlips, StopChecks, StopLost, Sweep
<1>14. CASE UNCHANGED vars
  BY <1>14 DEF vars
<1> QED BY <1>1, <1>2, <1>3, <1>4, <1>5, <1>6, <1>7, <1>8, <1>9, <1>10, <1>11, <1>12, <1>13,
           <1>14
        DEF Next, Supervises, Look, Orchestrates, StopRun

TypeInv == TypeOK /\ Judged /\ Begun

LEMMA TypeInit == ASSUME Init PROVE TypeInv
<1>1. mail \in Seq(Codes) /\ workers \in [Workers -> {"none", "live", "cut", "ended"}]
  BY DEF Init
<1>2. LooksOK
  BY DEF Init, Fresh, LooksOK
<1>3. HoldingsOK
  BY <1>1 DEF Init, HoldingsOK
<1>4. SupervisorOK
  BY DEF Init, SupervisorOK, Steps
<1>5. WorldOK
  <2>1. stops \in 0..MaxStops
    BY ConstantsAssumption DEF Init
  <2> QED BY <1>1, <2>1 DEF Init, WorldOK, Active
<1>6. Judged /\ Begun
  BY DEF Init, Judged, Begun, InBootStep, InFinalize
<1> QED BY <1>2, <1>3, <1>4, <1>5, <1>6 DEF TypeInv, TypeOK

LEMMA TypeStep == ASSUME TypeInv, [Next]_vars PROVE TypeInv'
<1>1. exit \in Ends \cup {"none"} /\ mail \in Seq(Codes) /\ stop \in {"none", "clean", "hard"}
  BY DEF TypeInv, TypeOK, WorldOK
<1>2. boot \in Nat /\ minted \in Nat
  BY DEF TypeInv, TypeOK, SupervisorOK, HoldingsOK
<1> QED BY <1>1, <1>2, SupervisorStep, LooksStep, HoldingsStep, BegunStep, WorldStep
        DEF TypeInv, TypeOK

\* The state keeps its shape, whatever fails and whoever steps in between: every
\* credential and process is of a mint and a boot that were counted, and a run
\* is recorded as ended only with an outcome.
THEOREM TypeCorrect == Spec => []TypeOK
<1>1. TypeInv => TypeOK
  BY DEF TypeInv
<1> QED BY <1>1, TypeInit, TypeStep, PTL DEF Spec

-----------------------------------------------------------------------------
(* The credential *)

\* Nothing is live but the newest credential, and nothing while one is being
\* minted; each process holds its own, and only one to be started holds the
\* newest.
OneLive ==
    /\ live \subseteq {minted}
    /\ pc = "mint" => live = {}
    /\ \A p, q \in procs : p.token = q.token => p = q
    /\ pc \in {"provision", "start"} => \A p \in procs : p.token < minted

\* A step that leaves no more credentials or processes than there were, and
\* does not enter the boot step's middle.
LEMMA NoMore ==
    ASSUME OneLive, live' \subseteq live, procs' \subseteq procs, minted' = minted,
           pc' \notin {"mint", "provision", "start"} \/ pc' = pc
    PROVE  OneLive'
<1>1. live' \subseteq {minted'} /\ (pc' = "mint" => live' = {})
  BY DEF OneLive
<1>2. \A p, q \in procs' : p.token = q.token => p = q
  BY DEF OneLive
<1>3. pc' \in {"provision", "start"} => \A p \in procs' : p.token < minted'
  BY DEF OneLive
<1> QED BY <1>1, <1>2, <1>3 DEF OneLive

LEMMA Revoked ==
    ASSUME TriesToRevoke \/ RevokeAll \/ UNCHANGED <<live, workers>>
    PROVE  live' = {} \/ live' = live
BY DEF TriesToRevoke, RevokeAll

LEMMA OneLiveStep == ASSUME OneLive, TypeInv, [Next]_vars PROVE OneLive'
<1>1. CASE Rotate
  <2>1. live' = {} /\ procs' = procs /\ minted' = minted /\ pc' = "mint"
    BY <1>1 DEF Rotate, RevokeAll, Goto, world
  <2> QED BY <2>1 DEF OneLive
<1>2. CASE Mint
  <2>1. /\ live = {} /\ minted' = minted + 1 /\ live' = {minted'} /\ procs' = procs
        /\ pc' = "provision"
    BY <1>2 DEF Mint, Goto, OneLive
  <2>2. \A p \in procs : p.token <= minted /\ p.token \in Nat /\ minted \in Nat
    BY DEF TypeInv, TypeOK, HoldingsOK
  <2> QED BY <2>1, <2>2 DEF OneLive
<1>3. CASE Provision
  <2>1. live' = live /\ procs' = procs /\ minted' = minted /\ pc = "provision" /\ pc' = "start"
    BY <1>3 DEF Provision, Goto, tokens
  <2> QED BY <2>1 DEF OneLive
<1>4. CASE Start
  <2>1. /\ live' = live /\ procs' = procs \cup {Newest} /\ minted' = minted
        /\ pc = "start" /\ pc' = "answer"
    BY <1>4 DEF Start, Goto, tokens
  <2>2. \A p \in procs : p.token # minted
    BY <2>1 DEF OneLive, TypeInv, TypeOK, HoldingsOK
  <2>3. Newest.token = minted
    BY DEF Newest
  <2>4. \A p, q \in procs' : p.token = q.token => p = q
    BY <2>1, <2>2, <2>3 DEF OneLive
  <2> QED BY <2>1, <2>4 DEF OneLive
<1>5. CASE Context \/ KillCheck \/ KillRevoke \/ Booted \/ LeaseRenewal \/ BootThrows
  <2>1. live' \subseteq live
    BY <1>5, Revoked DEF Context, KillCheck, KillRevoke, Booted, LeaseRenewal, BootThrows, tokens
  <2>2. procs' = procs /\ minted' = minted /\ pc' \notin {"mint", "provision", "start"}
    BY <1>5 DEF Context, KillCheck, KillRevoke, Booted, LeaseRenewal, BootThrows, Goto, tokens,
                world
  <2> QED BY <2>1, <2>2, NoMore
<1>6. CASE Wait \/ Ask \/ Tripped \/ Unanswered \/ StillRunning \/ Settled
  <2>1. live' = live /\ procs' = procs /\ minted' = minted
        /\ pc' \notin {"mint", "provision", "start"}
    BY <1>6 DEF Wait, Ask, Tripped, Unanswered, StillRunning, Hold, Settled, Leave, Goto, tokens,
                world
  <2> QED BY <2>1, NoMore
<1>7. CASE Over \/ Linger \/ CutOff \/ Drain \/ CutClean \/ DrainOut
  <2>1. live' \subseteq live
    BY <1>7, Revoked DEF Over, Linger, Concludes, CutOff, Drain, CutClean, DrainOut, tokens
  <2>2. procs' \subseteq procs /\ minted' = minted /\ pc' \notin {"mint", "provision", "start"}
    BY <1>7 DEF Over, Linger, Concludes, CutOff, Drain, CutClean, DrainOut, KillsTheProcess,
                Leave, Goto, tokens, world
  <2> QED BY <2>1, <2>2, NoMore
<1>8. CASE EndedLine \/ Destroy \/ Record \/ Progress
  <2>1. live' = live /\ procs' \subseteq procs /\ minted' = minted
        /\ pc' \notin {"mint", "provision", "start"}
    BY <1>8 DEF EndedLine, Destroy, Destroys, Record, Progress, Goto, tokens, world
  <2> QED BY <2>1, NoMore
<1>9. CASE FinRevoke \/ FinRow \/ FinWorkers \/ FinSweep
  <2>1. live' \subseteq live
    BY <1>9, Revoked DEF FinRevoke, FinRow, FinWorkers, FinSweep, tokens
  <2>2. procs' \subseteq procs /\ minted' = minted /\ pc' \notin {"mint", "provision", "start"}
    BY <1>9 DEF FinRevoke, FinRow, FinWorkers, FinSweep, Destroys, Goto, tokens, world
  <2> QED BY <2>1, <2>2, NoMore
<1>10. CASE StepThrows \/ FinalizeThrows \/ InstanceLost
  <2>1. live' = live /\ procs' = procs /\ minted' = minted
        /\ pc' \notin {"mint", "provision", "start"}
    BY <1>10 DEF StepThrows, FinalizeThrows, InstanceLost, Leave, Goto, tokens, world
  <2> QED BY <2>1, NoMore
<1>11. CASE Orchestrates
  <2>1. live' = live /\ procs' \subseteq procs /\ minted' = minted /\ pc' = pc
    BY <1>11 DEF Orchestrates, Halts, Reports, ProcessExits, OrphanExits, ContainerReplaced,
                 Dispatches, WorkerEnds, tokens, world
  <2> QED BY <2>1, NoMore
<1>12. CASE StopRun \/ Sweep
  <2>1. live' \subseteq live
    BY <1>12, Revoked DEF StopRun, StopAsked, StopRecorded, StopRevokes, StopFlips, StopChecks,
                          StopLost, Sweep, tokens
  <2>2. procs' = procs /\ minted' = minted /\ pc' = pc
    BY <1>12 DEF StopRun, StopAsked, StopRecorded, StopRevokes, StopFlips, StopChecks, StopLost,
                 Sweep, tokens, world
  <2> QED BY <2>1, <2>2, NoMore
<1>13. CASE UNCHANGED vars
  BY <1>13, NoMore DEF vars, tokens, world
<1> QED BY <1>1, <1>2, <1>3, <1>4, <1>5, <1>6, <1>7, <1>8, <1>9, <1>10, <1>11, <1>12, <1>13
        DEF Next, Supervises, Look, Fails

LEMMA OneLiveHolds == Spec => [](TypeInv /\ OneLive)
<1>1. Init => OneLive
  BY DEF Init, OneLive
<1> QED BY <1>1, TypeInit, TypeStep, OneLiveStep, PTL DEF Spec

\* At most one orchestrator process can spend: however the tries of a boot step,
\* its retries, a crash and the boot after it, a stop and the sweep interleave.
THEOREM AtMostOneSpends == Spec => []OneSpender
<1>1. TypeInv /\ OneLive => OneSpender
  BY DEF OneLive, OneSpender, Spends
<1> QED BY <1>1, OneLiveHolds, PTL

\* The supervisor's rotation implements Credential: a credential is issued only
\* over the grave of every earlier one, and no step brings one back.
THEOREM RotationIsSound == Spec => ImplementsCredential
<1>1. Init => Orchestrator!Init
  BY DEF Init, Orchestrator!Init
<1>2. ASSUME OneLive, [Next]_vars PROVE [Orchestrator!Next]_Orchestrator!vars
  <2>1. CASE Mint
    BY <1>2, <2>1 DEF Mint, OneLive, Orchestrator!Next, Orchestrator!Issue
  <2>2. CASE ~Mint
    <3>1. minted' = minted /\ (live' = {} \/ live' = live)
      <4>1. CASE KillRevoke \/ Rotate \/ CutOff \/ CutClean \/ FinRevoke
        BY <4>1, Revoked DEF KillRevoke, Rotate, CutOff, CutClean, FinRevoke
      <4>2. CASE StopRun \/ Sweep
        BY <4>2, Revoked DEF StopRun, StopAsked, StopRecorded, StopRevokes, StopFlips,
                             StopChecks, StopLost, Sweep, tokens
      <4>3. CASE Context \/ KillCheck \/ Provision \/ Start \/ Booted \/ LeaseRenewal \/ Fails
        BY <4>3 DEF Context, KillCheck, Provision, Start, Booted, LeaseRenewal, Fails, BootThrows,
                    StepThrows, FinalizeThrows, InstanceLost, tokens
      <4>4. CASE Wait \/ Ask \/ Tripped \/ Unanswered \/ StillRunning \/ Settled
        BY <4>4 DEF Wait, Ask, Tripped, Unanswered, StillRunning, Hold, Settled, tokens
      <4>5. CASE Over \/ Linger \/ Drain \/ DrainOut
        BY <4>5 DEF Over, Linger, Concludes, Drain, DrainOut, tokens
      <4>6. CASE EndedLine \/ Destroy \/ Record \/ Progress \/ FinRow \/ FinWorkers \/ FinSweep
        BY <4>6 DEF EndedLine, Destroy, Record, Progress, FinRow, FinWorkers, FinSweep, tokens
      <4>7. CASE Orchestrates
        BY <4>7 DEF Orchestrates, Halts, Reports, ProcessExits, OrphanExits, ContainerReplaced,
                    Dispatches, WorkerEnds, tokens
      <4>8. CASE UNCHANGED vars
        BY <4>8 DEF vars, tokens
      <4> QED BY <1>2, <2>2, <4>1, <4>2, <4>3, <4>4, <4>5, <4>6, <4>7, <4>8
              DEF Next, Supervises, Look
    <3> QED BY <3>1 DEF Orchestrator!Next, Orchestrator!Revoke, Orchestrator!vars
  <2> QED BY <2>1, <2>2
<1> QED BY <1>1, <1>2, OneLiveHolds, PTL DEF Spec, ImplementsCredential, Orchestrator!Spec

-----------------------------------------------------------------------------
(* The hard stop, the grace of a clean one, and what a run leaves behind *)

\* While no read of the stop record fails, a hard stop stands, and no boot is
\* counted over it.
THEOREM HardStopStands ==
    ASSUME "blind" \notin Faults
    PROVE  Spec => HardStopIsARefusal
<1>1. ASSUME [Next]_vars, stop = "hard" PROVE stop' = "hard" /\ boot' = boot
  <2>1. CASE KillCheck
    BY <1>1, <2>1 DEF KillCheck, StopRead, asked
  <2>2. CASE StopRun \/ Sweep
    BY <1>1, <2>2 DEF StopRun, StopAsked, StopRecorded, StopRevokes, StopFlips, StopChecks,
                      StopLost, Sweep, asked, loop
  <2>3. CASE Context \/ KillRevoke \/ Rotate \/ Mint \/ Provision \/ Start \/ Booted
               \/ LeaseRenewal \/ Fails
    BY <1>1, <2>3 DEF Context, KillRevoke, Rotate, Mint, Provision, Start, Booted, LeaseRenewal,
                      Fails, BootThrows, StepThrows, FinalizeThrows, InstanceLost, asked, loop
  <2>4. CASE Wait \/ Ask \/ Tripped \/ Unanswered \/ StillRunning \/ Settled
    BY <1>1, <2>4 DEF Wait, Ask, Tripped, Unanswered, StillRunning, Hold, Settled, asked, loop
  <2>5. CASE Over \/ Linger \/ CutOff \/ Drain \/ CutClean \/ DrainOut
    BY <1>1, <2>5 DEF Over, Linger, Concludes, CutOff, Drain, CutClean, DrainOut, asked, loop
  <2>6. CASE EndedLine \/ Destroy \/ Record \/ Progress \/ FinRevoke \/ FinRow \/ FinWorkers
               \/ FinSweep
    BY <1>1, <2>6 DEF EndedLine, Destroy, Record, Progress, FinRevoke, FinRow, FinWorkers,
                      FinSweep, asked, loop
  <2>7. CASE Orchestrates
    BY <1>1, <2>7 DEF Orchestrates, Halts, Reports, ProcessExits, OrphanExits,
                      ContainerReplaced, Dispatches, WorkerEnds, asked, loop
  <2>8. CASE UNCHANGED vars
    BY <1>1, <2>8 DEF vars, asked, loop
  <2> QED BY <1>1, <2>1, <2>2, <2>3, <2>4, <2>5, <2>6, <2>7, <2>8 DEF Next, Supervises, Look
<1> QED BY <1>1, PTL DEF Spec, HardStopIsARefusal

\* The boot being watched, or booted, is the only one there is.
Alone ==
    /\ pc \in {"context", "killcheck"} => procs = {}
    /\ pc \in InBootStep \cup InWatch \cup {"booted", "ended", "destroy"}
         => \A p \in procs : p.boot = boot

\* While destroy is answered, no boot is credentialled beside a process of an
\* earlier one, whatever kill did and however often the boot step was tried.
THEOREM NoneIsBeside ==
    ASSUME "destroy" \notin Faults
    PROVE  Spec => []NoneBesideTheNext
<1> USE DEF Alone, Goto, InBootStep, InWatch, InFinalize
<1>1. Init => Alone
  BY DEF Init
<1>2. ASSUME Alone, [Next]_vars PROVE Alone'
  <2>1. CASE Context \/ KillCheck \/ KillRevoke
    BY <1>2, <2>1 DEF Context, KillCheck, KillRevoke, world, loop
  <2>2. CASE Rotate \/ Mint \/ Provision \/ Booted \/ LeaseRenewal
    BY <1>2, <2>2 DEF Rotate, Mint, Provision, Booted, LeaseRenewal, world, loop
  <2>3. CASE Start
    BY <1>2, <2>3 DEF Start, Newest, loop
  <2>4. CASE Wait \/ Ask \/ Tripped \/ Unanswered \/ StillRunning \/ Settled
    <3>1. procs' = procs /\ boot' = boot
      BY <2>4 DEF Wait, Ask, Tripped, Unanswered, StillRunning, Hold, Settled, world, loop
    <3>2. pc \in InWatch /\ pc' \notin {"context", "killcheck"}
      BY <2>4 DEF Wait, Ask, Tripped, Unanswered, Untripped, StillRunning, Hold, Settled, Leave
    <3> QED BY <1>2, <3>1, <3>2
  <2>5. CASE Over \/ Linger \/ CutOff \/ Drain \/ CutClean \/ DrainOut
    <3>1. procs' \subseteq procs /\ boot' = boot
      BY <2>5 DEF Over, Linger, Concludes, CutOff, Drain, CutClean, DrainOut, KillsTheProcess,
                  world, loop
    <3>2. pc \in InWatch /\ pc' \notin {"context", "killcheck"}
      BY <2>5 DEF Over, Untripped, Linger, Concludes, CutOff, Drain, CutClean, DrainOut, Leave
    <3> QED BY <1>2, <3>1, <3>2
  <2>6. CASE Destroy
    <3>1. \A p \in procs' : p.boot # boot /\ p \in procs
      BY <2>6 DEF Destroy, Destroys
    <3>2. procs' = {}
      BY <1>2, <2>6, <3>1 DEF Destroy
    <3> QED BY <2>6, <3>2 DEF Destroy
  <2>7. CASE EndedLine \/ Record \/ Progress \/ FinRevoke \/ FinRow \/ FinWorkers \/ FinSweep
    BY <1>2, <2>7 DEF EndedLine, Record, Progress, FinRevoke, FinRow, FinWorkers, FinSweep, world,
                      loop
  <2>8. CASE Fails
    BY <1>2, <2>8 DEF Fails, BootThrows, StepThrows, FinalizeThrows, InstanceLost, Leave, world,
                      loop, Ended
  <2>9. CASE Orchestrates \/ StopRun \/ Sweep
    <3>1. pc' = pc /\ boot' = boot
      BY <2>9, Elsewhere DEF loop
    <3>2. procs' \subseteq procs
      BY <2>9 DEF Orchestrates, Halts, Reports, ProcessExits, OrphanExits, ContainerReplaced,
                  Dispatches, WorkerEnds, StopRun, StopAsked, StopRecorded, StopRevokes, StopFlips,
                  StopChecks, StopLost, Sweep, world
    <3> QED BY <1>2, <3>1, <3>2
  <2>10. CASE UNCHANGED vars
    BY <1>2, <2>10 DEF vars, world, loop
  <2> QED BY <1>2, <2>1, <2>2, <2>3, <2>4, <2>5, <2>6, <2>7, <2>8, <2>9, <2>10
          DEF Next, Supervises, Look
<1>3. Alone => NoneBesideTheNext
  BY DEF NoneBesideTheNext
<1> QED BY <1>1, <1>2, <1>3, PTL DEF Spec

\* What finalize has already given back stays given back.
Quiet ==
    /\ pc \in {"fin_row", "fin_workers", "fin_sweep", "complete"} => live = {}
    /\ pc = "complete" => up = {} /\ procs = {}

\* While the calls that give them back are answered, a finished run leaves no
\* live credential and no container behind, of any boot it counted, however it
\* ended.
THEOREM FinishedIsQuiet ==
    ASSUME "destroy" \notin Faults, "revoke" \notin Faults
    PROVE  Spec => []EndedIsQuiet
<1> USE DEF Quiet, Goto
<1>1. Init => Quiet
  BY DEF Init
<1>2. ASSUME Quiet, TypeInv, [Next]_vars PROVE Quiet'
  <2>1. CASE FinRevoke
    <3>1. live' = {} /\ pc' = "fin_row"
      BY <2>1 DEF FinRevoke, TriesToRevoke, RevokeAll
    <3> QED BY <3>1
  <2>2. CASE FinRow \/ FinWorkers
    BY <1>2, <2>2 DEF FinRow, FinWorkers, tokens
  <2>3. CASE FinSweep
    <3>1. live' = {} /\ Destroys(1..boot)
      BY <1>2, <2>3 DEF FinSweep, tokens
    <3>2. up \subseteq 1..boot /\ \A p \in procs : p.boot \in 1..boot
      BY <1>2 DEF TypeInv, TypeOK, HoldingsOK
    <3>3. up' = {} /\ procs' = {}
      BY <3>1, <3>2 DEF Destroys
    <3> QED BY <3>1, <3>3
  <2>4. CASE Context \/ KillCheck \/ KillRevoke \/ Rotate \/ Mint \/ Provision \/ Start \/ Booted
               \/ LeaseRenewal \/ Fails
    <3>1. pc' \notin {"fin_row", "fin_workers", "fin_sweep", "complete"}
      BY <2>4 DEF Context, KillCheck, KillRevoke, Rotate, Mint, Provision, Start, Booted,
                  LeaseRenewal, Fails, BootThrows, StepThrows, FinalizeThrows, InstanceLost, Leave
    <3> QED BY <3>1
  <2>5. CASE Wait \/ Ask \/ Tripped \/ Unanswered \/ StillRunning \/ Settled
    <3>1. pc' \notin {"fin_row", "fin_workers", "fin_sweep", "complete"}
      BY <2>5 DEF Wait, Ask, Tripped, Unanswered, StillRunning, Hold, Settled, Leave
    <3> QED BY <3>1
  <2>6. CASE Over \/ Linger \/ CutOff \/ Drain \/ CutClean \/ DrainOut \/ EndedLine \/ Destroy
               \/ Record \/ Progress
    <3>1. pc' \notin {"fin_row", "fin_workers", "fin_sweep", "complete"}
      BY <2>6 DEF Over, Linger, Concludes, CutOff, Drain, CutClean, DrainOut, Leave, EndedLine,
                  Destroy, Record, Progress
    <3> QED BY <3>1
  <2>7. CASE Orchestrates
    <3>1. pc' = pc /\ up' = up /\ live' = live /\ procs' \subseteq procs
      BY <2>7 DEF Orchestrates, Halts, Reports, ProcessExits, OrphanExits, ContainerReplaced,
                  Dispatches, WorkerEnds, world, tokens
    <3> QED BY <1>2, <3>1
  <2>8. CASE StopRun \/ Sweep
    <3>1. live' = {} \/ live' = live
      BY <2>8, Revoked DEF StopRun, StopAsked, StopRecorded, StopRevokes, StopFlips, StopChecks,
                           StopLost, Sweep, tokens
    <3>2. pc' = pc /\ up' = up /\ procs' = procs
      BY <2>8 DEF StopRun, StopAsked, StopRecorded, StopRevokes, StopFlips, StopChecks, StopLost,
                  Sweep, world
    <3> QED BY <1>2, <3>1, <3>2
  <2>9. CASE UNCHANGED vars
    BY <1>2, <2>9 DEF vars, tokens, world
  <2> QED BY <1>2, <2>1, <2>2, <2>3, <2>4, <2>5, <2>6, <2>7, <2>8, <2>9 DEF Next, Supervises, Look
<1>3. Quiet => EndedIsQuiet
  BY DEF EndedIsQuiet
<1> QED BY <1>1, <1>2, <1>3, OneLiveHolds, PTL DEF Spec

\* A booted orchestrator holds the newest credential until a hard stop, or the
\* trip that ends its watch, takes it; a stop that revokes is a hard one.
Credentialled ==
    /\ stopper = "revoke" => stop = "hard"
    /\ pc = "cutoff" => trip = "hard"
    /\ (\/ pc \in {"provision", "start", "answer", "booted", "wait", "ask", "judge", "linger",
                   "drainout"}
        \/ pc = "drain" /\ trip = "clean")
       => minted \in live \/ stop = "hard"

\* Nothing revokes under a watched orchestrator, or in the grace window of a
\* clean stop, but a hard stop: whoever stops, sweeps, retries or crashes.
THEOREM GraceIsKept == Spec => []CleanStopKeepsItsGrace
<1> USE DEF Credentialled, Goto
<1>1. Init => Credentialled
  BY DEF Init
<1>2. ASSUME Credentialled, TypeInv, [Next]_vars PROVE Credentialled'
  <2>1. CASE Mint
    BY <1>2, <2>1 DEF Mint, asked
  <2>2. CASE Provision \/ Start \/ Booted \/ LeaseRenewal
    BY <1>2, <2>2 DEF Provision, Start, Booted, LeaseRenewal, tokens, asked, ending
  <2>3. CASE Wait \/ Ask \/ StillRunning \/ Settled
    BY <1>2, <2>3 DEF Wait, Ask, StillRunning, Settled, Hold, Untripped, tokens, asked
  <2>4. CASE Unanswered
    BY <1>2, <2>4 DEF Unanswered, Hold, Untripped, Leave, tokens, asked
  <2>5. CASE Tripped
    BY <1>2, <2>5 DEF Tripped, tokens, asked
  <2>6. CASE CutOff
    <3>1. trip = "hard" /\ UNCHANGED <<trip, asked>> /\ pc' = "drain"
      BY <1>2, <2>6 DEF CutOff, ending
    <3> QED BY <1>2, <3>1 DEF asked
  <2>7. CASE Context \/ KillCheck \/ KillRevoke \/ Rotate \/ BootThrows
    <3>1. /\ pc' \notin {"provision", "start", "answer", "booted", "wait", "ask", "judge",
                         "linger", "drainout", "drain", "cutoff"}
          /\ UNCHANGED asked
      BY <2>7 DEF Context, KillCheck, KillRevoke, Rotate, BootThrows
    <3> QED BY <1>2, <3>1 DEF asked
  <2>8. CASE Over \/ Linger \/ Drain \/ CutClean \/ DrainOut \/ EndedLine \/ Destroy
    <3>1. /\ pc' \notin {"provision", "start", "answer", "booted", "wait", "ask", "judge",
                         "linger", "drainout", "drain", "cutoff"}
          /\ UNCHANGED asked
      BY <2>8 DEF Over, Linger, Concludes, Drain, CutClean, DrainOut, Leave, EndedLine, Destroy,
                  asked
    <3> QED BY <1>2, <3>1 DEF asked
  <2>9. CASE Record \/ Progress \/ FinRevoke \/ FinRow \/ FinWorkers \/ FinSweep
    <3>1. /\ pc' \notin {"provision", "start", "answer", "booted", "wait", "ask", "judge",
                         "linger", "drainout", "drain", "cutoff"}
          /\ UNCHANGED asked
      BY <2>9 DEF Record, Progress, FinRevoke, FinRow, FinWorkers, FinSweep
    <3> QED BY <1>2, <3>1 DEF asked
  <2>10. CASE StepThrows \/ FinalizeThrows \/ InstanceLost
    <3>1. /\ pc' \notin {"provision", "start", "answer", "booted", "wait", "ask", "judge",
                         "linger", "drainout", "drain", "cutoff"}
          /\ UNCHANGED asked
      BY <2>10 DEF StepThrows, FinalizeThrows, InstanceLost, Leave
    <3> QED BY <1>2, <3>1 DEF asked
  <2>11. CASE Orchestrates
    <3>1. UNCHANGED <<pc, live, minted, trip, asked>>
      BY <2>11 DEF Orchestrates, Halts, Reports, ProcessExits, OrphanExits, ContainerReplaced,
                   Dispatches, WorkerEnds, ending, tokens, world
    <3> QED BY <1>2, <3>1 DEF asked
  <2>12. CASE StopAsked \/ StopFlips \/ StopLost
    BY <1>2, <2>12 DEF StopAsked, StopFlips, StopLost, ending, tokens
  <2>13. CASE StopRecorded
    BY <1>2, <2>13 DEF StopRecorded, ending, tokens
  <2>14. CASE StopRevokes
    BY <1>2, <2>14 DEF StopRevokes, ending
  <2>15. CASE StopChecks
    BY <1>2, <2>15 DEF StopChecks, ending, Ended
  <2>16. CASE Sweep
    BY <1>2, <2>16 DEF Sweep, ending, Ended, asked
  <2>17. CASE UNCHANGED vars
    BY <1>2, <2>17 DEF vars, ending, tokens, asked
  <2> QED BY <1>2, <2>1, <2>2, <2>3, <2>4, <2>5, <2>6, <2>7, <2>8, <2>9, <2>10, <2>11, <2>12,
             <2>13, <2>14, <2>15, <2>16, <2>17
          DEF Next, Supervises, Look, Fails, StopRun
<1>3. Credentialled => CleanStopKeepsItsGrace
  BY DEF CleanStopKeepsItsGrace
<1> QED BY <1>1, <1>2, <1>3, OneLiveHolds, PTL DEF Spec
==================================================
