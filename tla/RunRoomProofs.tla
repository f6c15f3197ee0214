--------------------------- MODULE RunRoomProofs ---------------------------
(***************************************************************************)
(* Theorems about RunRoom for every set of runs, every pattern of epics,   *)
(* windows and lease lengths: the shape of the state, that a live lease is *)
(* never taken from its holder, that a superseded holder stays out, that   *)
(* the room never sleeps on a lease, and that what waits is not dropped    *)
(* behind a holder, with every fault allowed; and that one run holds the   *)
(* project at a time, where the room's ignitions end within their lease    *)
(* and none is lost or fails half done.                                    *)
(***************************************************************************)
EXTENDS RunRoom, WellFoundedInduction, TLAPS

-----------------------------------------------------------------------------
(* Helpers *)

\* A nonempty set of deadlines has an earliest one.
LEMMA Earliest ==
    ASSUME NEW times \in SUBSET Nat, times # {}
    PROVE  Min(times) \in times
<1> DEFINE less == {ss \in Nat \X Nat : ss[1] < ss[2]}
<1>1. IsWellFoundedOn(less, Nat)
  BY NatLessThanWellFounded DEF OpToRel
<1>2. PICK m \in times : \A x \in times : ~ (<<x, m>> \in less)
  <2> HIDE DEF less
  <2> QED BY <1>1, WFMin
<1>3. ASSUME NEW x \in times PROVE m <= x
  <2>1. m \in Nat /\ x \in Nat
    OBVIOUS
  <2>2. ~ (x < m)
    BY <1>2, <2>1
  <2> QED BY <2>1, <2>2
<1> QED BY <1>3 DEF Min

LEMMA LaterType == ASSUME NEW a \in Nat, NEW b \in Nat
                   PROVE  Later(a, b) \in Nat
BY DEF Later

LEMMA AlarmType ==
    ASSUME NEW row \in Rows(Runs) \cup {NoLease}, NEW rows \in SUBSET Entries
    PROVE  NextAlarm(row, rows) \in Nat \cup {NoAlarm}
<1> DEFINE deadlines == {y.until : y \in {row} \ {NoLease}} \cup
                        {e.until : e \in {f \in rows : ~f.waits \/ row = NoLease}}
<1>1. deadlines \in SUBSET Nat
  BY DEF Rows, Entries
<1>2. CASE deadlines = {}
  BY <1>2 DEF NextAlarm
<1>3. CASE deadlines # {}
  <2>1. Min(deadlines) \in Nat
    <3> HIDE DEF deadlines
    <3> QED BY <1>1, <1>3, Earliest
  <2>2. NextAlarm(row, rows) = Min(deadlines)
    BY <1>3 DEF NextAlarm
  <2> QED BY <2>1, <2>2
<1> QED BY <1>2, <1>3

\* An alarm is set whenever a lease row stands.
LEMMA AlarmSet ==
    ASSUME NEW row \in Rows(Runs), NEW rows \in SUBSET Entries
    PROVE  NextAlarm(row, rows) # NoAlarm
<1> DEFINE deadlines == {y.until : y \in {row} \ {NoLease}} \cup
                        {e.until : e \in {f \in rows : ~f.waits \/ row = NoLease}}
<1>1. row # NoLease /\ NoAlarm \notin Nat
  BY ConstantsAssumption
<1>2. deadlines \in SUBSET Nat
  BY DEF Rows, Entries
<1>3. row.until \in deadlines
  BY <1>1
<1>4. Min(deadlines) \in Nat
  <2> HIDE DEF deadlines
  <2> QED BY <1>2, <1>3, Earliest
<1>5. NextAlarm(row, rows) = Min(deadlines)
  BY <1>3 DEF NextAlarm
<1> QED BY <1>1, <1>4, <1>5

\* One parked submission per epic.
OnePerEpic(rows) == \A e, f \in rows : EpicOf[e.run] = EpicOf[f.run] => e = f

QueueOK(rows) == rows \subseteq Entries /\ OnePerEpic(rows)

LEMMA Fewer ==
    ASSUME NEW rows, QueueOK(rows), NEW some \in SUBSET rows
    PROVE  QueueOK(some)
BY DEF QueueOK, OnePerEpic

LEMMA RunsInType == ASSUME NEW rows \in SUBSET Entries PROVE RunsIn(rows) \subseteq Runs
BY DEF RunsIn, Entries

LEMMA MovedType ==
    ASSUME NEW e \in Entries, NEW t \in Nat
    PROVE  [e EXCEPT !.until = t] \in Entries /\ [e EXCEPT !.until = t].run = e.run
BY DEF Entries

LEMMA RestartedOK ==
    ASSUME NEW rows, QueueOK(rows), now \in Nat
    PROVE  QueueOK(Restarted(rows))
<1> DEFINE New(e) == IF e.waits THEN [e EXCEPT !.until = Later(@, now + e.window)] ELSE e
<1>1. ASSUME NEW e \in rows PROVE New(e) \in Entries /\ New(e).run = e.run
  <2>1. e \in Entries /\ e.until \in Nat /\ e.window \in Nat
    BY DEF QueueOK, Entries
  <2>2. PICK t \in Nat : t = Later(e.until, now + e.window)
    <3> HIDE DEF New
    <3>1. now + e.window \in Nat
      BY <2>1
    <3> QED BY <2>1, <3>1, LaterType
  <2>3. New(e) = IF e.waits THEN [e EXCEPT !.until = t] ELSE e
    BY <2>2
  <2> HIDE DEF New
  <2> QED BY <2>1, <2>3, MovedType
<1>2. Restarted(rows) = {New(e) : e \in rows}
  BY DEF Restarted
<1> HIDE DEF New
<1>3. Restarted(rows) \subseteq Entries
  BY <1>1, <1>2
<1>4. ASSUME NEW e \in rows, NEW f \in rows, EpicOf[New(e).run] = EpicOf[New(f).run]
      PROVE  New(e) = New(f)
  BY <1>1, <1>4 DEF QueueOK, OnePerEpic
<1> QED BY <1>2, <1>3, <1>4 DEF QueueOK, OnePerEpic

-----------------------------------------------------------------------------
(* Handing the lease on *)

IInv == TypeOK /\ AlarmCovers

Fates == /\ slot' \in Rows(Runs) \cup {NoLease} /\ minted' \in Nat
         /\ QueueOK(queue') /\ boots' \subseteq Boots
         /\ alarm' \in Nat \cup {NoAlarm}
         /\ dropped' \subseteq Runs

LEMMA PastDueLess == ASSUME NEW rows, NEW row PROVE PastDue(rows, row) \subseteq rows
BY DEF PastDue

LEMMA HandOnOK ==
    ASSUME TypeOK, NEW rows, QueueOK(rows), NEW by \in {"release", "alarm"},
           NEW gone \in SUBSET Entries, NEW others \in SUBSET Boots,
           HandOn(rows, by, gone, others)
    PROVE  /\ Fates
           /\ slot' # NoLease => /\ slot'.token = minted + 1
                                 /\ by = "release" => alarm' = alarm
                                 /\ by = "alarm" => \E b \in boots' : b.by = "alarm"
           /\ others \subseteq boots'
<1> DEFINE fresh == Restarted(rows)
           late  == PastDue(fresh, NoLease)
           left  == fresh \ late
           old   == RunsIn(gone \cup late)
<1>1. QueueOK(fresh)
  BY RestartedOK DEF TypeOK
<1>2. late \subseteq fresh
  BY PastDueLess
<1>3. QueueOK(left) /\ left \subseteq Entries /\ old \in SUBSET Runs
  <2>1. QueueOK(left)
    <3> HIDE DEF fresh, late
    <3> QED BY <1>1, Fewer
  <2>2. gone \cup late \in SUBSET Entries
    <3> HIDE DEF fresh, late
    <3> QED BY <1>1, <1>2 DEF QueueOK
  <2>3. old \in SUBSET Runs
    <3> HIDE DEF fresh, late
    <3> QED BY <2>2, RunsInType
  <2> QED BY <2>1, <2>3 DEF QueueOK
<1>4. /\ queue' = left
      /\ dropped' = dropped \cup old
      /\ \/ /\ slot' = NoLease /\ boots' = others
            /\ alarm' = NextAlarm(NoLease, left)
            /\ minted' = minted
         \/ \E next \in left :
            /\ slot' = Row(next.run, minted + 1, now + IgniteTtl)
            /\ minted' = minted + 1
            /\ boots' = others \cup {[run |-> next.run, token |-> minted + 1, by |-> by, created |-> FALSE]}
            /\ alarm' = IF by = "alarm" THEN NoAlarm ELSE alarm
  BY DEF HandOn, Oldest
<1> HIDE DEF fresh, late, left, old
<1>5. /\ QueueOK(queue') /\ dropped' \subseteq Runs
      /\ minted' \in Nat /\ minted + 1 \in Nat
  BY <1>3, <1>4 DEF TypeOK
<1>6. CASE slot' = NoLease /\ boots' = others /\ alarm' = NextAlarm(NoLease, left)
  <2>1. alarm' \in Nat \cup {NoAlarm}
    BY <1>3, <1>6, AlarmType
  <2> QED BY <1>5, <1>6, <2>1 DEF Fates
<1>7. ASSUME NEW next \in left,
             slot' = Row(next.run, minted + 1, now + IgniteTtl),
             boots' = others \cup {[run |-> next.run, token |-> minted + 1, by |-> by, created |-> FALSE]},
             alarm' = IF by = "alarm" THEN NoAlarm ELSE alarm
      PROVE  /\ Fates
             /\ slot'.token = minted + 1
             /\ by = "alarm" => \E b \in boots' : b.by = "alarm"
  <2>1. next.run \in Runs
    BY <1>3 DEF Entries
  <2>2. now + IgniteTtl \in Nat
    BY ConstantsAssumption DEF TypeOK
  <2>3. slot' \in Rows(Runs) /\ slot'.token = minted + 1
    BY <1>5, <1>7, <2>1, <2>2 DEF Row, Rows
  <2>4. [run |-> next.run, token |-> minted + 1, by |-> by, created |-> FALSE] \in Boots
    BY <1>3, <1>5, <2>1 DEF Boots
  <2>5. boots' \subseteq Boots
    BY <1>7, <2>4
  <2>6. alarm' \in Nat \cup {NoAlarm}
    BY <1>7 DEF TypeOK
  <2>7. ASSUME by = "alarm" PROVE \E b \in boots' : b.by = "alarm"
    <3> DEFINE mine == [run |-> next.run, token |-> minted + 1, by |-> by, created |-> FALSE]
    <3>1. mine \in boots' /\ mine.by = "alarm"
      BY <1>7, <2>7
    <3> HIDE DEF mine
    <3> QED BY <3>1
  <2> QED BY <1>5, <2>3, <2>5, <2>6, <2>7 DEF Fates
<1> QED BY <1>4, <1>6, <1>7

\* A release, answered or refused, leaves the room in shape and covered.
LEMMA ReleaseOK ==
    ASSUME IInv, NEW r \in Runs, NEW token \in Nat, NEW others \in SUBSET boots,
           \A b \in boots : b.by = "alarm" => b \in others,
           ReleaseDispatchLease(r, token, others)
    PROVE  /\ Fates /\ AlarmCovers'
           /\ lapsed' \in [Runs -> Nat] /\ gaveup' \subseteq Nat
<1>1. TypeOK /\ AlarmCovers /\ others \in SUBSET Boots /\ QueueOK(queue)
  BY DEF IInv, TypeOK, QueueOK, OnePerEpic
<1>2. CASE Holds(slot, r, token)
  <2>1. /\ lapsed' = [lapsed EXCEPT ![r] = NoToken]
        /\ gaveup' = gaveup \cup {token}
        /\ HandOn(queue, "release", {}, others)
    BY <1>2 DEF ReleaseDispatchLease
  <2>2. /\ Fates /\ others \subseteq boots'
        /\ slot' # NoLease => alarm' = alarm
    <3>1. {} \in SUBSET Entries
      OBVIOUS
    <3> QED BY <1>1, <2>1, <3>1, HandOnOK
  <2>3. lapsed' \in [Runs -> Nat] /\ gaveup' \subseteq Nat
    BY <1>1, <2>1 DEF TypeOK, NoToken
  <2>4. alarm # NoAlarm \/ \E b \in others : b.by = "alarm"
    BY <1>1, <1>2 DEF Holds, AlarmCovers
  <2>5. AlarmCovers'
    BY <2>2, <2>4 DEF AlarmCovers
  <2> QED BY <2>2, <2>3, <2>5
<1>3. CASE ~Holds(slot, r, token)
  <2>1. boots' = others /\ UNCHANGED <<slot, lapsed, minted, queue, alarm, gaveup, dropped>>
    BY <1>3 DEF ReleaseDispatchLease, lease
  <2>2. AlarmCovers'
    BY <1>1, <2>1 DEF AlarmCovers
  <2> QED BY <1>1, <2>1, <2>2 DEF Fates, TypeOK
<1> QED BY <1>2, <1>3
-----------------------------------------------------------------------------
(* Every step keeps the invariant *)

LEMMA InitInv == Init => IInv
<1> SUFFICES ASSUME Init PROVE IInv
  OBVIOUS
<1>1. TypeOK
  <2>1. [r \in Runs |-> "new"] \in [Runs -> Phases]
    BY DEF Phases
  <2> QED BY <2>1 DEF Init, TypeOK, NoToken
<1>2. AlarmCovers
  BY DEF Init, AlarmCovers
<1> QED BY <1>1, <1>2 DEF IInv

\* The parts of the type that a step leaves alone.
LEMMA PhaseType ==
    ASSUME TypeOK, NEW r \in Runs, NEW p \in Phases, Becomes(r, p)
    PROVE  phase' \in [Runs -> Phases]
BY DEF TypeOK, Becomes

LEMMA AcquiredType ==
    ASSUME TypeOK, NEW r \in Runs, NEW fresh \in Nat
    PROVE  Acquired(slot, now, r, fresh, HoldTtl) \in Rows(Runs)
<1>1. now + HoldTtl \in Nat
  BY ConstantsAssumption DEF TypeOK
<1> QED BY <1>1 DEF TypeOK, Acquired, Row, Rows, Live

LEMMA SubmitInv == ASSUME IInv, NEW r \in Runs, Submit(r) PROVE IInv'
<1> USE DEF IInv
<1>1. minted + 1 \in Nat /\ slot \in Rows(Runs) \cup {NoLease}
  BY DEF TypeOK
<1>2. CASE Acquirable(slot, now, r)
  <2> DEFINE mine == [run |-> r, token |-> minted + 1, by |-> "submit", created |-> FALSE]
  <2>1. /\ slot' = Acquired(slot, now, r, minted + 1, HoldTtl)
        /\ minted' = minted + 1 /\ boots' = boots \cup {mine}
        /\ alarm' = NextAlarm(slot', queue) /\ Becomes(r, "submitted")
        /\ UNCHANGED <<now, lapsed, queue, cred, door, told, dropped>>
    BY <1>2 DEF Submit
  <2>2. slot' \in Rows(Runs)
    BY <1>1, <2>1, AcquiredType
  <2>3. mine \in Boots
    BY <1>1 DEF Boots
  <2>4. phase' \in [Runs -> Phases]
    BY <2>1, PhaseType DEF Phases
  <2>5. alarm' \in Nat \cup {NoAlarm} /\ alarm' # NoAlarm
    BY <2>1, <2>2, AlarmType, AlarmSet DEF TypeOK
  <2> HIDE DEF mine
  <2> QED BY <1>1, <2>1, <2>2, <2>3, <2>4, <2>5 DEF TypeOK, AlarmCovers, told
<1>3. CASE ~Acquirable(slot, now, r)
  <2>1. /\ Becomes(r, "refused")
        /\ UNCHANGED <<slot, minted, boots, alarm, now, lapsed, queue, cred, door, told, dropped>>
    BY <1>3 DEF Submit
  <2>2. phase' \in [Runs -> Phases]
    BY <2>1, PhaseType DEF Phases
  <2> QED BY <2>1, <2>2 DEF TypeOK, AlarmCovers, told
<1> QED BY <1>2, <1>3

LEMMA WidenedType ==
    ASSUME NEW e \in Entries, NEW f \in Entries
    PROVE  Widened(e, f) \in Entries /\ Widened(e, f).run = e.run
<1>1. PICK w \in Nat : w = Later(e.window, f.window)
  BY LaterType DEF Entries
<1>2. PICK u \in Nat : u = Later(e.until, f.until)
  BY LaterType DEF Entries
<1>3. PICK b \in BOOLEAN : b = (e.waits \/ f.waits)
  OBVIOUS
<1>4. Widened(e, f) = [e EXCEPT !.waits = b, !.window = w, !.until = u]
  BY <1>1, <1>2, <1>3, Zenon DEF Widened
<1> QED BY <1>4 DEF Entries

\* A repeat widens the one row that stands; a first park adds a row.
LEMMA JoinedOK ==
    ASSUME NEW rows, QueueOK(rows), NEW entry \in Entries
    PROVE  QueueOK(Joined(rows, entry))
<1> DEFINE same == ParkedAlready(rows, entry.run)
           wide == {Widened(e, entry) : e \in same}
<1>1. same = {e \in rows : EpicOf[e.run] = EpicOf[entry.run]}
  BY DEF ParkedAlready
<1>2. \A e \in rows : Widened(e, entry) \in Entries /\ Widened(e, entry).run = e.run
  BY WidenedType DEF QueueOK
<1>3. Joined(rows, entry) = IF same = {} THEN rows \cup {entry} ELSE (rows \ same) \cup wide
  BY DEF Joined
<1> HIDE DEF same
<1>4. CASE same = {}
  <2>1. QueueOK(rows \cup {entry})
    BY <1>1, <1>4 DEF QueueOK, OnePerEpic
  <2> QED BY <1>3, <1>4, <2>1
<1>5. CASE same # {}
  <2>1. wide \subseteq Entries /\ \A w \in wide : EpicOf[w.run] = EpicOf[entry.run]
    BY <1>1, <1>2
  <2>2. \A v, w \in wide : v = w
    BY <1>1 DEF QueueOK, OnePerEpic
  <2>3. \A e \in rows \ same : EpicOf[e.run] # EpicOf[entry.run]
    BY <1>1
  <2> HIDE DEF wide
  <2>4. QueueOK((rows \ same) \cup wide)
    BY <2>1, <2>2, <2>3 DEF QueueOK, OnePerEpic
  <2> QED BY <1>3, <1>5, <2>4
<1> QED BY <1>4, <1>5
\* The queue's part of the type, in both directions.
LEMMA QueueType == TypeOK => QueueOK(queue) /\ queue \in SUBSET Entries
BY DEF TypeOK, QueueOK, OnePerEpic

LEMMA ParkInv == ASSUME IInv, NEW r \in Runs, Park(r) PROVE IInv'
<1> DEFINE gone == PastDue(queue, slot)
           mine == [run |-> r, at |-> now, until |-> now + Window[r],
                    waits |-> r \in WaitsFor, window |-> Window[r]]
<1>1. TypeOK /\ AlarmCovers /\ QueueOK(queue)
  BY QueueType DEF IInv
<1>2. /\ queue' = Joined(queue \ gone, mine)
      /\ dropped' = dropped \cup RunsIn(gone)
      /\ alarm' = NextAlarm(slot, queue')
      /\ Becomes(r, "submitted")
      /\ UNCHANGED <<now, lease, boots, cred, door, told>>
  BY DEF Park
<1>3. gone \in SUBSET queue /\ RunsIn(gone) \subseteq Runs
  BY <1>1, PastDueLess, RunsInType DEF QueueOK
<1>4. mine \in Entries
  <2>1. Window[r] \in Nat
    BY ConstantsAssumption
  <2> QED BY <1>1, <2>1 DEF TypeOK, Entries
<1> HIDE DEF gone, mine
<1>5. QueueOK(queue \ gone)
  BY <1>1, Fewer
<1>6. QueueOK(queue')
  BY <1>2, <1>4, <1>5, JoinedOK
<1>7. phase' \in [Runs -> Phases]
  BY <1>1, <1>2, PhaseType DEF Phases
<1>8. alarm' \in Nat \cup {NoAlarm} /\ (slot # NoLease => alarm' # NoAlarm)
  BY <1>1, <1>2, <1>6, AlarmType, AlarmSet DEF TypeOK, QueueOK
<1>9. TypeOK'
  BY <1>1, <1>2, <1>3, <1>6, <1>7, <1>8 DEF TypeOK, QueueOK, OnePerEpic, lease, told
<1>10. AlarmCovers'
  BY <1>2, <1>8 DEF AlarmCovers, lease
<1> QED BY <1>9, <1>10 DEF IInv

LEMMA CancelInv == ASSUME IInv, NEW r \in Runs, Cancel(r) PROVE IInv'
<1>1. TypeOK /\ AlarmCovers /\ QueueOK(queue)
  BY QueueType DEF IInv
<1>2. /\ queue' = {e \in queue : e.run # r}
      /\ alarm' = NextAlarm(slot, queue')
      /\ UNCHANGED <<now, lease, boots, phase, cred, door, told, dropped>>
  BY DEF Cancel
<1>3. QueueOK(queue')
  BY <1>1, <1>2, Fewer
<1>4. alarm' \in Nat \cup {NoAlarm} /\ (slot # NoLease => alarm' # NoAlarm)
  BY <1>1, <1>2, <1>3, AlarmType, AlarmSet DEF TypeOK, QueueOK
<1>5. TypeOK'
  BY <1>1, <1>2, <1>3, <1>4 DEF TypeOK, QueueOK, OnePerEpic, lease, told
<1>6. AlarmCovers'
  BY <1>2, <1>4 DEF AlarmCovers, lease
<1> QED BY <1>5, <1>6 DEF IInv

LEMMA BootInv == ASSUME IInv, NEW b \in boots, Boot(b) PROVE IInv'
<1>1. TypeOK /\ AlarmCovers /\ b \in Boots /\ b.run \in Runs /\ b.token \in Nat
  BY DEF IInv, TypeOK, Boots
<1> DEFINE made == [b EXCEPT !.created = TRUE]
<1>2. /\ boots' = (boots \ {b}) \cup {made}
      /\ cred' = [cred EXCEPT ![b.run] = b.token]
      /\ Becomes(b.run, "running")
      /\ UNCHANGED <<now, lease, queue, alarm, door, told, dropped>>
  BY DEF Boot
<1>3. made \in Boots /\ made.by = b.by
  BY <1>1 DEF Boots
<1> HIDE DEF made
<1>4. phase' \in [Runs -> Phases] /\ cred' \in [Runs -> Nat]
  BY <1>1, <1>2, PhaseType DEF Phases, TypeOK
<1>5. TypeOK'
  BY <1>1, <1>2, <1>3, <1>4 DEF TypeOK, lease, told
<1>6. AlarmCovers'
  BY <1>1, <1>2, <1>3 DEF AlarmCovers, lease
<1> QED BY <1>5, <1>6 DEF IInv

LEMMA BootDoneInv == ASSUME IInv, NEW b \in boots, BootDone(b) PROVE IInv'
<1>1. TypeOK /\ AlarmCovers /\ QueueOK(queue) /\ b \in Boots
  BY QueueType DEF IInv, TypeOK, Boots
<1>2. /\ boots' = boots \ {b}
      /\ UNCHANGED <<now, lease, phase, cred, door, told, dropped>>
  BY DEF BootDone
<1>3. CASE InRoom(b)
  <2>1. /\ queue' = {e \in queue : e.run # b.run}
        /\ alarm' = NextAlarm(slot, queue')
    BY <1>3 DEF BootDone
  <2>2. QueueOK(queue')
    BY <1>1, <2>1, Fewer
  <2>3. alarm' \in Nat \cup {NoAlarm} /\ (slot # NoLease => alarm' # NoAlarm)
    BY <1>1, <2>1, <2>2, AlarmType, AlarmSet DEF TypeOK, QueueOK
  <2>4. TypeOK'
    BY <1>1, <1>2, <2>1, <2>2, <2>3 DEF TypeOK, QueueOK, OnePerEpic, lease, told
  <2>5. AlarmCovers'
    BY <1>2, <2>3 DEF AlarmCovers, lease
  <2> QED BY <2>4, <2>5 DEF IInv
<1>4. CASE ~InRoom(b)
  <2>1. UNCHANGED <<queue, alarm>>
    BY <1>4 DEF BootDone
  <2>2. TypeOK'
    BY <1>1, <1>2, <2>1 DEF TypeOK, lease, told
  <2>3. AlarmCovers'
    BY <1>1, <1>2, <1>4, <2>1 DEF AlarmCovers, lease, InRoom
  <2> QED BY <2>2, <2>3 DEF IInv
<1> QED BY <1>3, <1>4

\* What ReleaseDispatchLease may change, with the rest left alone.
LEMMA AfterRelease ==
    ASSUME TypeOK, Fates, AlarmCovers',
           lapsed' \in [Runs -> Nat], gaveup' \subseteq Nat,
           phase' \in [Runs -> Phases], sure' \in [Runs -> Nat],
           UNCHANGED <<now, cred, door>>
    PROVE  IInv'
BY DEF TypeOK, Fates, QueueOK, OnePerEpic, IInv

LEMMA BootFailsInv == ASSUME IInv, NEW b \in boots, BootFails(b) PROVE IInv'
<1>1. /\ TypeOK /\ AlarmCovers /\ QueueOK(queue)
      /\ b \in Boots /\ b.run \in Runs /\ b.token \in Nat
  BY QueueType DEF IInv, TypeOK, Boots
<1>2. UNCHANGED <<now, phase, cred, door, sure>>
  BY DEF BootFails
<1>3. CASE InRoom(b)
  <2>1. /\ slot' = AfterDelete(slot, b.run, b.token)
        /\ gaveup' = gaveup \cup {b.token}
        /\ boots' = boots \ {b}
        /\ alarm' = NextAlarm(slot', queue)
        /\ UNCHANGED <<lapsed, minted, queue, dropped>>
    BY <1>3 DEF BootFails
  <2>2. slot' \in Rows(Runs) \cup {NoLease}
    BY <1>1, <2>1 DEF AfterDelete, TypeOK
  <2>3. alarm' \in Nat \cup {NoAlarm} /\ (slot' # NoLease => alarm' # NoAlarm)
    BY <1>1, <2>1, <2>2, AlarmType, AlarmSet DEF QueueOK
  <2>4. TypeOK'
    BY <1>1, <1>2, <2>1, <2>2, <2>3 DEF TypeOK
  <2>5. AlarmCovers'
    BY <2>3 DEF AlarmCovers
  <2> QED BY <2>4, <2>5 DEF IInv
<1>4. CASE ~InRoom(b)
  <2>1. ReleaseDispatchLease(b.run, b.token, boots \ {b})
    BY <1>4 DEF BootFails
  <2>2. \A c \in boots : c.by = "alarm" => c \in boots \ {b}
    BY <1>4 DEF InRoom
  <2>3. /\ Fates /\ AlarmCovers'
        /\ lapsed' \in [Runs -> Nat] /\ gaveup' \subseteq Nat
    BY <1>1, <2>1, <2>2, ReleaseOK
  <2> QED BY <1>1, <1>2, <2>3, AfterRelease DEF TypeOK
<1> QED BY <1>3, <1>4
\* A lease row written under a run's token, for a whole hold from now.
LEMMA HeldRow ==
    ASSUME TypeOK, NEW r \in Runs, NEW token \in Nat
    PROVE  /\ Row(r, token, now + HoldTtl) \in Rows(Runs)
           /\ now + HoldTtl \in Nat
BY ConstantsAssumption DEF TypeOK, Row, Rows

LEMMA RenewInv == ASSUME IInv, NEW r \in Runs, Renew(r) PROVE IInv'
<1>1. TypeOK /\ AlarmCovers /\ queue \in SUBSET Entries
  BY QueueType DEF IInv
<1>2. UNCHANGED <<now, lapsed, minted, queue, boots, cred, door, gaveup, dropped>>
  BY DEF Renew
<1>3. ASSUME Renewable(slot, now, r, cred[r]), slot' = Extended(slot, now, HoldTtl),
             sure' = [sure EXCEPT ![r] = now + HoldTtl],
             alarm' = NextAlarm(slot', queue), UNCHANGED phase
      PROVE  IInv'
  <2>1. now + HoldTtl \in Nat
    BY <1>1, HeldRow, ConstantsAssumption DEF TypeOK
  <2>2. slot \in Rows(Runs)
    BY <1>1, <1>3 DEF Renewable, Live, TypeOK
  <2>3. slot' \in Rows(Runs)
    BY <1>3, <2>1, <2>2 DEF Extended, Rows
  <2>4. alarm' \in Nat \cup {NoAlarm} /\ alarm' # NoAlarm
    BY <1>1, <1>3, <2>3, AlarmType, AlarmSet
  <2> QED BY <1>1, <1>2, <1>3, <2>1, <2>3, <2>4 DEF IInv, TypeOK, AlarmCovers
<1>4. ASSUME NEW p \in Phases, Becomes(r, p), UNCHANGED <<slot, sure, alarm>>
      PROVE  IInv'
  <2>1. phase' \in [Runs -> Phases]
    BY <1>1, <1>4, PhaseType
  <2> QED BY <1>1, <1>2, <1>4, <2>1 DEF IInv, TypeOK, AlarmCovers
<1>5. (IF Live(slot, now) THEN "ending" ELSE "lapsed") \in Phases
  BY DEF Phases
<1> QED BY <1>3, <1>4, <1>5 DEF Renew

LEMMA ReclaimInv == ASSUME IInv, NEW r \in Runs, Reclaim(r) PROVE IInv'
<1>1. TypeOK /\ AlarmCovers /\ queue \in SUBSET Entries /\ cred[r] \in Nat
  BY QueueType DEF IInv, TypeOK
<1>2. UNCHANGED <<now, minted, queue, boots, cred, door, gaveup, dropped>>
  BY DEF Reclaim
<1>3. CASE Reclaimable(slot, now, r, cred[r])
  <2>1. /\ slot' = Row(r, cred[r], now + HoldTtl)
        /\ lapsed' = [lapsed EXCEPT ![r] = NoToken]
        /\ sure' = [sure EXCEPT ![r] = now + HoldTtl]
        /\ alarm' = NextAlarm(slot', queue)
        /\ Becomes(r, "running")
    BY <1>3 DEF Reclaim
  <2>2. slot' \in Rows(Runs) /\ now + HoldTtl \in Nat
    BY <1>1, <2>1, HeldRow
  <2>3. alarm' \in Nat \cup {NoAlarm} /\ alarm' # NoAlarm
    BY <1>1, <2>1, <2>2, AlarmType, AlarmSet
  <2>4. phase' \in [Runs -> Phases]
    BY <1>1, <2>1, PhaseType DEF Phases
  <2> QED BY <1>1, <1>2, <2>1, <2>2, <2>3, <2>4 DEF IInv, TypeOK, AlarmCovers, NoToken
<1>4. CASE ~Reclaimable(slot, now, r, cred[r])
  <2>1. Becomes(r, "ending") /\ UNCHANGED <<slot, lapsed, sure, alarm>>
    BY <1>4 DEF Reclaim
  <2>2. phase' \in [Runs -> Phases]
    BY <1>1, <2>1, PhaseType DEF Phases
  <2> QED BY <1>1, <1>2, <2>1, <2>2 DEF IInv, TypeOK, AlarmCovers
<1> QED BY <1>3, <1>4

LEMMA PhaseOnlyInv ==
    ASSUME IInv, NEW r \in Runs, NEW p \in Phases, Becomes(r, p),
           UNCHANGED <<now, lease, queue, alarm, boots, cred, door, told, dropped>>
    PROVE  IInv'
<1>1. phase' \in [Runs -> Phases]
  BY PhaseType DEF IInv
<1> QED BY <1>1 DEF IInv, TypeOK, AlarmCovers, lease, told

LEMMA ReleaseInv == ASSUME IInv, NEW r \in Runs, Release(r) PROVE IInv'
<1>1. TypeOK /\ AlarmCovers /\ cred[r] \in Nat
  BY DEF IInv, TypeOK
<1>2. /\ Becomes(r, "over") /\ sure' = [sure EXCEPT ![r] = 0]
      /\ UNCHANGED <<now, cred, door>>
  BY DEF Release
<1>3. phase' \in [Runs -> Phases] /\ sure' \in [Runs -> Nat]
  BY <1>1, <1>2, PhaseType DEF Phases, TypeOK
<1>4. CASE ReleaseDispatchLease(r, cred[r], boots)
  <2>1. /\ Fates /\ AlarmCovers'
        /\ lapsed' \in [Runs -> Nat] /\ gaveup' \subseteq Nat
    BY <1>1, <1>4, ReleaseOK
  <2> QED BY <1>1, <1>2, <1>3, <2>1, AfterRelease
<1>5. CASE UNCHANGED <<lease, queue, alarm, boots, gaveup, dropped>>
  BY <1>1, <1>2, <1>3, <1>5 DEF IInv, TypeOK, AlarmCovers, lease
<1> QED BY <1>4, <1>5 DEF Release

LEMMA OrphanInv == ASSUME IInv, NEW r \in Runs, Orphan(r) PROVE IInv'
<1>1. TypeOK /\ AlarmCovers
  BY DEF IInv
<1>2. /\ Becomes(r, "over") /\ sure' = [sure EXCEPT ![r] = 0]
      /\ UNCHANGED <<now, cred, door>>
  BY DEF Orphan
<1>3. phase' \in [Runs -> Phases] /\ sure' \in [Runs -> Nat]
  BY <1>1, <1>2, PhaseType DEF Phases, TypeOK
<1>4. CASE slot # NoLease /\ slot.run = r
  <2>1. ReleaseDispatchLease(r, slot.token, boots) /\ slot.token \in Nat
    BY <1>1, <1>4 DEF Orphan, TypeOK, Rows
  <2>2. /\ Fates /\ AlarmCovers'
        /\ lapsed' \in [Runs -> Nat] /\ gaveup' \subseteq Nat
    BY <2>1, ReleaseOK
  <2> QED BY <1>1, <1>2, <1>3, <2>2, AfterRelease
<1>5. CASE ~(slot # NoLease /\ slot.run = r)
  <2>1. /\ lapsed' = [lapsed EXCEPT ![r] = NoToken]
        /\ UNCHANGED <<slot, minted, queue, alarm, boots, gaveup, dropped>>
    BY <1>5 DEF Orphan
  <2> QED BY <1>1, <1>2, <1>3, <2>1 DEF IInv, TypeOK, AlarmCovers, NoToken
<1> QED BY <1>4, <1>5

LEMMA DoorInv ==
    ASSUME IInv, NEW r \in Runs, DoorAuthorized(r) \/ DoorAsks(r) PROVE IInv'
<1>1. TypeOK /\ AlarmCovers /\ queue \in SUBSET Entries
  BY QueueType DEF IInv
<1>2. CASE DoorAuthorized(r)
  BY <1>1, <1>2 DEF DoorAuthorized, IInv, TypeOK, AlarmCovers, lease, told
<1>3. CASE DoorAsks(r)
  <2> DEFINE held  == Live(slot, now) /\ slot.run = r
             token == IF slot # NoLease /\ slot.run = r THEN slot.token ELSE lapsed[r]
             takes == ~Live(slot, now) /\ token # NoToken /\ Reclaimable(slot, now, r, token)
  <2>1. /\ door' = door \ {r}
        /\ sure' = IF held THEN [sure EXCEPT ![r] = slot.until]
                   ELSE IF takes THEN [sure EXCEPT ![r] = now + HoldTtl] ELSE sure
        /\ UNCHANGED <<now, minted, queue, boots, phase, cred, gaveup, dropped>>
    BY <1>3 DEF DoorAsks
  <2>2. token \in Nat
    BY <1>1 DEF TypeOK, Rows
  <2>3. now + HoldTtl \in Nat
    BY <1>1, ConstantsAssumption DEF TypeOK
  <2>4. held => slot.until \in Nat
    BY <1>1 DEF TypeOK, Rows, Live
  <2>5. sure' \in [Runs -> Nat]
    <3> HIDE DEF held, takes
    <3> QED BY <1>1, <2>1, <2>3, <2>4 DEF TypeOK
  <2>6. CASE takes
    <3>1. /\ slot' = Row(r, token, now + HoldTtl)
          /\ lapsed' = [lapsed EXCEPT ![r] = NoToken]
          /\ alarm' = NextAlarm(slot', queue)
      BY <1>3, <2>6 DEF DoorAsks
    <3> HIDE DEF held, takes, token
    <3>2. slot' \in Rows(Runs)
      BY <1>1, <2>2, <3>1, HeldRow
    <3>3. alarm' \in Nat \cup {NoAlarm} /\ alarm' # NoAlarm
      BY <1>1, <3>1, <3>2, AlarmType, AlarmSet
    <3>4. lapsed' \in [Runs -> Nat]
      BY <1>1, <3>1 DEF TypeOK, NoToken
    <3> QED BY <1>1, <2>1, <2>5, <3>2, <3>3, <3>4 DEF IInv, TypeOK, AlarmCovers
  <2>7. CASE ~takes
    <3>1. UNCHANGED <<slot, lapsed, alarm>>
      BY <1>3, <2>7 DEF DoorAsks
    <3> HIDE DEF held, takes, token
    <3> QED BY <1>1, <2>1, <2>5, <3>1 DEF IInv, TypeOK, AlarmCovers
  <2> QED BY <2>6, <2>7
<1> QED BY <1>2, <1>3

LEMMA AlarmInv == ASSUME IInv, Alarm PROVE IInv'
<1> DEFINE gone == PastDue(queue, slot)
<1>1. TypeOK /\ AlarmCovers /\ QueueOK(queue) /\ boots \in SUBSET Boots
  BY QueueType DEF IInv, TypeOK
<1>2. UNCHANGED <<now, phase, cred, door, told>>
  BY DEF Alarm
<1>3. gone \in SUBSET queue
  BY PastDueLess
<1>4. gone \in SUBSET Entries
  BY <1>1, <1>3 DEF QueueOK
<1>5. RunsIn(gone) \subseteq Runs
  <2> HIDE DEF gone
  <2> QED BY <1>4, RunsInType
<1>6. QueueOK(queue \ gone)
  <2> HIDE DEF gone
  <2> QED BY <1>1, Fewer
<1>7. CASE Due(slot, now)
  <2>1. /\ lapsed' = [lapsed EXCEPT ![slot.run] = slot.token]
        /\ HandOn(queue \ gone, "alarm", gone, boots)
    BY <1>7 DEF Alarm
  <2> HIDE DEF gone
  <2>2. Fates /\ (slot' # NoLease => \E b \in boots' : b.by = "alarm")
    BY <1>1, <1>4, <1>6, <2>1, HandOnOK
  <2>3. lapsed' \in [Runs -> Nat]
    BY <1>1, <1>7, <2>1 DEF TypeOK, Due, Rows
  <2>4. AlarmCovers'
    BY <2>2 DEF AlarmCovers
  <2> QED BY <1>1, <1>2, <2>2, <2>3, <2>4, AfterRelease DEF TypeOK, told
<1>8. CASE ~Due(slot, now)
  <2>1. /\ queue' = queue \ gone
        /\ alarm' = NextAlarm(slot, queue')
        /\ dropped' = dropped \cup RunsIn(gone)
        /\ UNCHANGED <<lease, boots>>
    BY <1>8 DEF Alarm
  <2> HIDE DEF gone
  <2>2. QueueOK(queue') /\ queue' \in SUBSET Entries
    BY <1>6, <2>1 DEF QueueOK
  <2>3. alarm' \in Nat \cup {NoAlarm} /\ (slot # NoLease => alarm' # NoAlarm)
    BY <1>1, <2>1, <2>2, AlarmType, AlarmSet DEF TypeOK
  <2> QED BY <1>1, <1>2, <1>5, <2>1, <2>2, <2>3
          DEF IInv, TypeOK, QueueOK, OnePerEpic, AlarmCovers, lease, told
<1> QED BY <1>7, <1>8

LEMMA CrashInv == ASSUME IInv, Crash PROVE IInv'
<1>1. TypeOK /\ AlarmCovers
  BY DEF IInv
<1>2. /\ boots' = {b \in boots : ~InRoom(b)}
      /\ alarm' \in IF \A b \in boots : b.by # "alarm" THEN {alarm}
                    ELSE {now} \cup ({alarm} \ {NoAlarm})
      /\ UNCHANGED <<now, lease, queue, phase, cred, door, told, dropped>>
  BY DEF Crash
<1>3. now \in Nat /\ NoAlarm \notin Nat
  BY <1>1, ConstantsAssumption DEF TypeOK
<1>4. alarm' \in Nat \cup {NoAlarm} /\ (slot # NoLease => alarm' # NoAlarm)
  BY <1>1, <1>2, <1>3 DEF TypeOK, AlarmCovers
<1> QED BY <1>1, <1>2, <1>4 DEF IInv, TypeOK, AlarmCovers, lease, told

LEMMA SupervisedInv == ASSUME IInv, NEW r \in Runs, Supervised(r) PROVE IInv'
<1>1. CASE Finish(r) \/ Die(r)
  BY <1>1, PhaseOnlyInv DEF Finish, Die, Phases
<1> QED BY <1>1, RenewInv, ReclaimInv, ReleaseInv, OrphanInv DEF Supervised

LEMMA NextInv == IInv /\ [Next]_vars => IInv'
<1> SUFFICES ASSUME IInv, [Next]_vars PROVE IInv'
  OBVIOUS
<1>1. CASE \E r \in Runs : Submit(r) \/ Park(r) \/ Cancel(r)
  BY <1>1, SubmitInv, ParkInv, CancelInv
<1>2. CASE \E r \in Runs : Supervised(r) \/ DoorAuthorized(r) \/ DoorAsks(r)
  BY <1>2, SupervisedInv, DoorInv
<1>3. CASE Booting
  BY <1>3, BootInv, BootDoneInv, BootFailsInv DEF Booting
<1>4. CASE Alarm
  BY <1>4, AlarmInv
<1>5. CASE Crash
  BY <1>5, CrashInv
<1>6. CASE Tick
  BY <1>6 DEF IInv, TypeOK, AlarmCovers, Tick, lease, told
<1>7. CASE UNCHANGED vars
  BY <1>7 DEF IInv, TypeOK, AlarmCovers, vars, lease, told
<1> QED BY <1>1, <1>2, <1>3, <1>4, <1>5, <1>6, <1>7 DEF Next

THEOREM Invariance == Spec => []IInv
<1>1. Init => IInv
  BY InitInv
<1>2. IInv /\ [Next]_vars => IInv'
  BY NextInv
<1> QED BY <1>1, <1>2, PTL DEF Spec
\* The rows, the boots and the records of callers keep their shape, and no epic
\* is ever parked twice.
THEOREM TypeCorrect == Spec => []TypeOK
BY Invariance, PTL DEF IInv

\* A lease row always has a wake-up: an alarm is set, or one's handler is running.
THEOREM LeaseCovered == Spec => []AlarmCovers
BY Invariance, PTL DEF IInv

-----------------------------------------------------------------------------
(* How the lease row changes hands *)

\* What a step may do to the row: leave it, extend it under its own token, fill
\* an empty slot, or end it - when it lapsed or was given up - and then leave the
\* slot empty or write a token that was never used.
SlotStep ==
    \/ slot' = slot
    \/ slot # NoLease /\ slot' # NoLease /\ slot'.token = slot.token
    \/ slot = NoLease
    \/ /\ ~Live(slot, now) \/ slot.token \in gaveup'
       /\ slot' = NoLease \/ slot'.token = minted + 1

LEMMA HandOnSlot ==
    ASSUME TypeOK, NEW rows, QueueOK(rows), NEW by \in {"release", "alarm"},
           NEW gone \in SUBSET Entries, NEW others \in SUBSET Boots,
           HandOn(rows, by, gone, others)
    PROVE  slot' = NoLease \/ slot'.token = minted + 1
BY HandOnOK

LEMMA ReleaseSlot ==
    ASSUME TypeOK, NEW r, NEW token, NEW others \in SUBSET Boots,
           ReleaseDispatchLease(r, token, others)
    PROVE  SlotStep
<1>1. CASE Holds(slot, r, token)
  <2>1. gaveup' = gaveup \cup {token} /\ HandOn(queue, "release", {}, others)
    BY <1>1 DEF ReleaseDispatchLease
  <2>2. QueueOK(queue) /\ {} \in SUBSET Entries
    BY QueueType
  <2>3. slot' = NoLease \/ slot'.token = minted + 1
    BY <2>1, <2>2, HandOnSlot
  <2> QED BY <1>1, <2>1, <2>3 DEF SlotStep, Holds
<1>2. CASE ~Holds(slot, r, token)
  BY <1>2 DEF ReleaseDispatchLease, lease, SlotStep
<1> QED BY <1>1, <1>2

LEMMA SubmitSlot == ASSUME TypeOK, NEW r \in Runs, Submit(r) PROVE SlotStep
<1>1. CASE Live(slot, now) /\ Acquirable(slot, now, r)
  <2>1. slot' = Row(r, slot.token, now + HoldTtl)
    BY <1>1 DEF Submit, Acquirable, Acquired
  <2>2. slot' # NoLease
    BY <1>1, <2>1, HeldRow, ConstantsAssumption DEF TypeOK, Live, Rows
  <2> QED BY <1>1, <2>1, <2>2 DEF SlotStep, Row, Live
<1>2. CASE ~Live(slot, now) /\ Acquirable(slot, now, r)
  BY <1>2 DEF Submit, Acquired, Row, SlotStep
<1>3. CASE ~Acquirable(slot, now, r)
  BY <1>3 DEF Submit, SlotStep
<1> QED BY <1>1, <1>2, <1>3

LEMMA RenewSlot == ASSUME TypeOK, NEW r \in Runs, Renew(r) PROVE SlotStep
<1>1. CASE slot' = slot
  BY <1>1 DEF SlotStep
<1>2. CASE Renewable(slot, now, r, cred[r]) /\ slot' = Extended(slot, now, HoldTtl)
  <2>1. slot \in Rows(Runs) /\ now + HoldTtl \in Nat
    BY <1>2, ConstantsAssumption DEF TypeOK, Renewable, Live
  <2>2. slot' \in Rows(Runs) /\ slot'.token = slot.token
    BY <1>2, <2>1 DEF Extended, Rows
  <2> QED BY <2>1, <2>2, ConstantsAssumption DEF SlotStep
<1> QED BY <1>1, <1>2 DEF Renew

\* A reclaim, the supervisor's or the door's, finds no row or its own.
LEMMA ReclaimSlot ==
    ASSUME TypeOK, NEW r \in Runs, NEW token \in Nat,
           Reclaimable(slot, now, r, token), slot' = Row(r, token, now + HoldTtl)
    PROVE  SlotStep
<1>1. slot' \in Rows(Runs) /\ slot'.token = token
  BY HeldRow DEF Row
<1> QED BY <1>1, ConstantsAssumption DEF SlotStep, Reclaimable, Holds

LEMMA DoorSlot == ASSUME TypeOK, NEW r \in Runs, DoorAsks(r) PROVE SlotStep
<1> DEFINE token == IF slot # NoLease /\ slot.run = r THEN slot.token ELSE lapsed[r]
<1>1. token \in Nat
  BY DEF TypeOK, Rows
<1>2. \/ slot' = slot
      \/ Reclaimable(slot, now, r, token) /\ slot' = Row(r, token, now + HoldTtl)
  BY DEF DoorAsks
<1> HIDE DEF token
<1> QED BY <1>1, <1>2, ReclaimSlot DEF SlotStep

LEMMA BootFailsSlot == ASSUME TypeOK, NEW b \in boots, BootFails(b) PROVE SlotStep
<1>1. CASE InRoom(b)
  BY <1>1 DEF BootFails, AfterDelete, Holds, SlotStep
<1>2. CASE ~InRoom(b)
  <2>1. ReleaseDispatchLease(b.run, b.token, boots \ {b})
    BY <1>2 DEF BootFails
  <2>2. boots \ {b} \in SUBSET Boots
    BY DEF TypeOK
  <2> QED BY <2>1, <2>2, ReleaseSlot
<1> QED BY <1>1, <1>2

LEMMA AlarmSlot == ASSUME TypeOK, Alarm PROVE SlotStep
<1> DEFINE gone == PastDue(queue, slot)
<1>1. CASE Due(slot, now)
  <2>1. HandOn(queue \ gone, "alarm", gone, boots)
    BY <1>1 DEF Alarm
  <2>2. QueueOK(queue \ gone) /\ gone \in SUBSET Entries /\ boots \in SUBSET Boots
    <3>1. gone \in SUBSET queue /\ QueueOK(queue)
      BY PastDueLess, QueueType
    <3> HIDE DEF gone
    <3> QED BY <3>1, Fewer DEF TypeOK, QueueOK
  <2>3. slot' = NoLease \/ slot'.token = minted + 1
    <3> HIDE DEF gone
    <3> QED BY <2>1, <2>2, HandOnSlot
  <2>4. ~Live(slot, now)
    BY <1>1 DEF Due, Live, TypeOK, Rows
  <2> QED BY <2>3, <2>4 DEF SlotStep
<1>2. CASE ~Due(slot, now)
  BY <1>2 DEF Alarm, lease, SlotStep
<1> QED BY <1>1, <1>2

LEMMA SlotSteps == ASSUME TypeOK, [Next]_vars PROVE SlotStep
<1>1. CASE \E r \in Runs : Submit(r) \/ Park(r) \/ Cancel(r)
  BY <1>1, SubmitSlot DEF Park, Cancel, lease, SlotStep
<1>2. ASSUME NEW r \in Runs, Supervised(r) PROVE SlotStep
  <2>1. CASE Reclaim(r)
    <3>1. cred[r] \in Nat
      BY DEF TypeOK
    <3> QED BY <2>1, <3>1, ReclaimSlot DEF Reclaim, SlotStep
  <2>2. CASE Release(r)
    <3>1. boots \in SUBSET Boots
      BY DEF TypeOK
    <3> QED BY <2>2, <3>1, ReleaseSlot DEF Release, lease, SlotStep
  <2>3. CASE Orphan(r)
    <3>1. boots \in SUBSET Boots
      BY DEF TypeOK
    <3> QED BY <2>3, <3>1, ReleaseSlot DEF Orphan, SlotStep
  <2>4. CASE Finish(r) \/ Die(r)
    BY <2>4 DEF Finish, Die, lease, SlotStep
  <2> QED BY <1>2, <2>1, <2>2, <2>3, <2>4, RenewSlot DEF Supervised
<1>3. ASSUME NEW r \in Runs, DoorAuthorized(r) \/ DoorAsks(r) PROVE SlotStep
  BY <1>3, DoorSlot DEF DoorAuthorized, lease, SlotStep
<1>4. ASSUME NEW b \in boots, Boot(b) \/ BootDone(b) \/ BootFails(b) PROVE SlotStep
  BY <1>4, BootFailsSlot DEF Boot, BootDone, lease, SlotStep
<1>5. CASE Crash \/ Tick
  BY <1>5 DEF Crash, Tick, lease, SlotStep
<1>6. CASE UNCHANGED vars
  BY <1>6 DEF vars, lease, SlotStep
<1> QED BY <1>1, <1>2, <1>3, <1>4, <1>5, <1>6, AlarmSlot DEF Next, Booting

\* No action of any caller, fault or clock takes a live lease from its holder.
THEOREM LeaseNeverStolen == Spec => NeverStolen
<1>1. TypeOK /\ [Next]_vars =>
        [Live(slot, now) /\ (slot' = NoLease \/ slot'.token # slot.token)
           => slot.token \in gaveup']_vars
  BY SlotSteps DEF SlotStep, Live
<1> QED BY <1>1, TypeCorrect, PTL DEF Spec, NeverStolen

\* A row that changes hands goes to a token nobody held before, so a holder that
\* was superseded never gets it back.
THEOREM SupersededHoldersStayOut == Spec => SupersededStaysOut
<1>1. TypeOK /\ [Next]_vars =>
        [slot # NoLease /\ slot' # NoLease /\ slot'.token # slot.token
           => slot'.token > minted]_vars
  BY SlotSteps DEF SlotStep, TypeOK
<1> QED BY <1>1, TypeCorrect, PTL DEF Spec, SupersededStaysOut
-----------------------------------------------------------------------------
(* What is parked *)

\* A window is never empty, also where a repeat widened it.
Windowed == \A e \in queue : e.window # 0

\* What waits in a restarted queue has time left, and is there as it was.
LEMMA RestartedFrom ==
    ASSUME NEW rows \in SUBSET Entries, now \in Nat, NEW f \in Restarted(rows)
    PROVE  \E e \in rows : /\ f.run = e.run /\ f.window = e.window
                           /\ e.waits /\ e.window # 0 => f.until > now
<1>1. PICK e \in rows : f = IF e.waits THEN [e EXCEPT !.until = Later(@, now + e.window)] ELSE e
  BY DEF Restarted
<1>2. e \in Entries /\ e.until \in Nat /\ e.window \in Nat
  BY DEF Entries
<1>3. PICK t : t = Later(e.until, now + e.window)
  OBVIOUS
<1>4. e.window # 0 => t > now
  BY <1>2, <1>3 DEF Later
<1>5. CASE e.waits
  <2>1. f = [e EXCEPT !.until = t]
    BY <1>1, <1>3, <1>5
  <2>2. f.run = e.run /\ f.window = e.window /\ f.until = t
    BY <1>2, <2>1 DEF Entries
  <2> QED BY <1>4, <2>2
<1>6. CASE ~e.waits
  BY <1>1, <1>6
<1> QED BY <1>5, <1>6

\* The lease is taken for a run, and its ignition starts.
Ignites(run, by, others) ==
    /\ slot' = Row(run, minted + 1, now + IgniteTtl)
    /\ boots' = others \cup {[run |-> run, token |-> minted + 1,
                              by |-> by, created |-> FALSE]}

\* A freed lease goes to nobody, or to a run that was parked; the rest stays.
LEMMA HandOnFrom ==
    ASSUME TypeOK, NEW rows \in SUBSET Entries, NEW by, NEW gone, NEW others,
           HandOn(rows, by, gone, others)
    PROVE  /\ \A e \in queue' : \E f \in rows : e.run = f.run /\ e.window = f.window
           /\ \A r \in dropped' \ dropped :
                 \/ r \in RunsIn(gone)
                 \/ \E f \in rows : f.run = r /\ ~(f.waits /\ f.window # 0)
           /\ \/ slot' = NoLease /\ boots' = others
              \/ \E f \in rows : Ignites(f.run, by, others)
<1> DEFINE fresh == Restarted(rows)
           late  == PastDue(fresh, NoLease)
           left  == fresh \ late
<1>1. /\ queue' = left /\ dropped' = dropped \cup RunsIn(gone \cup late)
      /\ \/ slot' = NoLease /\ boots' = others
         \/ \E next \in left : Ignites(next.run, by, others)
  BY DEF HandOn, Oldest, Ignites
<1>2. now \in Nat
  BY DEF TypeOK
<1>3. ASSUME NEW f \in fresh
      PROVE  \E e \in rows : /\ f.run = e.run /\ f.window = e.window
                             /\ e.waits /\ e.window # 0 => f.until > now
  BY <1>2, RestartedFrom
<1>4. late \subseteq fresh /\ \A f \in late : f.until <= now
  BY DEF PastDue
<1>5. late \subseteq Entries
  <2>1. fresh \subseteq Entries
    <3> SUFFICES ASSUME NEW e \in rows
                 PROVE  (IF e.waits THEN [e EXCEPT !.until = Later(@, now + e.window)] ELSE e)
                           \in Entries
      BY DEF Restarted
    <3>1. e \in Entries /\ e.until \in Nat /\ e.window \in Nat
      BY DEF Entries
    <3>2. PICK t \in Nat : t = Later(e.until, now + e.window)
      BY <1>2, <3>1 DEF Later
    <3>3. [e EXCEPT !.until = t] \in Entries
      BY <3>1, <3>2, MovedType
    <3> QED BY <3>1, <3>2, <3>3
  <2> QED BY <1>4, <2>1
<1> HIDE DEF fresh, late
<1>6. \A r \in RunsIn(late) : \E f \in rows : f.run = r /\ ~(f.waits /\ f.window # 0)
  <2> SUFFICES ASSUME NEW f \in late
               PROVE  \E e \in rows : e.run = f.run /\ ~(e.waits /\ e.window # 0)
    BY DEF RunsIn
  <2>1. PICK e \in rows : /\ f.run = e.run
                          /\ e.waits /\ e.window # 0 => f.until > now
    BY <1>3, <1>4
  <2>2. f.until \in Nat /\ f.until <= now
    BY <1>4, <1>5 DEF Entries
  <2> QED BY <1>2, <2>1, <2>2
<1>7. \A r \in dropped' \ dropped : r \in RunsIn(gone) \/ r \in RunsIn(late)
  BY <1>1 DEF RunsIn
<1>8. \A e \in left : \E f \in rows : e.run = f.run /\ e.window = f.window
  BY <1>3
<1>9. \/ slot' = NoLease /\ boots' = others
      \/ \E f \in rows : Ignites(f.run, by, others)
  <2>1. ASSUME NEW next \in left, Ignites(next.run, by, others)
        PROVE  \E f \in rows : Ignites(f.run, by, others)
    <3>1. PICK f \in rows : next.run = f.run
      BY <1>8
    <3> QED BY <2>1, <3>1
  <2> QED BY <1>1, <2>1
<1> QED BY <1>1, <1>6, <1>7, <1>8, <1>9

\* What a step may do to the queue and to the announced drops: a waiting row is
\* announced only where no lease row stands.
QueueStep ==
    /\ \A e \in queue' : e.window # 0
    /\ \A e \in queue : e.waits /\ e.run \in dropped' \ dropped => slot = NoLease

LEMMA PrunedRows ==
    ASSUME TypeOK, slot # NoLease, NEW e \in queue, e.waits
    PROVE  e.run \notin RunsIn(PastDue(queue, slot))
BY DEF TypeOK, RunsIn, PastDue

LEMMA HandOnQueue ==
    ASSUME TypeOK, Windowed, NEW rows \in SUBSET queue, NEW by, NEW gone, NEW others,
           gone = {} \/ gone = PastDue(queue, slot), HandOn(rows, by, gone, others)
    PROVE  QueueStep
<1>1. rows \in SUBSET Entries
  BY DEF TypeOK
<1>2. ASSUME NEW e \in queue' PROVE e.window # 0
  <2>1. PICK f \in rows : e.run = f.run /\ e.window = f.window
    BY <1>1, HandOnFrom
  <2> QED BY <2>1 DEF Windowed
<1>3. ASSUME NEW e \in queue, e.waits, e.run \in dropped' \ dropped, slot # NoLease
      PROVE  FALSE
  <2>1. e.run \notin RunsIn(gone)
    BY <1>3, PrunedRows DEF RunsIn
  <2>2. PICK f \in rows : f.run = e.run /\ ~(f.waits /\ f.window # 0)
    BY <1>1, <1>3, <2>1, HandOnFrom
  <2>3. f = e
    BY <2>2 DEF TypeOK
  <2> QED BY <1>3, <2>2, <2>3 DEF Windowed
<1> QED BY <1>2, <1>3 DEF QueueStep

LEMMA SameQueue ==
    ASSUME Windowed, queue' \subseteq queue, dropped' = dropped
    PROVE  QueueStep
BY DEF Windowed, QueueStep

LEMMA ReleaseQueue ==
    ASSUME TypeOK, Windowed, NEW r, NEW token, NEW others,
           ReleaseDispatchLease(r, token, others)
    PROVE  QueueStep
<1>1. CASE Holds(slot, r, token)
  BY <1>1, HandOnQueue DEF ReleaseDispatchLease
<1>2. CASE ~Holds(slot, r, token)
  BY <1>2, SameQueue DEF ReleaseDispatchLease
<1> QED BY <1>1, <1>2

LEMMA ParkQueue == ASSUME TypeOK, Windowed, NEW r \in Runs, Park(r) PROVE QueueStep
<1> DEFINE gone == PastDue(queue, slot)
           mine == [run |-> r, at |-> now, until |-> now + Window[r],
                    waits |-> r \in WaitsFor, window |-> Window[r]]
           rows == queue \ gone
<1>1. queue' = Joined(rows, mine) /\ dropped' = dropped \cup RunsIn(gone)
  BY DEF Park
<1>2. mine \in Entries /\ mine.window # 0
  <2>1. Window[r] \in Nat \ {0}
    BY ConstantsAssumption
  <2> QED BY <2>1 DEF TypeOK, Entries
<1>3. rows \in SUBSET Entries /\ \A e \in rows : e.window # 0
  BY DEF TypeOK, Windowed
<1> HIDE DEF gone, mine, rows
<1>4. ASSUME NEW e \in rows PROVE Widened(e, mine).window # 0
  <2>1. PICK w : w = Later(e.window, mine.window)
    OBVIOUS
  <2>2. e.window \in Nat \ {0} /\ mine.window \in Nat \ {0}
    BY <1>2, <1>3 DEF Entries
  <2>3. w # 0
    BY <2>1, <2>2 DEF Later
  <2>4. PICK b, u : b = (e.waits \/ mine.waits) /\ u = Later(e.until, mine.until)
    OBVIOUS
  <2>5. Widened(e, mine) = [e EXCEPT !.waits = b, !.window = w, !.until = u]
    BY <2>1, <2>4, Zenon DEF Widened
  <2> QED BY <1>3, <2>3, <2>5 DEF Entries
<1>5. \A e \in queue' : e.window # 0
  BY <1>1, <1>2, <1>3, <1>4 DEF Joined, ParkedAlready
<1>6. \A e \in queue : e.waits /\ e.run \in dropped' \ dropped => slot = NoLease
  BY <1>1, PrunedRows DEF gone
<1> QED BY <1>5, <1>6 DEF QueueStep

LEMMA AlarmQueue == ASSUME TypeOK, Windowed, Alarm PROVE QueueStep
<1> DEFINE gone == PastDue(queue, slot)
<1>1. CASE Due(slot, now)
  <2>1. HandOn(queue \ gone, "alarm", gone, boots)
    BY <1>1 DEF Alarm
  <2> QED BY <2>1, HandOnQueue
<1>2. CASE ~Due(slot, now)
  <2>1. queue' = queue \ gone /\ dropped' = dropped \cup RunsIn(gone)
    BY <1>2 DEF Alarm
  <2>2. \A e \in queue : e.waits /\ e.run \in dropped' \ dropped => slot = NoLease
    BY <2>1, PrunedRows
  <2> QED BY <2>1, <2>2 DEF QueueStep, Windowed
<1> QED BY <1>1, <1>2

LEMMA QueueSteps == ASSUME TypeOK, Windowed, [Next]_vars PROVE QueueStep
<1>1. ASSUME NEW r \in Runs, Submit(r) \/ Park(r) \/ Cancel(r) PROVE QueueStep
  BY <1>1, ParkQueue, SameQueue DEF Submit, Cancel
<1>2. ASSUME NEW r \in Runs, Supervised(r) PROVE QueueStep
  <2>1. CASE Release(r)
    BY <2>1, ReleaseQueue, SameQueue DEF Release
  <2>2. CASE Orphan(r)
    BY <2>2, ReleaseQueue, SameQueue DEF Orphan
  <2>3. CASE Renew(r) \/ Reclaim(r) \/ Finish(r) \/ Die(r)
    BY <2>3, SameQueue DEF Renew, Reclaim, Finish, Die
  <2> QED BY <1>2, <2>1, <2>2, <2>3 DEF Supervised
<1>3. ASSUME NEW r \in Runs, DoorAuthorized(r) \/ DoorAsks(r) PROVE QueueStep
  BY <1>3, SameQueue DEF DoorAuthorized, DoorAsks
<1>4. ASSUME NEW b \in boots, Boot(b) \/ BootDone(b) PROVE QueueStep
  BY <1>4, SameQueue DEF Boot, BootDone
<1>5. ASSUME NEW b \in boots, BootFails(b) PROVE QueueStep
  BY <1>5, ReleaseQueue, SameQueue DEF BootFails
<1>6. CASE Crash \/ Tick \/ UNCHANGED vars
  BY <1>6, SameQueue DEF Crash, Tick, vars
<1> QED BY <1>1, <1>2, <1>3, <1>4, <1>5, <1>6, AlarmQueue DEF Next, Booting

\* A submission that waits for the release is never announced as expired behind a
\* holder, nor by the release it waited for (run-room.ts, restartWaitingWindows).
THEOREM WaitersOutliveTheHolder == Spec => WaitsOutTheHolder
<1>1. Init => Windowed
  BY DEF Init, Windowed
<1>2. TypeOK /\ Windowed /\ [Next]_vars => Windowed'
  BY QueueSteps DEF QueueStep, Windowed
<1>3. TypeOK /\ Windowed /\ [Next]_vars =>
        [\A e \in queue : e.waits /\ e.run \in dropped' \ dropped => slot = NoLease]_vars
  BY QueueSteps DEF QueueStep
<1> QED BY <1>1, <1>2, <1>3, TypeCorrect, PTL DEF Spec, WaitsOutTheHolder

-----------------------------------------------------------------------------
(* One arbiter *)

\* Where the room's process is not lost, an ignition neither outlasts its lease
\* nor fails once the Workflow exists, and only alarms and submits may be late.
InTimeOnly == Faults \subseteq {"late"}

Early(r)  == In(r, {"new", "refused"})
Unborn(r) == In(r, {"new", "refused", "submitted"})

\* Whoever was told of a hold that has not run out is in the lease row, and for
\* at least as long.
DriversHold ==
    \A r \in Runs : Driving(r) =>
        slot # NoLease /\ slot.run = r /\ slot.until >= sure[r]
\* A run that has no Workflow yet was told nothing and asks for nothing, and one
\* that was never accepted is nowhere in the room.
UnbornIdle == \A r \in Runs : Unborn(r) => sure[r] = 0 /\ r \notin door
EarlyOut ==
    \A r \in Runs : Early(r) => /\ r \notin RunsIn(queue)
                                /\ \A b \in boots : b.run # r
                                /\ slot # NoLease => slot.run # r
\* An ignition that has made no Workflow is its run's only one, or comes too late.
Uncreated == \A b \in boots : ~b.created => In(b.run, {"submitted", "over"})
OneBoot   == \A b, c \in boots : b.run = c.run /\ In(b.run, {"submitted"}) => b = c
\* An ignition of the room has the lease it was started under, and it is live.
RoomHolds == \A b \in boots : InRoom(b) /\ ~In(b.run, {"over"}) => Holds(slot, b.run, b.token)
RoomLives == \A b \in boots : InRoom(b) /\ Holds(slot, b.run, b.token) => slot.until > now
\* What is parked is ignited by the room alone, and its row stands while it is.
SubmitApart == \A b \in boots : ~InRoom(b) => b.run \notin RunsIn(queue)
RowsBoot ==
    \A e \in queue : \/ In(e.run, {"submitted", "over"})
                     \/ \E b \in boots : InRoom(b) /\ b.run = e.run

Arbiters == DriversHold /\ UnbornIdle /\ EarlyOut
Ignitions == Uncreated /\ OneBoot /\ RoomHolds /\ RoomLives /\ SubmitApart /\ RowsBoot
SoleInv == Arbiters /\ Ignitions

\* A step of a run that has its Workflow: the row is left, or is this run's own
\* and is extended, and the run knows what it is told.
LEMMA OwnStepSole ==
    ASSUME IInv, IInv', SoleInv, NEW r \in Runs,
           UNCHANGED <<now, boots, queue>>,
           \A x \in Runs \ {r} : /\ phase'[x] = phase[x] /\ sure'[x] = sure[x]
                                 /\ x \in door' <=> x \in door,
           phase[r] \notin {"new", "refused", "submitted"},
           phase'[r] \notin {"new", "refused", "submitted"},
           phase[r] = "over" => phase'[r] = "over",
           \/ slot' = slot
           \/ /\ slot' # NoLease /\ slot'.run = r /\ slot'.until > now
              /\ slot # NoLease => slot.run = r /\ slot'.token = slot.token,
           phase'[r] # "over" /\ sure'[r] > now =>
              slot' # NoLease /\ slot'.run = r /\ slot'.until >= sure'[r]
    PROVE  SoleInv'
<1>1. /\ DriversHold /\ UnbornIdle /\ EarlyOut /\ Uncreated /\ OneBoot /\ RoomHolds
      /\ RoomLives /\ SubmitApart /\ RowsBoot
  BY DEF SoleInv, Arbiters, Ignitions
<1>2. /\ boots \subseteq Boots /\ \A b \in boots : b.run \in Runs
      /\ queue \subseteq Entries /\ \A e \in queue : e.run \in Runs
      /\ now \in Nat
  BY DEF IInv, TypeOK, Boots, Entries
<1>3. DriversHold'
  <2> SUFFICES ASSUME NEW x \in Runs, phase'[x] \notin {"new", "over"}, sure'[x] > now
               PROVE  slot' # NoLease /\ slot'.run = x /\ slot'.until >= sure'[x]
    BY DEF DriversHold, Driving
  <2>1. CASE x = r
    BY <2>1
  <2>2. CASE x # r
    <3>1. slot # NoLease /\ slot.run = x /\ slot.until >= sure[x]
      BY <1>1, <2>2 DEF DriversHold, Driving
    <3>2. slot' = slot
      BY <2>2, <3>1
    <3> QED BY <2>2, <3>1, <3>2
  <2> QED BY <2>1, <2>2
<1>4. UnbornIdle'
  BY <1>1 DEF UnbornIdle, Unborn, In
<1>5. EarlyOut'
  BY <1>1 DEF EarlyOut, Early, In
<1>6. Uncreated' /\ OneBoot' /\ SubmitApart'
  BY <1>1, <1>2 DEF Uncreated, OneBoot, SubmitApart, In
<1>7. RoomHolds'
  BY <1>1, <1>2 DEF RoomHolds, Holds, In
<1>8. RoomLives'
  BY <1>1, <1>2 DEF RoomLives, Holds
<1>9. RowsBoot'
  BY <1>1, <1>2 DEF RowsBoot, In
<1> QED BY <1>3, <1>4, <1>5, <1>6, <1>7, <1>8, <1>9 DEF SoleInv, Arbiters, Ignitions

\* The lease is freed and handed on when nobody drives and every ignition of the
\* room is of a run that is over.
LEMMA FreedSole ==
    ASSUME IInv, IInv', SoleInv, NEW rows \in SUBSET queue, NEW by \in {"release", "alarm"},
           NEW gone, NEW others \in SUBSET boots, HandOn(rows, by, gone, others),
           UNCHANGED <<now, door>>,
           \A r \in Runs : \/ phase'[r] = phase[r]
                           \/ phase'[r] = "over" /\ phase[r] \in {"ending", "dead"},
           \A r \in Runs : sure'[r] = sure[r] \/ sure'[r] = 0,
           \A r \in Runs : phase'[r] \in {"new", "over"} \/ ~(sure'[r] > now),
           \A b \in boots : InRoom(b) => b \in others /\ phase'[b.run] = "over"
    PROVE  SoleInv'
<1>1. /\ DriversHold /\ UnbornIdle /\ EarlyOut /\ Uncreated /\ OneBoot /\ RoomHolds
      /\ RoomLives /\ SubmitApart /\ RowsBoot
  BY DEF SoleInv, Arbiters, Ignitions
<1>2. /\ boots \subseteq Boots /\ \A b \in boots : b.run \in Runs
      /\ queue \subseteq Entries /\ \A e \in queue : e.run \in Runs
      /\ now \in Nat /\ TypeOK /\ IgniteTtl \in Nat \ {0} /\ minted + 1 \in Nat
      /\ rows \in SUBSET Entries
  BY ConstantsAssumption DEF IInv, TypeOK, Boots, Entries
<1>3. RunsIn(rows) \subseteq RunsIn(queue) /\ RunsIn(queue') \subseteq RunsIn(rows)
  <2>1. \A e \in queue' : \E f \in rows : e.run = f.run
    BY <1>2, HandOnFrom
  <2> QED BY <2>1 DEF RunsIn
<1>4. \A x \in RunsIn(rows) : phase'[x] \in {"submitted", "over"}
  <2> SUFFICES ASSUME NEW f \in rows PROVE phase'[f.run] \in {"submitted", "over"}
    BY DEF RunsIn
  <2>1. f.run \in Runs
    BY <1>2
  <2>2. CASE In(f.run, {"submitted", "over"})
    BY <2>1, <2>2 DEF In
  <2>3. CASE ~In(f.run, {"submitted", "over"})
    BY <1>1, <2>3 DEF RowsBoot
  <2> QED BY <2>2, <2>3
<1>5. DriversHold'
  BY DEF DriversHold, Driving
<1>6. UnbornIdle'
  BY <1>1 DEF UnbornIdle, Unborn, In
<1>7. RowsBoot'
  BY <1>3, <1>4 DEF RowsBoot, In, RunsIn
<1>8. CASE slot' = NoLease /\ boots' = others
  <2>1. EarlyOut'
    BY <1>1, <1>3, <1>8 DEF EarlyOut, Early, In
  <2>2. Uncreated' /\ OneBoot'
    BY <1>1, <1>2, <1>8 DEF Uncreated, OneBoot, In
  <2>3. RoomHolds' /\ RoomLives'
    BY <1>8 DEF RoomHolds, RoomLives, Holds, In
  <2>4. SubmitApart'
    BY <1>1, <1>3, <1>8 DEF SubmitApart
  <2> QED BY <1>5, <1>6, <1>7, <2>1, <2>2, <2>3, <2>4 DEF SoleInv, Arbiters, Ignitions
<1>9. CASE \E f \in rows : Ignites(f.run, by, others)
  <2> PICK f \in rows : Ignites(f.run, by, others)
    BY <1>9
  <2>a. /\ slot' = Row(f.run, minted + 1, now + IgniteTtl)
        /\ boots' = others \cup {[run |-> f.run, token |-> minted + 1,
                                  by |-> by, created |-> FALSE]}
    BY DEF Ignites
  <2> DEFINE mine == [run |-> f.run, token |-> minted + 1, by |-> by, created |-> FALSE]
  <2>0. boots' = others \cup {mine}
    BY <2>a
  <2>1. /\ mine.run = f.run /\ mine.token = minted + 1 /\ InRoom(mine) /\ ~mine.created
        /\ f.run \in Runs /\ f.run \in RunsIn(rows) /\ f.run \in RunsIn(queue)
        /\ phase'[f.run] \in {"submitted", "over"}
    BY <1>2, <1>3, <1>4 DEF InRoom, RunsIn
  <2> HIDE DEF mine
  <2>2. slot'.run = f.run /\ slot'.token = minted + 1 /\ slot'.until > now /\ slot' # NoLease
    <3>1. slot' \in Rows(Runs)
      <4>1. now + IgniteTtl \in Nat
        BY <1>2
      <4> QED BY <1>2, <2>a, <2>1, <4>1 DEF Row, Rows
    <3>2. slot'.until = now + IgniteTtl
      BY <2>a DEF Row
    <3> QED BY <1>2, <2>a, <3>1, <3>2, ConstantsAssumption DEF Row
  <2>3. EarlyOut'
    <3> SUFFICES ASSUME NEW x \in Runs, phase'[x] \in {"new", "refused"}
                 PROVE  /\ x \notin RunsIn(queue') /\ x # f.run
                        /\ \A b \in others : b.run # x
      BY <2>0, <2>1, <2>2 DEF EarlyOut, Early, In
    <3> QED BY <1>1, <1>3, <2>1 DEF EarlyOut, Early, In
  <2>4. Uncreated'
    BY <1>1, <1>2, <2>0, <2>1 DEF Uncreated, In
  <2>5. OneBoot'
    <3>1. ASSUME NEW b \in others, b.run = f.run, phase'[b.run] = "submitted" PROVE FALSE
      BY <1>1, <2>1, <3>1 DEF SubmitApart
    <3>2. ASSUME NEW b \in others, NEW c \in others, b.run = c.run, phase'[b.run] = "submitted"
          PROVE  b = c
      BY <1>1, <1>2, <3>2 DEF OneBoot, In
    <3> SUFFICES ASSUME NEW b \in others \cup {mine}, NEW c \in others \cup {mine},
                        b.run = c.run, phase'[b.run] = "submitted"
                 PROVE  b = c
      BY <2>0 DEF OneBoot, In
    <3>3. CASE b \in others /\ c \in others
      BY <3>2, <3>3
    <3>4. CASE b = mine /\ c \in others
      BY <2>1, <3>1, <3>4
    <3>5. CASE c = mine /\ b \in others
      BY <2>1, <3>1, <3>5
    <3> QED BY <3>3, <3>4, <3>5
  <2>6. RoomHolds' /\ RoomLives'
    BY <2>0, <2>1, <2>2 DEF RoomHolds, RoomLives, Holds, In
  <2>7. SubmitApart'
    BY <1>1, <1>3, <2>0, <2>1 DEF SubmitApart
  <2> QED BY <1>5, <1>6, <1>7, <2>3, <2>4, <2>5, <2>6, <2>7 DEF SoleInv, Arbiters, Ignitions
<1>10. TypeOK /\ rows \in SUBSET Entries
  BY <1>2
<1>11. \/ slot' = NoLease /\ boots' = others
       \/ \E f \in rows : Ignites(f.run, by, others)
  BY <1>10, HandOnFrom
<1> QED BY <1>8, <1>9, <1>11


\* A step of a function of runs, and what stays.
LEMMA BecomesIs ==
    ASSUME TypeOK, NEW r \in Runs, NEW p, Becomes(r, p)
    PROVE  phase'[r] = p /\ \A x \in Runs \ {r} : phase'[x] = phase[x]
BY DEF TypeOK, Becomes

LEMMA SureIs ==
    ASSUME TypeOK, NEW r \in Runs, NEW t, sure' = [sure EXCEPT ![r] = t]
    PROVE  sure'[r] = t /\ \A x \in Runs \ {r} : sure'[x] = sure[x]
BY DEF TypeOK

\* A row written for a whole hold from now.
LEMMA HoldRow ==
    ASSUME TypeOK, NEW r \in Runs, NEW token \in Nat, slot' = Row(r, token, now + HoldTtl)
    PROVE  /\ slot' # NoLease /\ slot'.run = r /\ slot'.token = token
           /\ slot'.until = now + HoldTtl /\ slot'.until > now
<1>1. slot' \in Rows(Runs)
  BY HeldRow
<1>2. slot'.run = r /\ slot'.token = token /\ slot'.until = now + HoldTtl
  BY DEF Row
<1> QED BY <1>1, <1>2, ConstantsAssumption DEF TypeOK

LEMMA RenewSole == ASSUME IInv, IInv', SoleInv, NEW r \in Runs, Renew(r) PROVE SoleInv'
<1>1. TypeOK /\ DriversHold /\ phase[r] = "running"
      /\ UNCHANGED <<now, boots, queue, door>>
  BY DEF IInv, SoleInv, Arbiters, Renew, In
<1>2. CASE /\ Renewable(slot, now, r, cred[r]) /\ slot' = Extended(slot, now, HoldTtl)
           /\ sure' = [sure EXCEPT ![r] = now + HoldTtl] /\ UNCHANGED phase
  <2>1. /\ slot \in Rows(Runs) /\ slot # NoLease /\ slot.run = r
        /\ now + HoldTtl \in Nat /\ now + HoldTtl > now
    BY <1>1, <1>2, ConstantsAssumption DEF TypeOK, Renewable, Live, Holds
  <2>2. /\ slot' \in Rows(Runs) /\ slot'.token = slot.token /\ slot'.run = r
        /\ slot'.until = now + HoldTtl
    BY <1>2, <2>1 DEF Extended, Rows
  <2>3. slot' # NoLease
    BY <2>2, ConstantsAssumption
  <2>4. sure'[r] = now + HoldTtl /\ \A x \in Runs \ {r} : sure'[x] = sure[x]
    BY <1>1, <1>2, SureIs
  <2> QED BY <1>1, <1>2, <2>1, <2>2, <2>3, <2>4, OwnStepSole
<1>3. CASE /\ Becomes(r, IF Live(slot, now) THEN "ending" ELSE "lapsed")
           /\ UNCHANGED <<slot, sure>>
  <2>1. phase'[r] \in {"ending", "lapsed"} /\ \A x \in Runs \ {r} : phase'[x] = phase[x]
    BY <1>1, <1>3, BecomesIs
  <2> QED BY <1>1, <1>3, <2>1, OwnStepSole DEF DriversHold, Driving
<1> QED BY <1>2, <1>3 DEF Renew

LEMMA ReclaimSole == ASSUME IInv, IInv', SoleInv, NEW r \in Runs, Reclaim(r) PROVE SoleInv'
<1>1. TypeOK /\ DriversHold /\ phase[r] = "lapsed" /\ cred[r] \in Nat
      /\ UNCHANGED <<now, boots, queue, door>>
  BY DEF IInv, TypeOK, SoleInv, Arbiters, Reclaim, In
<1>2. CASE Reclaimable(slot, now, r, cred[r])
  <2>1. /\ slot' = Row(r, cred[r], now + HoldTtl)
        /\ sure' = [sure EXCEPT ![r] = now + HoldTtl] /\ Becomes(r, "running")
    BY <1>2 DEF Reclaim
  <2>2. /\ slot' # NoLease /\ slot'.run = r /\ slot'.token = cred[r]
        /\ slot'.until = now + HoldTtl /\ slot'.until > now
    BY <1>1, <2>1, HoldRow
  <2>3. slot # NoLease => slot.run = r /\ slot'.token = slot.token
    BY <1>2, <2>2 DEF Reclaimable, Holds
  <2>4. sure'[r] = now + HoldTtl /\ \A x \in Runs \ {r} : sure'[x] = sure[x]
    BY <1>1, <2>1, SureIs
  <2>5. phase'[r] = "running" /\ \A x \in Runs \ {r} : phase'[x] = phase[x]
    BY <1>1, <2>1, BecomesIs
  <2>6. now + HoldTtl >= now + HoldTtl
    BY ConstantsAssumption, <1>1 DEF TypeOK
  <2> QED BY <1>1, <2>2, <2>3, <2>4, <2>5, <2>6, OwnStepSole
<1>3. CASE ~Reclaimable(slot, now, r, cred[r])
  <2>1. Becomes(r, "ending") /\ UNCHANGED <<slot, sure>>
    BY <1>3 DEF Reclaim
  <2>2. phase'[r] = "ending" /\ \A x \in Runs \ {r} : phase'[x] = phase[x]
    BY <1>1, <2>1, BecomesIs
  <2> QED BY <1>1, <2>1, <2>2, OwnStepSole DEF DriversHold, Driving
<1> QED BY <1>2, <1>3

\* The Workflow ends, or dies, with the room left as it is.
LEMMA EndsSole == ASSUME IInv, IInv', SoleInv, NEW r \in Runs, Finish(r) \/ Die(r) PROVE SoleInv'
<1>1. /\ TypeOK /\ DriversHold /\ phase[r] \in {"running", "lapsed"}
      /\ UNCHANGED <<now, boots, queue, door, slot, sure>>
      /\ Becomes(r, "ending") \/ Becomes(r, "dead")
  BY DEF IInv, SoleInv, Arbiters, Finish, Die, In, lease, told
<1>2. phase'[r] \in {"ending", "dead"} /\ \A x \in Runs \ {r} : phase'[x] = phase[x]
  BY <1>1, BecomesIs
<1> QED BY <1>1, <1>2, OwnStepSole DEF DriversHold, Driving

LEMMA DoorSole ==
    ASSUME IInv, IInv', SoleInv, NEW r \in Runs, DoorAuthorized(r) \/ DoorAsks(r) PROVE SoleInv'
<1>1. TypeOK /\ DriversHold /\ UnbornIdle /\ UNCHANGED <<now, boots, queue, phase>>
  BY DEF IInv, SoleInv, Arbiters, DoorAuthorized, DoorAsks
<1>2. CASE DoorAuthorized(r)
  <2>1. /\ phase[r] \in {"running", "lapsed", "dead"} /\ UNCHANGED <<slot, sure>>
        /\ door' = door \cup {r}
    BY <1>2 DEF DoorAuthorized, In, lease, told
  <2> QED BY <1>1, <2>1, OwnStepSole DEF DriversHold, Driving
<1>3. CASE DoorAsks(r)
  <2> DEFINE held  == Live(slot, now) /\ slot.run = r
             token == IF slot # NoLease /\ slot.run = r THEN slot.token ELSE lapsed[r]
             takes == ~Live(slot, now) /\ token # NoToken /\ Reclaimable(slot, now, r, token)
  <2>1. /\ door' = door \ {r} /\ ~Unborn(r)
        /\ sure' = IF held THEN [sure EXCEPT ![r] = slot.until]
                   ELSE IF takes THEN [sure EXCEPT ![r] = now + HoldTtl] ELSE sure
        /\ IF takes THEN slot' = Row(r, token, now + HoldTtl) ELSE slot' = slot
    BY <1>1, <1>3 DEF DoorAsks, UnbornIdle
  <2>2. /\ token \in Nat /\ phase[r] \notin {"new", "refused", "submitted"}
        /\ now + HoldTtl \in Nat
    BY <1>1, <2>1, ConstantsAssumption DEF TypeOK, Rows, Unborn, In
  <2>3. CASE held
    <3>1. ~takes /\ slot # NoLease /\ slot.run = r /\ slot.until \in Nat
      BY <1>1, <2>3 DEF Live, TypeOK, Rows
    <3> HIDE DEF held, takes, token
    <3>2. sure'[r] = slot.until /\ \A x \in Runs \ {r} : sure'[x] = sure[x]
      BY <1>1, <2>1, <2>3, SureIs
    <3> QED BY <1>1, <2>1, <2>2, <3>1, <3>2, OwnStepSole
  <2>4. CASE takes
    <3>1. ~held /\ (slot # NoLease => slot.run = r /\ token = slot.token)
      BY <2>4 DEF Reclaimable, Holds
    <3> HIDE DEF held, takes, token
    <3>2. /\ slot' # NoLease /\ slot'.run = r /\ slot'.token = token
          /\ slot'.until = now + HoldTtl /\ slot'.until > now
      BY <1>1, <2>1, <2>2, <2>4, HoldRow
    <3>3. sure'[r] = now + HoldTtl /\ \A x \in Runs \ {r} : sure'[x] = sure[x]
      BY <1>1, <2>1, <2>4, <3>1, SureIs
    <3> QED BY <1>1, <2>1, <2>2, <3>1, <3>2, <3>3, OwnStepSole
  <2>5. CASE ~held /\ ~takes
    <3> HIDE DEF held, takes, token
    <3> QED BY <1>1, <2>1, <2>2, <2>5, OwnStepSole DEF DriversHold, Driving
  <2> QED BY <2>3, <2>4, <2>5
<1> QED BY <1>2, <1>3

\* A run over its lease: released when it holds it, with the phase already moved.
LEMMA OverSole ==
    ASSUME IInv, IInv', SoleInv, NEW r \in Runs, phase[r] \in {"ending", "dead"},
           Becomes(r, "over"), sure' = [sure EXCEPT ![r] = 0], UNCHANGED <<now, door>>,
           \/ UNCHANGED <<slot, queue, boots>>
           \/ slot # NoLease /\ slot.run = r /\ HandOn(queue, "release", {}, boots)
    PROVE  SoleInv'
<1>1. TypeOK /\ DriversHold /\ RoomHolds /\ \A b \in boots : b.run \in Runs
  BY DEF IInv, TypeOK, Boots, SoleInv, Arbiters, Ignitions
<1>2. phase'[r] = "over" /\ \A x \in Runs \ {r} : phase'[x] = phase[x]
  BY <1>1, BecomesIs
<1>3. sure'[r] = 0 /\ \A x \in Runs \ {r} : sure'[x] = sure[x]
  BY <1>1, SureIs
<1>4. CASE UNCHANGED <<slot, queue, boots>>
  BY <1>1, <1>2, <1>3, <1>4, OwnStepSole
<1>5. CASE slot # NoLease /\ slot.run = r /\ HandOn(queue, "release", {}, boots)
  <2>1. ASSUME NEW x \in Runs PROVE phase'[x] \in {"new", "over"} \/ ~(sure'[x] > now)
    BY <1>1, <1>2, <1>3, <1>5 DEF DriversHold, Driving
  <2>2. ASSUME NEW b \in boots, InRoom(b) PROVE b \in boots /\ phase'[b.run] = "over"
    BY <1>1, <1>2, <1>5, <2>2 DEF RoomHolds, Holds, In
  <2>3. HandOn(queue, "release", {}, boots)
    BY <1>5
  <2> QED BY <1>2, <1>3, <2>1, <2>2, <2>3, FreedSole
<1> QED BY <1>4, <1>5

LEMMA ReleaseSole == ASSUME IInv, IInv', SoleInv, NEW r \in Runs, Release(r) PROVE SoleInv'
<1>1. /\ phase[r] \in {"ending", "dead"} /\ Becomes(r, "over")
      /\ sure' = [sure EXCEPT ![r] = 0] /\ UNCHANGED <<now, door>>
  BY DEF Release, In
<1>2. \/ UNCHANGED <<slot, queue, boots>>
      \/ slot # NoLease /\ slot.run = r /\ HandOn(queue, "release", {}, boots)
  BY DEF Release, ReleaseDispatchLease, Holds, lease
<1> QED BY <1>1, <1>2, OverSole

LEMMA OrphanSole == ASSUME IInv, IInv', SoleInv, NEW r \in Runs, Orphan(r) PROVE SoleInv'
<1>1. /\ phase[r] \in {"ending", "dead"} /\ Becomes(r, "over")
      /\ sure' = [sure EXCEPT ![r] = 0] /\ UNCHANGED <<now, door>>
  BY DEF Orphan, In
<1>2. \/ UNCHANGED <<slot, queue, boots>>
      \/ slot # NoLease /\ slot.run = r /\ HandOn(queue, "release", {}, boots)
  BY DEF Orphan, ReleaseDispatchLease, Holds, lease
<1> QED BY <1>1, <1>2, OverSole

\* An ignition that made no Workflow is gone, and the lease taken for it with it.
LEMMA DroppedSole ==
    ASSUME IInv, SoleInv, NEW b \in boots, ~b.created,
           UNCHANGED <<now, phase, sure, door, queue>>, boots' = boots \ {b},
           slot' = slot \/ (slot' = NoLease /\ slot # NoLease /\ slot.run = b.run)
    PROVE  SoleInv'
<1>1. /\ DriversHold /\ UnbornIdle /\ EarlyOut /\ Uncreated /\ OneBoot /\ RoomHolds
      /\ RoomLives /\ SubmitApart /\ RowsBoot
  BY DEF SoleInv, Arbiters, Ignitions
<1>2. b.run \in Runs /\ phase[b.run] \in {"submitted", "over"} /\ now \in Nat
  BY <1>1 DEF IInv, TypeOK, Boots, Uncreated, In
<1>3. DriversHold'
  BY <1>1, <1>2 DEF DriversHold, Driving, UnbornIdle, Unborn, In
<1>4. UnbornIdle' /\ EarlyOut'
  BY <1>1 DEF UnbornIdle, Unborn, EarlyOut, Early, In
<1>5. Uncreated' /\ OneBoot' /\ SubmitApart'
  BY <1>1 DEF Uncreated, OneBoot, SubmitApart, In
<1>6. RoomHolds'
  BY <1>1, <1>2 DEF RoomHolds, OneBoot, Holds, In
<1>7. RoomLives'
  BY <1>1 DEF RoomLives, Holds
<1>8. RowsBoot'
  BY <1>1, <1>2 DEF RowsBoot, In
<1> QED BY <1>3, <1>4, <1>5, <1>6, <1>7, <1>8 DEF SoleInv, Arbiters, Ignitions

LEMMA BootFailsSole ==
    ASSUME InTimeOnly, IInv, IInv', SoleInv, NEW b \in boots, BootFails(b) PROVE SoleInv'
<1>1. DriversHold /\ UnbornIdle /\ Uncreated /\ OneBoot /\ RoomHolds
  BY DEF SoleInv, Arbiters, Ignitions
<1>2. ~b.created /\ UNCHANGED <<now, phase, sure, door>>
  BY DEF BootFails, InTimeOnly
<1>3. /\ b.run \in Runs /\ phase[b.run] \in {"submitted", "over"} /\ now \in Nat
      /\ \A c \in boots : c.run \in Runs
  BY <1>1, <1>2 DEF IInv, TypeOK, Boots, Uncreated, In
<1>4. CASE InRoom(b)
  <2>1. boots' = boots \ {b} /\ queue' = queue /\ slot' = AfterDelete(slot, b.run, b.token)
    BY <1>4 DEF BootFails
  <2>2. slot' = slot \/ (slot' = NoLease /\ slot # NoLease /\ slot.run = b.run)
    BY <2>1 DEF AfterDelete, Holds
  <2>3. UNCHANGED <<now, phase, sure, door, queue>>
    BY <1>2, <2>1
  <2> QED BY <1>2, <2>1, <2>2, <2>3, DroppedSole
<1>5. CASE ~InRoom(b) /\ ~Holds(slot, b.run, b.token)
  <2>1. boots' = boots \ {b} /\ queue' = queue /\ slot' = slot
    BY <1>5 DEF BootFails, ReleaseDispatchLease, lease
  <2>2. UNCHANGED <<now, phase, sure, door, queue>>
    BY <1>2, <2>1
  <2> QED BY <1>2, <2>1, <2>2, DroppedSole
<1>6. CASE ~InRoom(b) /\ Holds(slot, b.run, b.token)
  <2>1. HandOn(queue, "release", {}, boots \ {b})
    BY <1>6 DEF BootFails, ReleaseDispatchLease
  <2>2. ASSUME NEW x \in Runs PROVE phase'[x] \in {"new", "over"} \/ ~(sure'[x] > now)
    BY <1>1, <1>2, <1>3, <1>6 DEF DriversHold, Driving, UnbornIdle, Unborn, In, Holds
  <2>3. ASSUME NEW c \in boots, InRoom(c) PROVE c \in boots \ {b} /\ phase'[c.run] = "over"
    BY <1>1, <1>2, <1>3, <1>6, <2>3 DEF RoomHolds, OneBoot, Holds, In
  <2>4. /\ \A x \in Runs : phase'[x] = phase[x] /\ sure'[x] = sure[x]
        /\ queue \in SUBSET queue /\ boots \ {b} \in SUBSET boots
    BY <1>2
  <2>5. ASSUME NEW others \in SUBSET boots, HandOn(queue, "release", {}, others),
               \A c \in boots : InRoom(c) => c \in others /\ phase'[c.run] = "over"
        PROVE  SoleInv'
    BY <1>2, <2>2, <2>4, <2>5, FreedSole
  <2> QED BY <2>1, <2>3, <2>4, <2>5
<1> QED BY <1>4, <1>5, <1>6

\* Rows of the queue are withdrawn or expire.
LEMMA FewerRowsSole ==
    ASSUME IInv, SoleInv, queue' \subseteq queue,
           UNCHANGED <<slot, boots, now, phase, door, sure>>
    PROVE  SoleInv'
<1>1. /\ DriversHold /\ UnbornIdle /\ EarlyOut /\ Uncreated /\ OneBoot /\ RoomHolds
      /\ RoomLives /\ SubmitApart /\ RowsBoot
  BY DEF SoleInv, Arbiters, Ignitions
<1>2. DriversHold' /\ UnbornIdle'
  BY <1>1 DEF DriversHold, Driving, UnbornIdle, Unborn, In
<1>3. EarlyOut' /\ SubmitApart' /\ RowsBoot'
  BY <1>1 DEF EarlyOut, Early, SubmitApart, RowsBoot, RunsIn, In
<1>4. Uncreated' /\ OneBoot' /\ RoomHolds' /\ RoomLives'
  BY <1>1 DEF Uncreated, OneBoot, RoomHolds, RoomLives, Holds, In
<1> QED BY <1>2, <1>3, <1>4 DEF SoleInv, Arbiters, Ignitions

LEMMA AlarmSole == ASSUME IInv, IInv', SoleInv, Alarm PROVE SoleInv'
<1> DEFINE gone == PastDue(queue, slot)
<1>1. /\ DriversHold /\ UnbornIdle /\ EarlyOut /\ Uncreated /\ OneBoot /\ RoomHolds
      /\ RoomLives /\ SubmitApart /\ RowsBoot
  BY DEF SoleInv, Arbiters, Ignitions
<1>2. /\ UNCHANGED <<now, phase, door, sure>>
      /\ TypeOK /\ now \in Nat /\ sure \in [Runs -> Nat]
      /\ slot # NoLease => slot.until \in Nat
  BY DEF Alarm, told, IInv, TypeOK, Rows
<1>3. CASE Due(slot, now)
  <2>1. HandOn(queue \ gone, "alarm", gone, boots) /\ slot # NoLease /\ slot.until <= now
    BY <1>3 DEF Alarm, Due
  <2>2. ASSUME NEW x \in Runs PROVE phase'[x] \in {"new", "over"} \/ ~(sure'[x] > now)
    BY <1>1, <1>2, <2>1 DEF DriversHold, Driving
  <2>3. ASSUME NEW c \in boots, InRoom(c) PROVE c \in boots /\ phase'[c.run] = "over"
    BY <1>1, <1>2, <2>1, <2>3 DEF RoomHolds, RoomLives, In
  <2>4. \A x \in Runs : phase'[x] = phase[x] /\ sure'[x] = sure[x]
    BY <1>2
  <2> HIDE DEF gone
  <2>5. queue \ gone \in SUBSET queue /\ boots \in SUBSET boots
    OBVIOUS
  <2> QED BY <1>2, <2>1, <2>2, <2>3, <2>4, <2>5, FreedSole
<1>4. CASE ~Due(slot, now)
  <2>1. queue' \subseteq queue /\ UNCHANGED <<slot, boots, now, phase, door, sure>>
    BY <1>2, <1>4 DEF Alarm, lease
  <2> QED BY <2>1, FewerRowsSole
<1> QED BY <1>3, <1>4

LEMMA SubmitSole == ASSUME IInv, IInv', SoleInv, NEW r \in Runs, Submit(r) PROVE SoleInv'
<1>1. /\ DriversHold /\ UnbornIdle /\ EarlyOut /\ Uncreated /\ OneBoot /\ RoomHolds
      /\ RoomLives /\ SubmitApart /\ RowsBoot
  BY DEF SoleInv, Arbiters, Ignitions
<1>2. /\ phase[r] = "new" /\ sure[r] = 0 /\ r \notin door /\ r \notin RunsIn(queue)
      /\ \A b \in boots : b.run # r
      /\ slot # NoLease => slot.run # r
  BY <1>1 DEF Submit, In, UnbornIdle, Unborn, EarlyOut, Early
<1>3. /\ TypeOK /\ now \in Nat /\ \A b \in boots : b.run \in Runs
      /\ UNCHANGED <<now, queue, door, sure>> /\ minted + 1 \in Nat
  BY DEF IInv, TypeOK, Boots, Submit, told
<1>4. CASE Acquirable(slot, now, r)
  <2> DEFINE mine == [run |-> r, token |-> minted + 1, by |-> "submit", created |-> FALSE]
  <2>1. ~Live(slot, now)
    BY <1>2, <1>4 DEF Acquirable, Live
  <2>2. /\ slot' = Row(r, minted + 1, now + HoldTtl) /\ boots' = boots \cup {mine}
        /\ Becomes(r, "submitted")
    BY <1>4, <2>1 DEF Submit, Acquired
  <2>3. mine.run = r /\ ~InRoom(mine)
    BY DEF InRoom
  <2> HIDE DEF mine
  <2>4. /\ slot' # NoLease /\ slot'.run = r /\ slot'.until > now
    BY <1>3, <2>2, HoldRow
  <2>5. phase'[r] = "submitted" /\ \A x \in Runs \ {r} : phase'[x] = phase[x]
    BY <1>3, <2>2, BecomesIs
  <2>6. DriversHold'
    BY <1>1, <1>2, <1>3, <2>1, <2>5 DEF DriversHold, Driving, Live, TypeOK, Rows
  <2>7. UnbornIdle' /\ EarlyOut'
    BY <1>1, <1>2, <1>3, <2>2, <2>3, <2>4, <2>5 DEF UnbornIdle, Unborn, EarlyOut, Early, In
  <2>8. Uncreated' /\ OneBoot' /\ SubmitApart'
    BY <1>1, <1>2, <1>3, <2>2, <2>3, <2>5 DEF Uncreated, OneBoot, SubmitApart, In
  <2>9. RoomHolds'
    BY <1>1, <1>2, <1>3, <2>1, <2>2, <2>3, <2>5 DEF RoomHolds, RoomLives, Holds, Live, In
  <2>10. RoomLives'
    BY <1>3, <2>4 DEF RoomLives
  <2>11. RowsBoot'
    BY <1>1, <1>2, <1>3, <2>2, <2>5 DEF RowsBoot, In, RunsIn, TypeOK, Entries
  <2> QED BY <2>6, <2>7, <2>8, <2>9, <2>10, <2>11 DEF SoleInv, Arbiters, Ignitions
<1>5. CASE ~Acquirable(slot, now, r)
  <2>1. Becomes(r, "refused") /\ UNCHANGED <<slot, boots>>
    BY <1>5 DEF Submit
  <2>2. phase'[r] = "refused" /\ \A x \in Runs \ {r} : phase'[x] = phase[x]
    BY <1>3, <2>1, BecomesIs
  <2>3. DriversHold'
    BY <1>1, <1>2, <1>3, <2>1, <2>2 DEF DriversHold, Driving
  <2>4. UnbornIdle' /\ EarlyOut'
    BY <1>1, <1>2, <1>3, <2>1, <2>2 DEF UnbornIdle, Unborn, EarlyOut, Early, In
  <2>5. Uncreated' /\ OneBoot' /\ SubmitApart'
    BY <1>1, <1>2, <1>3, <2>1, <2>2 DEF Uncreated, OneBoot, SubmitApart, In
  <2>6. RoomHolds' /\ RoomLives'
    BY <1>1, <1>2, <1>3, <2>1, <2>2 DEF RoomHolds, RoomLives, Holds, In
  <2>7. RowsBoot'
    BY <1>1, <1>2, <1>3, <2>1, <2>2 DEF RowsBoot, In, RunsIn, TypeOK, Entries
  <2> QED BY <2>3, <2>4, <2>5, <2>6, <2>7 DEF SoleInv, Arbiters, Ignitions
<1> QED BY <1>4, <1>5

LEMMA CancelSole == ASSUME IInv, SoleInv, NEW r \in Runs, Cancel(r) PROVE SoleInv'
<1>1. queue' \subseteq queue /\ UNCHANGED <<slot, boots, now, phase, door, sure>>
  BY DEF Cancel, lease, told
<1> QED BY <1>1, FewerRowsSole

LEMMA ParkSole == ASSUME IInv, IInv', SoleInv, NEW r \in Runs, Park(r) PROVE SoleInv'
<1> DEFINE gone == PastDue(queue, slot)
           mine == [run |-> r, at |-> now, until |-> now + Window[r],
                    waits |-> r \in WaitsFor, window |-> Window[r]]
           rows == queue \ gone
<1>1. /\ DriversHold /\ UnbornIdle /\ EarlyOut /\ Uncreated /\ OneBoot /\ RoomHolds
      /\ RoomLives /\ SubmitApart /\ RowsBoot
  BY DEF SoleInv, Arbiters, Ignitions
<1>2. /\ queue' = Joined(rows, mine) /\ phase[r] = "refused" /\ Becomes(r, "submitted")
      /\ UNCHANGED <<slot, boots, now, door, sure>>
  BY DEF Park, lease, told, In
<1>3. /\ sure[r] = 0 /\ r \notin door /\ \A b \in boots : b.run # r
      /\ TypeOK /\ now \in Nat /\ \A b \in boots : b.run \in Runs
  BY <1>1, <1>2 DEF UnbornIdle, Unborn, EarlyOut, Early, In, IInv, TypeOK, Boots
<1>4. phase'[r] = "submitted" /\ \A x \in Runs \ {r} : phase'[x] = phase[x]
  BY <1>2, <1>3, BecomesIs
<1>5. mine.run = r /\ rows \subseteq queue /\ rows \subseteq Entries
  BY <1>3 DEF TypeOK
<1> HIDE DEF gone, mine, rows
<1>6. ASSUME NEW e \in rows PROVE Widened(e, mine).run = e.run
  <2>1. PICK b, u, w : /\ b = (e.waits \/ mine.waits) /\ u = Later(e.until, mine.until)
                       /\ w = Later(e.window, mine.window)
    OBVIOUS
  <2>2. Widened(e, mine) = [e EXCEPT !.waits = b, !.window = w, !.until = u]
    BY <2>1, Zenon DEF Widened
  <2> QED BY <1>5, <2>2 DEF Entries
<1>7. ASSUME NEW e \in queue' PROVE e.run = r \/ \E f \in queue : f.run = e.run
  BY <1>2, <1>5, <1>6 DEF Joined, ParkedAlready
<1>8. DriversHold'
  BY <1>1, <1>2, <1>3, <1>4 DEF DriversHold, Driving
<1>9. UnbornIdle'
  BY <1>1, <1>2, <1>3, <1>4 DEF UnbornIdle, Unborn, In
<1>10. RunsIn(queue') \subseteq RunsIn(queue) \cup {r}
  BY <1>7 DEF RunsIn
<1>11. EarlyOut' /\ SubmitApart'
  BY <1>1, <1>2, <1>3, <1>4, <1>10 DEF EarlyOut, Early, SubmitApart, In
<1>12. RowsBoot'
  <2>1. \A f \in queue : f.run \in Runs
    BY <1>3 DEF TypeOK, Entries
  <2> SUFFICES ASSUME NEW e \in queue'
               PROVE  \/ phase'[e.run] \in {"submitted", "over"}
                      \/ \E b \in boots : InRoom(b) /\ b.run = e.run
    BY <1>2 DEF RowsBoot, In
  <2> QED BY <1>1, <1>4, <1>7, <2>1 DEF RowsBoot, In
<1>13. Uncreated' /\ OneBoot' /\ RoomHolds' /\ RoomLives'
  BY <1>1, <1>2, <1>3, <1>4 DEF Uncreated, OneBoot, RoomHolds, RoomLives, Holds, In
<1> QED BY <1>8, <1>9, <1>11, <1>12, <1>13 DEF SoleInv, Arbiters, Ignitions

LEMMA BootSole == ASSUME IInv, IInv', SoleInv, NEW b \in boots, Boot(b) PROVE SoleInv'
<1> DEFINE made == [b EXCEPT !.created = TRUE]
<1>1. /\ DriversHold /\ UnbornIdle /\ EarlyOut /\ Uncreated /\ OneBoot /\ RoomHolds
      /\ RoomLives /\ SubmitApart /\ RowsBoot
  BY DEF SoleInv, Arbiters, Ignitions
<1>2. /\ ~b.created /\ phase[b.run] = "submitted" /\ Becomes(b.run, "running")
      /\ boots' = (boots \ {b}) \cup {made}
      /\ UNCHANGED <<slot, queue, now, door, sure>>
  BY DEF Boot, lease, told, In
<1>3. /\ TypeOK /\ now \in Nat /\ b \in Boots /\ b.run \in Runs
      /\ \A c \in boots : c.run \in Runs
      /\ \A e \in queue : e.run \in Runs
  BY DEF IInv, TypeOK, Boots, Entries
<1>4. /\ made.run = b.run /\ made.token = b.token /\ made.by = b.by /\ made.created
      /\ InRoom(made) <=> InRoom(b)
  BY <1>3 DEF Boots, InRoom
<1> HIDE DEF made
<1>5. phase'[b.run] = "running" /\ \A x \in Runs \ {b.run} : phase'[x] = phase[x]
  BY <1>2, <1>3, BecomesIs
<1>6. sure[b.run] = 0 /\ \A c \in boots : c.run = b.run => c = b
  BY <1>1, <1>2, <1>3 DEF UnbornIdle, Unborn, OneBoot, In
<1>7. DriversHold'
  BY <1>1, <1>2, <1>3, <1>5, <1>6 DEF DriversHold, Driving
<1>8. UnbornIdle' /\ EarlyOut'
  BY <1>1, <1>2, <1>3, <1>4, <1>5 DEF UnbornIdle, Unborn, EarlyOut, Early, In
<1>9. Uncreated' /\ OneBoot' /\ SubmitApart'
  BY <1>1, <1>2, <1>3, <1>4, <1>5, <1>6 DEF Uncreated, OneBoot, SubmitApart, In
<1>10. RoomHolds' /\ RoomLives'
  BY <1>1, <1>2, <1>3, <1>4, <1>5 DEF RoomHolds, RoomLives, Holds, In
<1>11. RowsBoot'
  BY <1>1, <1>2, <1>3, <1>4, <1>5 DEF RowsBoot, SubmitApart, RunsIn, In
<1> QED BY <1>7, <1>8, <1>9, <1>10, <1>11 DEF SoleInv, Arbiters, Ignitions

LEMMA BootDoneSole == ASSUME IInv, SoleInv, NEW b \in boots, BootDone(b) PROVE SoleInv'
<1>1. /\ DriversHold /\ UnbornIdle /\ EarlyOut /\ Uncreated /\ OneBoot /\ RoomHolds
      /\ RoomLives /\ SubmitApart /\ RowsBoot
  BY DEF SoleInv, Arbiters, Ignitions
<1>2. /\ boots' = boots \ {b} /\ queue' \subseteq queue
      /\ InRoom(b) => \A e \in queue' : e.run # b.run
      /\ UNCHANGED <<slot, phase, now, door, sure>>
  BY DEF BootDone, lease, told
<1>3. DriversHold' /\ UnbornIdle'
  BY <1>1, <1>2 DEF DriversHold, Driving, UnbornIdle, Unborn, In
<1>4. EarlyOut' /\ SubmitApart' /\ RowsBoot'
  BY <1>1, <1>2 DEF EarlyOut, Early, SubmitApart, RowsBoot, RunsIn, In
<1>5. Uncreated' /\ OneBoot' /\ RoomHolds' /\ RoomLives'
  BY <1>1, <1>2 DEF Uncreated, OneBoot, RoomHolds, RoomLives, Holds, In
<1> QED BY <1>3, <1>4, <1>5 DEF SoleInv, Arbiters, Ignitions

LEMMA TickSole == ASSUME InTimeOnly, IInv, SoleInv, Tick PROVE SoleInv'
<1>1. /\ DriversHold /\ UnbornIdle /\ EarlyOut /\ Uncreated /\ OneBoot /\ RoomHolds
      /\ RoomLives /\ SubmitApart /\ RowsBoot
  BY DEF SoleInv, Arbiters, Ignitions
<1>2. /\ \A b \in boots : InRoom(b) => InTime(b)
      /\ now' = now + 1 /\ now \in Nat /\ sure \in [Runs -> Nat]
      /\ UNCHANGED <<slot, boots, queue, phase, door, sure>>
  BY DEF Tick, InTimeOnly, lease, told, IInv, TypeOK
<1>3. DriversHold'
  <2> SUFFICES ASSUME NEW x \in Runs, phase[x] \notin {"new", "over"}, sure[x] > now + 1
               PROVE  slot # NoLease /\ slot.run = x /\ slot.until >= sure[x]
    BY <1>2 DEF DriversHold, Driving
  <2>1. sure[x] > now
    BY <1>2
  <2> QED BY <1>1, <2>1 DEF DriversHold, Driving
<1>4. UnbornIdle' /\ EarlyOut'
  BY <1>1, <1>2 DEF UnbornIdle, Unborn, EarlyOut, Early, In
<1>5. Uncreated' /\ OneBoot' /\ RoomHolds' /\ SubmitApart' /\ RowsBoot'
  BY <1>1, <1>2 DEF Uncreated, OneBoot, RoomHolds, SubmitApart, RowsBoot, Holds, In
<1>6. RoomLives'
  BY <1>2 DEF RoomLives, InTime, Holds
<1> QED BY <1>3, <1>4, <1>5, <1>6 DEF SoleInv, Arbiters, Ignitions

LEMMA SoleStays == ASSUME SoleInv, UNCHANGED vars PROVE SoleInv'
BY DEF vars, lease, told, SoleInv, Arbiters, Ignitions, DriversHold, Driving, UnbornIdle,
       Unborn, EarlyOut, Early, Uncreated, OneBoot, RoomHolds, RoomLives, SubmitApart,
       RowsBoot, Holds, In

LEMMA NextSole == ASSUME InTimeOnly, IInv, IInv', SoleInv, [Next]_vars PROVE SoleInv'
<1>1. ASSUME NEW r \in Runs, Submit(r) \/ Park(r) \/ Cancel(r) PROVE SoleInv'
  BY <1>1, SubmitSole, ParkSole, CancelSole
<1>2. ASSUME NEW r \in Runs, Supervised(r) PROVE SoleInv'
  BY <1>2, RenewSole, ReclaimSole, EndsSole, ReleaseSole, OrphanSole DEF Supervised
<1>3. ASSUME NEW r \in Runs, DoorAuthorized(r) \/ DoorAsks(r) PROVE SoleInv'
  BY <1>3, DoorSole
<1>4. ASSUME NEW b \in boots, Boot(b) \/ BootDone(b) \/ BootFails(b) PROVE SoleInv'
  BY <1>4, BootSole, BootDoneSole, BootFailsSole
<1>5. CASE Crash
  BY <1>5 DEF Crash, InTimeOnly
<1> QED BY <1>1, <1>2, <1>3, <1>4, <1>5, AlarmSole, TickSole, SoleStays DEF Next, Booting

LEMMA InitSole == Init => SoleInv
BY DEF Init, SoleInv, Arbiters, Ignitions, DriversHold, Driving, UnbornIdle, Unborn,
       EarlyOut, Early, Uncreated, OneBoot, RoomHolds, RoomLives, SubmitApart, RowsBoot,
       RunsIn, In

\* D4, one arbiter per project, where ignitions end in time and nothing is lost
\* inside one: of the runs that are not over, at most one was told of a hold on
\* the lease that has not run out (run-room.ts, acquire, renew and reclaim).
THEOREM OnlyOneArbiter == ASSUME InTimeOnly PROVE Spec => []OneArbiter
<1>1. IInv /\ SoleInv /\ [Next]_vars /\ IInv' => SoleInv'
  BY NextSole
<1>2. SoleInv => OneArbiter
  BY DEF SoleInv, Arbiters, DriversHold, OneArbiter
<1> QED BY <1>1, <1>2, InitSole, Invariance, PTL DEF Spec
=============================================================================
