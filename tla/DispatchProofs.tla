--------------------------- MODULE DispatchProofs ---------------------------
(***************************************************************************)
(* Theorems about Dispatch for every set of ticks, every ladder and bound  *)
(* on retries and attempts.  With everything of Events allowed: the shape  *)
(* of the state, that a live attempt is never redispatched over, and that  *)
(* no work is orphaned.  Where hosts are kept and no running job is given  *)
(* up as overdue: that the run's releases are bounded by the ladder.       *)
(* Where hosts are kept and the releases the ladder grants are recorded:   *)
(* that a recorded verdict stands.                                         *)
(***************************************************************************)
EXTENDS Dispatch, FiniteSetTheorems, WellFoundedInduction, TLAPS

-----------------------------------------------------------------------------
(* Helpers: the latest and the earliest of some attempts, their number, and *)
(* what a tear-down, a release and a rejection on record are.               *)

LEMMA Earliest ==
    ASSUME NEW ns \in SUBSET Nat, ns # {}
    PROVE  Min(ns) \in ns /\ \A n \in ns : Min(ns) <= n
<1> DEFINE less == {ss \in Nat \X Nat : ss[1] < ss[2]}
<1>1. IsWellFoundedOn(less, Nat)
  BY NatLessThanWellFounded DEF OpToRel
<1>2. PICK m \in ns : \A x \in ns : ~ (<<x, m>> \in less)
  <2> HIDE DEF less
  <2> QED BY <1>1, WFMin
<1>3. ASSUME NEW x \in ns PROVE m <= x
  <2>1. m \in Nat /\ x \in Nat
    OBVIOUS
  <2>2. ~ (x < m)
    BY <1>2, <2>1
  <2> QED BY <2>1, <2>2
<1> QED BY <1>3 DEF Min

LEMMA Latest ==
    ASSUME NEW bound \in Nat, NEW ns \in SUBSET (0 .. bound), ns # {}
    PROVE  Max(ns) \in ns /\ \A n \in ns : n <= Max(ns)
<1> DEFINE back == {k \in Nat : k <= bound /\ bound - k \in ns}
<1>1. ASSUME NEW n \in ns PROVE n \in Nat /\ bound - n \in back
  <2>1. n \in Nat /\ n <= bound /\ bound - n \in Nat /\ bound - (bound - n) = n
    OBVIOUS
  <2> QED BY <2>1
<1>2. PICK b \in back : \A c \in back : b <= c
  <2>1. back \in SUBSET Nat /\ back # {}
    BY <1>1
  <2> HIDE DEF back
  <2> QED BY <2>1, Earliest
<1> DEFINE m == bound - b
<1>3. m \in ns /\ b \in Nat /\ m \in Nat
  BY <1>2
<1>4. ASSUME NEW n \in ns PROVE m >= n
  <2>1. b <= bound - n /\ n \in Nat
    BY <1>1, <1>2
  <2> QED BY <2>1, <1>3
<1> HIDE DEF m
<1>5. ASSUME NEW x \in ns, \A y \in ns : x >= y PROVE x = m
  <2>1. x >= m /\ m >= x /\ x \in Nat
    BY <1>1, <1>3, <1>4, <1>5
  <2> QED BY <2>1, <1>3
<1>6. Max(ns) = m
  BY <1>3, <1>4, <1>5 DEF Max
<1> QED BY <1>1, <1>3, <1>4, <1>6

\* A set of attempts counts no more than there may be.
LEMMA Counted ==
    ASSUME NEW ns \in SUBSET (1 .. last), last \in 0 .. MaxAttempt
    PROVE  Cardinality(ns) \in 0 .. MaxAttempt
<1>1. MaxAttempt \in Nat /\ last \in Nat /\ last <= MaxAttempt
  BY ConstantsAssumption
<1>2. IsFiniteSet(1 .. last) /\ Cardinality(1 .. last) <= last
  BY <1>1, FS_Interval
<1>3. IsFiniteSet(ns) /\ Cardinality(ns) <= Cardinality(1 .. last)
  BY <1>2, FS_Subset
<1>4. Cardinality(ns) \in Nat /\ Cardinality(1 .. last) \in Nat
  BY <1>2, <1>3, FS_CardinalityType
<1> QED BY <1>1, <1>2, <1>3, <1>4

LEMMA Tiers ==
    ASSUME NEW failed \in Nat
    PROVE  Tier(failed) \in 0 .. Ceiling
BY ConstantsAssumption DEF Tier

-----------------------------------------------------------------------------
(* The shape of the state, part by part, with what it rests on: an attempt  *)
(* placed has its tick and carries attempts placed, one not placed has left *)
(* nothing, and what is under way names its attempt.                        *)

TryShape  == [tick : Tick, tier : 0 .. Ceiling, under : Commits]
RelShape  == [by : {"none", "person", "run"}, carry : BOOLEAN,
              step : {"none", "escalate", "ceiling"}]
Rulings   == {"none", "unclear", "carry", "fresh"}
Jobs      == {"none", "running", "lost"} \cup Terminal
Whys      == {"boundary", "missing", "nocommits", "other"}
DispSteps == {"none", "adopt", "restart", "place", "claim", "start", "note"}
FinSteps  == {"none", "collect", "reject", "release", "merge", "gate", "close"}
Rows      == [Ticks -> Row]

RowsOK  == row \in Rows /\ mem \in Rows
TriesOK == /\ last \in 0 .. MaxAttempt /\ tries \in [Numbers -> TryShape]
           /\ \A n \in 1 .. last : tries[n].tick \in Ticks /\ tries[n].under \subseteq 1 .. last
RelOK   == /\ rel \in [Numbers -> RelShape]
           /\ \A n \in Numbers : n > last => rel[n] = NoRel
RuledOK == ruled \in [Numbers -> Rulings]
DoneOK  == /\ judged \subseteq 1 .. last /\ merged \subseteq 1 .. last
           /\ delivered \subseteq 1 .. last /\ stray \subseteq 1 .. last
           /\ unaddressed \subseteq 1 .. last
HostOK  == /\ job \in [Numbers -> Jobs] /\ work \in [Numbers -> SUBSET {"local", "origin"}]
           /\ \A n \in Numbers : n > last => job[n] = "none" /\ work[n] = {}
WindowOK == /\ pc \in {"up", "down"} /\ queue \subseteq Ticks
            /\ live \subseteq 1 .. last /\ settled \subseteq 1 .. last /\ bare \subseteq 1 .. last
DispOK  == /\ disp \in [at : DispSteps, tick : Tick, n : 0 .. last, failed : 0 .. MaxAttempt,
                         carry : 0 .. last]
           /\ disp.at # "none" => disp.tick \in Ticks
           /\ disp.at \notin {"none", "place"} => disp.n \in 1 .. last /\ tries[disp.n].tick = disp.tick
FinOK   == /\ fin \in [at : FinSteps, n : 0 .. last, head : 0 .. last,
                        why : {"none", "boundary", "missing", "nocommits"}, again : BOOLEAN]
           /\ fin.at # "none" => fin.n \in 1 .. last
           /\ fin.at = "reject" => fin.why # "none"
HeldOK  == /\ parked \in Seq([tick : Ticks, why : Whys]) /\ retried \in [Ticks -> 0 .. MaxRetries]

TypeInv == /\ RowsOK /\ TriesOK /\ RelOK /\ RuledOK /\ DoneOK /\ HostOK /\ WindowOK
           /\ DispOK /\ FinOK /\ HeldOK

LEMMA TypeInvType == TypeInv => TypeOK
<1> USE DEF Rows, TryShape, RelShape, Rulings, Jobs, DispSteps, FinSteps, Whys
<1> SUFFICES ASSUME TypeInv PROVE TypeOK
  OBVIOUS
<1>1. RowsOK /\ TriesOK /\ RelOK /\ RuledOK /\ DoneOK /\ HostOK /\ WindowOK /\ DispOK /\ FinOK /\ HeldOK
  BY DEF TypeInv
<1> QED BY <1>1 DEF TypeOK, RowsOK, TriesOK, RelOK, RuledOK, DoneOK, HostOK, WindowOK, DispOK, FinOK, HeldOK

LEMMA AttemptsAre ==
    ASSUME last \in 0 .. MaxAttempt
    PROVE  1 .. last \subseteq Numbers /\ last \in Nat /\ last <= MaxAttempt /\ MaxAttempt \in Nat
BY ConstantsAssumption DEF Numbers

\* What a tear-down leaves of the jobs.
LEMMA TearsDown ==
    ASSUME HostOK, TriesOK, NEW ns \in SUBSET (1 .. last), NEW quits \in Quits(ns),
           NEW left, left = TornDown(ns, quits)
    PROVE  /\ left \in [Numbers -> Jobs]
           /\ \A n \in Numbers : (left[n] = "none" <=> job[n] = "none")
           /\ \A n \in Numbers : left[n] = "running" => job[n] = "running" /\ n \notin ns
BY DEF HostOK, TornDown, Quits, Jobs, Terminal, Alive

\* A checkpoint's reason only adds rulings.
LEMMA NamedType ==
    ASSUME NEW known \in [Numbers -> Rulings], NEW rows, NEW ticks, NEW whys
    PROVE  Named(known, rows, ticks, whys) \in [Numbers -> Rulings]
BY DEF Named, Class, Rulings

LEMMA RunReleaseType ==
    ASSUME NEW n, NEW carry \in BOOLEAN
    PROVE  RunRelease(n, carry) \in RelShape /\ RunRelease(n, carry).by = "run"
BY DEF RunRelease, RelShape

\* The commit an attempt is cut from, and the one it starts at.
LEMMA BaseIs ==
    ASSUME TriesOK, NEW n \in 1 .. last, Carries(n)
    PROVE  Base(n) \in 1 .. last
<1>1. last \in Nat /\ tries[n].under \in SUBSET (0 .. last) /\ tries[n].under # {}
  BY AttemptsAre DEF TriesOK, Carries
<1>2. Max(tries[n].under) \in tries[n].under
  BY <1>1, Latest
<1> QED BY <1>2 DEF TriesOK, Base

LEMMA CarryHeadIs ==
    ASSUME TriesOK, NEW n \in 1 .. last
    PROVE  CarryHead(n) \in 0 .. last
<1>1. last \in Nat
  BY AttemptsAre DEF TriesOK
<1>2. Delivery(n) => Base(n) \in 1 .. last
  BY BaseIs DEF Delivery
<1> QED BY <1>1, <1>2 DEF CarryHead

-----------------------------------------------------------------------------
(* Every step keeps the shape. *)

LEMMA DownTypes ==
    ASSUME row' \in Rows, last' \in 0 .. MaxAttempt, Down
    PROVE  RowsOK' /\ WindowOK' /\ DispOK' /\ FinOK' /\ HeldOK'
<1> USE DEF Down
<1>1. last' \in Nat /\ MaxAttempt \in Nat /\ MaxRetries \in Nat
  BY ConstantsAssumption
<1>2. RowsOK' /\ WindowOK'
  BY DEF RowsOK, WindowOK
<1>3. DispOK'
  BY <1>1 DEF DispOK, NoDisp, DispSteps, Tick
<1>4. FinOK'
  BY <1>1 DEF FinOK, NoFin, FinSteps
<1>5. parked' = <<>>
  OBVIOUS
<1>6. HeldOK'
  BY <1>1, <1>5 DEF HeldOK
<1> QED BY <1>2, <1>3, <1>4, <1>6

LEMMA StopTypes ==
    ASSUME RuledOK, NEW t, NEW rows \in Rows, last' \in 0 .. MaxAttempt, Stop(t, rows)
    PROVE  RowsOK' /\ RuledOK' /\ WindowOK' /\ DispOK' /\ FinOK' /\ HeldOK'
<1>1. row' \in Rows /\ Down
  BY DEF Stop
<1>2. ruled' \in [Numbers -> Rulings]
  BY NamedType DEF Stop, RuledOK
<1> QED BY <1>1, <1>2, DownTypes DEF RuledOK

\* A rejection and an opening of a tick are rows.
LEMMA RowTypes ==
    ASSUME NEW rows \in Rows, NEW t \in Ticks, NEW n \in 0 .. last, last \in 0 .. MaxAttempt,
           NEW state \in {"open", "rejected", "closed"}
    PROVE  /\ [rows EXCEPT ![t].state = state] \in Rows
           /\ [rows EXCEPT ![t].attempt = n] \in Rows
           /\ [rows EXCEPT ![t] = [state |-> state, attempt |-> n]] \in Rows
<1>1. n \in 0 .. MaxAttempt
  BY AttemptsAre
<1> QED BY <1>1 DEF Rows, Row

LEMMA HoldOnlyTypes ==
    ASSUME TypeInv, NEW n \in 1 .. last, NEW rows \in Rows, NEW known, NEW why \in Whys,
           NEW held, NEW silent, HoldOnly(n, rows, known, why, held, silent), last' = last
    PROVE  RelOK' /\ mem' \in Rows /\ queue' \subseteq Ticks /\ HeldOK'
<1> DEFINE t == tries[n].tick
<1>1. t \in Ticks /\ n \in Numbers /\ MaxRetries \in Nat /\ last \in 0 .. MaxAttempt
  BY AttemptsAre, ConstantsAssumption DEF TypeInv, TriesOK
<1>2. /\ RelOK /\ queue \subseteq Ticks /\ parked \in Seq([tick : Ticks, why : Whys])
      /\ retried \in [Ticks -> 0 .. MaxRetries]
  BY DEF TypeInv, WindowOK, HeldOK
<1>3. RunRelease(n, TRUE) \in RelShape
  BY RunReleaseType
<1>4. rel' = rel \/ rel' = [rel EXCEPT ![n] = RunRelease(n, TRUE)]
  BY DEF HoldOnly
<1>5. RelOK'
  <2>1. rel \in [Numbers -> RelShape] /\ \A k \in Numbers : k > last => rel[k] = NoRel
    BY <1>2 DEF RelOK
  <2>2. rel' \in [Numbers -> RelShape]
    BY <1>1, <1>3, <1>4, <2>1
  <2>3. ASSUME NEW k \in Numbers, k > last PROVE rel'[k] = NoRel
    <3>1. k # n
      BY <2>3, <1>1, AttemptsAre DEF Numbers
    <3> QED BY <1>1, <1>4, <2>1, <2>3, <3>1
  <2> QED BY <2>2, <2>3 DEF RelOK
<1>6. mem' = rows \/ mem' = [rows EXCEPT ![t].state = "rejected"]
  BY DEF HoldOnly
<1>7. mem' \in Rows
  BY <1>1, <1>6 DEF Rows, Row
<1>8. queue' = queue \/ queue' = queue \cup {t}
  BY DEF HoldOnly
<1>9. retried' \in [Ticks -> 0 .. MaxRetries]
  <2>1. retried' = retried \/ (MayRetry(t) /\ retried' = [retried EXCEPT ![t] = @ + 1])
    BY DEF HoldOnly
  <2>2. retried[t] \in 0 .. MaxRetries /\ (MayRetry(t) => retried[t] + 1 \in 0 .. MaxRetries)
    BY <1>1, <1>2 DEF MayRetry
  <2> QED BY <1>1, <1>2, <2>1, <2>2
<1>10. parked' \in Seq([tick : Ticks, why : Whys])
  <2>1. parked' = parked \/ parked' = Append(parked, [tick |-> t, why |-> why])
    BY DEF HoldOnly
  <2>2. [tick |-> t, why |-> why] \in [tick : Ticks, why : Whys]
    BY <1>1
  <2> DEFINE X == [tick : Ticks, why : Whys]
  <2>3. parked \in Seq(X)
    BY <1>2
  <2>4. [tick |-> t, why |-> why] \in X
    BY <2>2
  <2> HIDE DEF t, X
  <2>5. Append(parked, [tick |-> t, why |-> why]) \in Seq(X)
    BY <2>3, <2>4
  <2>6. parked' \in Seq(X)
    BY <2>1, <2>3, <2>5
  <2> QED BY <2>6 DEF X
<1> QED BY <1>1, <1>2, <1>5, <1>7, <1>8, <1>9, <1>10 DEF HeldOK

\* A part whose variables stand is kept.
LEMMA Same ==
    ASSUME TypeInv
    PROVE  /\ UNCHANGED <<row, mem>> => RowsOK'
           /\ UNCHANGED <<last, tries>> => TriesOK'
           /\ UNCHANGED <<last, rel>> => RelOK'
           /\ UNCHANGED ruled => RuledOK'
           /\ UNCHANGED <<last, judged, merged, delivered, stray, unaddressed>> => DoneOK'
           /\ UNCHANGED <<last, job, work>> => HostOK'
           /\ UNCHANGED <<last, pc, queue, live, settled, bare>> => WindowOK'
           /\ UNCHANGED <<last, tries, disp>> => DispOK'
           /\ UNCHANGED <<last, fin>> => FinOK'
           /\ UNCHANGED <<parked, retried>> => HeldOK'
<1>1. UNCHANGED <<row, mem>> => RowsOK'
  BY DEF TypeInv, RowsOK
<1>2. UNCHANGED <<last, tries>> => TriesOK'
  BY DEF TypeInv, TriesOK
<1>3. UNCHANGED <<last, rel>> => RelOK'
  BY DEF TypeInv, RelOK
<1>4. UNCHANGED ruled => RuledOK'
  BY DEF TypeInv, RuledOK
<1>5. UNCHANGED <<last, judged, merged, delivered, stray, unaddressed>> => DoneOK'
  BY DEF TypeInv, DoneOK
<1>6. UNCHANGED <<last, job, work>> => HostOK'
  BY DEF TypeInv, HostOK
<1>7. UNCHANGED <<last, pc, queue, live, settled, bare>> => WindowOK'
  BY DEF TypeInv, WindowOK
<1>8. UNCHANGED <<last, tries, disp>> => DispOK'
  BY DEF TypeInv, DispOK
<1>9. UNCHANGED <<last, fin>> => FinOK'
  BY DEF TypeInv, FinOK
<1>10. UNCHANGED <<parked, retried>> => HeldOK'
  BY DEF TypeInv, HeldOK
<1> QED BY <1>1, <1>2, <1>3, <1>4, <1>5, <1>6, <1>7, <1>8, <1>9, <1>10

\* What is known of the ticks and attempts at hand.
LEMMA Shapes ==
    ASSUME TypeInv
    PROVE  /\ row \in Rows /\ mem \in Rows
           /\ last \in 0 .. MaxAttempt /\ last \in Nat /\ 1 .. last \subseteq Numbers
           /\ \A n \in 1 .. last : tries[n].tick \in Ticks
           /\ live \subseteq 1 .. last /\ settled \subseteq 1 .. last
           /\ disp.at # "none" => disp.tick \in Ticks
           /\ disp.at \notin {"none", "place"} => disp.n \in 1 .. last /\ tries[disp.n].tick = disp.tick
           /\ fin.at # "none" => fin.n \in 1 .. last
<1>1. RowsOK /\ TriesOK /\ WindowOK /\ DispOK /\ FinOK
  BY DEF TypeInv
<1>2. last \in 0 .. MaxAttempt
  BY <1>1 DEF TriesOK
<1>3. last \in Nat /\ 1 .. last \subseteq Numbers
  BY <1>2, AttemptsAre
<1>4. \A n \in 1 .. last : tries[n].tick \in Ticks
  BY <1>1 DEF TriesOK
<1>5. row \in Rows /\ mem \in Rows /\ live \subseteq 1 .. last /\ settled \subseteq 1 .. last
  BY <1>1 DEF RowsOK, WindowOK
<1>6. /\ disp.at # "none" => disp.tick \in Ticks
      /\ disp.at \notin {"none", "place"} => disp.n \in 1 .. last /\ tries[disp.n].tick = disp.tick
  BY <1>1 DEF DispOK
<1>7. fin.at # "none" => fin.n \in 1 .. last
  BY <1>1 DEF FinOK
<1> QED BY <1>2, <1>3, <1>4, <1>5, <1>6, <1>7

\* A tear-down of attempts placed leaves jobs.
LEMMA TornDownTypes ==
    ASSUME TypeInv, NEW ns \in SUBSET (1 .. last), NEW quits \in Quits(ns),
           job' = TornDown(ns, quits), UNCHANGED <<last, work>>
    PROVE  HostOK'
<1>1. HostOK /\ TriesOK
  BY DEF TypeInv
<1>2. /\ job' \in [Numbers -> Jobs]
      /\ \A n \in Numbers : job'[n] = "none" <=> job[n] = "none"
  BY <1>1, TearsDown
<1> QED BY <1>1, <1>2 DEF HostOK

\* A finish that goes on to its rejection.
FinShape == [at : FinSteps, n : 0 .. last, head : 0 .. last,
             why : {"none", "boundary", "missing", "nocommits"}, again : BOOLEAN]
Rejecting(says, again) == [fin EXCEPT !.at = "reject", !.why = says, !.again = again]

LEMMA RejectingIs ==
    ASSUME TypeInv, NEW says, NEW again
    PROVE  /\ Rejecting(says, again).at = "reject" /\ Rejecting(says, again).why = says
           /\ Rejecting(says, again).n = fin.n
           /\ says \in {"boundary", "missing", "nocommits"} /\ again \in BOOLEAN =>
                  Rejecting(says, again) \in FinShape
<1>1. fin \in FinShape
  BY DEF TypeInv, FinOK, FinShape
<1> QED BY <1>1 DEF Rejecting, FinShape, FinSteps

\* A finish moved to another of its steps.
LEMMA FinTypes ==
    ASSUME TypeInv, NEW at \in FinSteps \ {"none", "reject"}, fin.at # "none",
           fin' = [fin EXCEPT !.at = at], UNCHANGED last
    PROVE  FinOK'
BY DEF TypeInv, FinOK, FinSteps

LEMMA NoFinTypes == ASSUME TypeInv, fin' = NoFin, UNCHANGED last PROVE FinOK'
BY Shapes DEF NoFin, FinOK, FinSteps

LEMMA NoDispTypes ==
    ASSUME TypeInv, disp' = NoDisp, UNCHANGED last
    PROVE  DispOK'
<1>1. last \in Nat /\ MaxAttempt \in Nat
  BY Shapes, ConstantsAssumption
<1> QED BY <1>1 DEF NoDisp, DispOK, DispSteps, Tick

LEMMA NextDispTypes ==
    ASSUME TypeInv, NEW at \in {"restart", "start", "note"}, disp.at \notin {"none", "place"},
           disp' = [disp EXCEPT !.at = at], UNCHANGED <<last, tries>>
    PROVE  DispOK'
BY DEF TypeInv, DispOK, DispSteps

LEMMA StartTypes == ASSUME TypeInv, Start PROVE TypeInv'
<1>1. /\ UNCHANGED <<row, last, tries, rel, ruled, judged, merged, delivered, job, work, stray, live,
                     settled, bare, disp, fin, parked, retried, unaddressed>>
      /\ pc' = "up" /\ mem' = row /\ queue' = Open
  BY DEF Start, origin, host
<1>2. RowsOK'
  BY <1>1 DEF TypeInv, RowsOK
<1>3. WindowOK'
  BY <1>1 DEF TypeInv, WindowOK, Open
<1> QED BY <1>1, <1>2, <1>3, Same DEF TypeInv

LEMMA CrashTypes == ASSUME TypeInv, Crash PROVE TypeInv'
<1>1. /\ UNCHANGED <<row, last, tries, rel, ruled, judged, merged, delivered, job, work, stray,
                     unaddressed>>
      /\ Down
  BY DEF Crash, origin, host
<1>2. row' \in Rows /\ last' \in 0 .. MaxAttempt
  BY <1>1, Shapes
<1> QED BY <1>1, <1>2, Same, DownTypes DEF TypeInv

LEMMA WipeTypes == ASSUME TypeInv, Wipe PROVE TypeInv'
<1>1. /\ UNCHANGED <<row, last, tries, rel, ruled, judged, merged, delivered, unaddressed>>
      /\ job' = [n \in Numbers |-> "none"]
      /\ work' = [n \in Numbers |-> work[n] \ {"local"}]
      /\ stray' = {n \in stray : "origin" \in work[n]}
      /\ Down
  BY DEF Wipe, origin
<1>2. row' \in Rows /\ last' \in 0 .. MaxAttempt
  BY <1>1, Shapes
<1>3. DoneOK'
  BY <1>1 DEF TypeInv, DoneOK
<1>4. HostOK'
  BY <1>1 DEF TypeInv, HostOK, Jobs
<1> QED BY <1>1, <1>2, <1>3, <1>4, Same, DownTypes DEF TypeInv

LEMMA EndTypes == ASSUME TypeInv, End PROVE TypeInv'
<1>1. /\ UNCHANGED <<last, tries, rel, judged, merged, delivered, job, work, stray, unaddressed>>
      /\ row' = mem /\ Down
  BY DEF End, host
<1>2. row' \in Rows /\ last' \in 0 .. MaxAttempt
  BY <1>1, Shapes
<1>3. ruled \in [Numbers -> Rulings]
  BY DEF TypeInv, RuledOK
<1>4. ruled' \in [Numbers -> Rulings]
  BY <1>3, NamedType DEF End
<1>5. RuledOK'
  BY <1>4 DEF RuledOK
<1> QED BY <1>1, <1>2, <1>5, Same, DownTypes DEF TypeInv

\* A step that stops the run with one tick's row changed, and only tears down.
LEMMA StopStep ==
    ASSUME TypeInv, NEW t, NEW rows \in Rows, Stop(t, rows),
           UNCHANGED <<last, tries, judged, merged, delivered, stray>>, RelOK', HostOK',
           unaddressed' \subseteq 1 .. last
    PROVE  TypeInv'
<1>1. last' \in 0 .. MaxAttempt
  BY Shapes
<1>2. DoneOK'
  BY DEF TypeInv, DoneOK
<1>3. RowsOK' /\ RuledOK' /\ WindowOK' /\ DispOK' /\ FinOK' /\ HeldOK'
  BY <1>1, StopTypes DEF TypeInv
<1> QED BY <1>2, <1>3, Same DEF TypeInv

LEMMA RejectedRows ==
    ASSUME TypeInv, NEW t \in Ticks, NEW state \in {"open", "rejected", "closed"}
    PROVE  [mem EXCEPT ![t].state = state] \in Rows
<1>1. mem \in Rows /\ 0 \in 0 .. last /\ last \in 0 .. MaxAttempt
  BY Shapes
<1> QED BY <1>1, RowTypes

LEMMA AdoptTypes == ASSUME TypeInv, Adopt PROVE TypeInv'
<1> DEFINE n == disp.n
<1>1. n \in 1 .. last /\ disp.tick \in Ticks /\ disp.at \notin {"none", "place"}
  BY Shapes DEF Adopt
<1>2. UNCHANGED <<job, work, stray>>
  BY DEF Adopt, host
<1>3. CASE /\ disp' = [disp EXCEPT !.at = "restart"]
           /\ UNCHANGED <<origin, pc, mem, window, fin, parked, retried, unaddressed>>
  <2>1. UNCHANGED <<row, last, tries, rel, ruled, judged, merged, delivered, pc, mem, queue, live,
                    settled, bare, fin, parked, retried, unaddressed>>
    BY <1>3 DEF origin, window
  <2>2. DispOK'
    BY <1>1, <1>3, <2>1, NextDispTypes
  <2> QED BY <1>2, <2>1, <2>2, Same DEF TypeInv
<1>4. CASE /\ Stop(disp.tick, [mem EXCEPT ![disp.tick].state = "open"])
           /\ UNCHANGED <<last, tries, rel, judged, merged, delivered, unaddressed>>
  <2>1. unaddressed' \subseteq 1 .. last
    BY <1>4 DEF TypeInv, DoneOK
  <2>2. HostOK' /\ RelOK'
    BY <1>2, <1>4, Same
  <2>3. [mem EXCEPT ![disp.tick].state = "open"] \in Rows
    BY <1>1, RejectedRows
  <2> QED BY <1>2, <1>4, <2>1, <2>2, <2>3, StopStep
<1>5. CASE /\ unaddressed' = unaddressed \cup {n}
           /\ Stop(disp.tick, [mem EXCEPT ![disp.tick].state = "rejected"])
           /\ UNCHANGED <<last, tries, rel, judged, merged, delivered>>
  <2>1. unaddressed' \subseteq 1 .. last
    BY <1>1, <1>5 DEF TypeInv, DoneOK
  <2>2. HostOK' /\ RelOK'
    BY <1>2, <1>5, Same
  <2>3. [mem EXCEPT ![disp.tick].state = "rejected"] \in Rows
    BY <1>1, RejectedRows
  <2> QED BY <1>2, <1>5, <2>1, <2>2, <2>3, StopStep
<1>6. CASE /\ live' = live \cup {n} /\ disp' = NoDisp
           /\ UNCHANGED <<origin, pc, mem, queue, settled, bare, fin, parked, retried, unaddressed>>
  <2>1. UNCHANGED <<row, last, tries, rel, ruled, judged, merged, delivered, pc, mem, queue,
                    settled, bare, fin, parked, retried, unaddressed>>
    BY <1>6 DEF origin
  <2>2. DispOK'
    BY <1>6, <2>1, NoDispTypes
  <2>3. WindowOK'
    BY <1>1, <1>6, <2>1 DEF TypeInv, WindowOK
  <2> QED BY <1>2, <2>1, <2>2, <2>3, Same DEF TypeInv
<1> QED BY <1>3, <1>4, <1>5, <1>6 DEF Adopt

LEMMA PlaceTypes == ASSUME TypeInv, Place PROVE TypeInv'
<1> DEFINE t    == disp.tick
           n    == last + 1
           from == disp.carry
           base == IF from = 0 THEN 0 ELSE CarryHead(from)
<1>1. /\ t \in Ticks /\ from \in 0 .. last /\ last \in Nat /\ MaxAttempt \in Nat
      /\ last < MaxAttempt /\ n \in Numbers
  <2>1. from \in 0 .. last
    BY DEF TypeInv, DispOK
  <2>2. MaxAttempt \in Nat /\ disp.at = "place" /\ last < MaxAttempt
    BY ConstantsAssumption DEF Place
  <2> QED BY <2>1, <2>2, Shapes DEF Numbers
<1>2. UNCHANGED <<job, work, stray>>
  BY DEF Place, host
<1>3. CASE UNCHANGED <<origin, unaddressed>> /\ Down
  <2>1. UNCHANGED <<row, last, tries, rel, ruled, judged, merged, delivered, unaddressed>>
    BY <1>3 DEF origin
  <2>2. row' \in Rows /\ last' \in 0 .. MaxAttempt
    BY <2>1, Shapes
  <2> QED BY <1>2, <1>3, <2>1, <2>2, Same, DownTypes DEF TypeInv
<1>4. CASE ~ (from # 0 /\ base = 0)
  <2>1. /\ mem' = Ready(t) /\ row' = Ready(t) /\ last' = n
        /\ tries' = [tries EXCEPT ![n] =
               [tick |-> t, tier |-> Tier(disp.failed),
                under |-> IF base = 0 THEN {} ELSE {base} \cup tries[base].under]]
        /\ disp' = [NoDisp EXCEPT !.at = "claim", !.tick = t, !.n = n]
        /\ UNCHANGED <<rel, ruled, judged, merged, delivered, pc, queue, live, settled, bare, fin,
                       parked, retried, unaddressed>>
    BY <1>4 DEF Place, window
  <2>2. base \in 0 .. last
    <3>1. from # 0 => from \in 1 .. last
      BY <1>1
    <3> QED BY <1>1, <3>1, CarryHeadIs DEF TypeInv
  <2>3. RowsOK'
    <3>1. Ready(t) \in Rows
      BY <1>1, RejectedRows DEF Ready
    <3> QED BY <2>1, <3>1 DEF RowsOK
  <2>4. TriesOK'
    <3> DEFINE under == IF base = 0 THEN {} ELSE {base} \cup tries[base].under
               new   == [tick |-> t, tier |-> Tier(disp.failed), under |-> under]
    <3>1. disp.failed \in Nat
      BY ConstantsAssumption DEF TypeInv, DispOK
    <3>2. Tier(disp.failed) \in 0 .. Ceiling
      BY <3>1, Tiers
    <3>3. /\ tries \in [Numbers -> TryShape]
          /\ \A k \in 1 .. last : tries[k].tick \in Ticks /\ tries[k].under \subseteq 1 .. last
      BY DEF TypeInv, TriesOK
    <3>4. under \subseteq 1 .. last
      BY <1>1, <2>2, <3>3
    <3>5. 1 .. last \subseteq Numbers /\ 1 .. last \subseteq 1 .. n /\ n \in 0 .. MaxAttempt
      BY <1>1 DEF Numbers
    <3>6. new \in TryShape /\ new.tick = t /\ new.under = under
      BY <1>1, <3>2, <3>4, <3>5 DEF TryShape, Tick, Commits
    <3>7. tries' = [tries EXCEPT ![n] = new]
      BY <2>1
    <3>8. last' = n
      BY <2>1
    <3> HIDE DEF new, under, n, base, t
    <3>9. tries' \in [Numbers -> TryShape]
      BY <3>3, <3>6, <3>7
    <3>10. ASSUME NEW k \in 1 .. n PROVE tries'[k].tick \in Ticks /\ tries'[k].under \subseteq 1 .. n
      <4>1. k = n => tries'[k] = new
        BY <1>1, <3>3, <3>7
      <4>2. k # n => k \in 1 .. last /\ tries'[k] = tries[k]
        BY <1>1, <3>3, <3>5, <3>7 DEF n
      <4> QED BY <1>1, <3>3, <3>4, <3>5, <3>6, <4>1, <4>2
    <3> QED BY <3>5, <3>8, <3>9, <3>10 DEF TriesOK
  <2>5. 1 .. last \subseteq 1 .. n /\ 0 .. last \subseteq 0 .. n /\ 0 \in 0 .. n /\ n \in 1 .. n
    BY <1>1
  <2>6. \A k \in Nat : k > n => k > last
    BY <1>1
  <2>7. RelOK'
    BY <1>1, <2>1, <2>6 DEF TypeInv, RelOK, Numbers
  <2>8. HostOK'
    BY <1>1, <1>2, <2>1, <2>6 DEF TypeInv, HostOK, Numbers
  <2>9. DoneOK'
    BY <1>2, <2>1, <2>5 DEF TypeInv, DoneOK
  <2>10. WindowOK'
    BY <2>1, <2>5 DEF TypeInv, WindowOK
  <2>11. FinOK'
    <3>1. fin' = fin /\ last' = n
      BY <2>1
    <3> HIDE DEF n
    <3> QED BY <2>5, <3>1 DEF TypeInv, FinOK
  <2>12. DispOK'
    <3>1. tries'[n].tick = t
      BY <1>1, <2>1 DEF TypeInv, TriesOK
    <3>2. last' = n /\ disp' = [at |-> "claim", tick |-> t, n |-> n, failed |-> 0, carry |-> 0]
      BY <2>1 DEF NoDisp
    <3>3. 0 \in 0 .. MaxAttempt /\ n \in 0 .. n
      BY <1>1
    <3> HIDE DEF n, t
    <3> QED BY <1>1, <2>5, <3>1, <3>2, <3>3 DEF DispOK, DispSteps, Tick
  <2>13. RuledOK' /\ HeldOK'
    BY <2>1, Same
  <2> QED BY <2>3, <2>4, <2>7, <2>8, <2>9, <2>10, <2>11, <2>12, <2>13 DEF TypeInv
<1> QED BY <1>3, <1>4 DEF Place

LEMMA ClaimTypes == ASSUME TypeInv, Claim PROVE TypeInv'
<1> DEFINE t == disp.tick
           n == disp.n
<1>1. n \in 1 .. last /\ t \in Ticks /\ disp.at \notin {"none", "place"}
  BY Shapes DEF Claim
<1>2. UNCHANGED <<job, work, stray, unaddressed>>
  BY DEF Claim, host
<1>3. n \in 0 .. last /\ last \in 0 .. MaxAttempt /\ mem \in Rows
  BY <1>1, Shapes
<1>4. CASE /\ mem' = [mem EXCEPT ![t].attempt = n]
           /\ disp' = [disp EXCEPT !.at = "start"]
           /\ UNCHANGED <<origin, pc, window, fin, parked, retried>>
  <2>1. UNCHANGED <<row, last, tries, rel, ruled, judged, merged, delivered, pc, queue, live, settled,
                    bare, fin, parked, retried>>
    BY <1>4 DEF origin, window
  <2>2. mem' \in Rows
    BY <1>1, <1>3, <1>4, RowTypes
  <2>3. RowsOK'
    BY <2>1, <2>2 DEF TypeInv, RowsOK
  <2>4. DispOK'
    BY <1>1, <1>4, <2>1, NextDispTypes
  <2> QED BY <1>2, <2>1, <2>3, <2>4, Same DEF TypeInv
<1>5. CASE /\ Stop(t, [mem EXCEPT ![t] = [state |-> "open", attempt |-> n]])
           /\ UNCHANGED <<last, tries, rel, judged, merged, delivered>>
  <2>1. unaddressed' \subseteq 1 .. last
    BY <1>2 DEF TypeInv, DoneOK
  <2>2. HostOK' /\ RelOK'
    BY <1>2, <1>5, Same
  <2>3. [mem EXCEPT ![t] = [state |-> "open", attempt |-> n]] \in Rows
    BY <1>1, <1>3, RowTypes
  <2> HIDE DEF t, n
  <2> QED BY <1>2, <1>5, <2>1, <2>2, <2>3, StopStep
<1> QED BY <1>4, <1>5 DEF Claim

LEMMA StartJobTypes == ASSUME TypeInv, StartJob PROVE TypeInv'
<1> DEFINE n == disp.n
<1>1. n \in 1 .. last /\ disp.tick \in Ticks /\ disp.at \notin {"none", "place"} /\ n \in Numbers
      /\ last \in Nat
  BY Shapes DEF StartJob
<1>2. /\ UNCHANGED <<row, last, tries, rel, ruled, judged, merged, delivered, stray, pc, queue, settled,
                     bare, fin, parked, retried, unaddressed>>
      /\ job' = [job EXCEPT ![n] = "running"]
      /\ work' = [work EXCEPT ![n] = IF @ = {} THEN {} ELSE @ \cup {"local"}]
      /\ mem' = [mem EXCEPT ![disp.tick].state = "open"]
  BY DEF StartJob, origin
<1>3. RowsOK'
  <2>1. mem' \in Rows
    BY <1>1, <1>2, RejectedRows
  <2> QED BY <1>2, <2>1 DEF TypeInv, RowsOK
<1>4. HostOK'
  <2>1. job' \in [Numbers -> Jobs]
    BY <1>2 DEF TypeInv, HostOK, Jobs
  <2>2. work' \in [Numbers -> SUBSET {"local", "origin"}]
    BY <1>1, <1>2 DEF TypeInv, HostOK
  <2>3. ASSUME NEW k \in Numbers, k > last PROVE job'[k] = "none" /\ work'[k] = {}
    <3>1. k # n
      BY <1>1, <2>3 DEF Numbers
    <3> HIDE DEF n
    <3> QED BY <1>2, <2>3, <3>1 DEF TypeInv, HostOK
  <2> QED BY <1>2, <2>1, <2>2, <2>3 DEF HostOK
<1>5. CASE disp' = [disp EXCEPT !.at = "note"] /\ UNCHANGED live
  <2>1. DispOK'
    BY <1>1, <1>2, <1>5, NextDispTypes
  <2> QED BY <1>2, <1>3, <1>4, <1>5, <2>1, Same DEF TypeInv
<1>6. CASE disp' = NoDisp /\ live' = live \cup {n}
  <2>1. DispOK'
    BY <1>2, <1>6, NoDispTypes
  <2>2. WindowOK'
    BY <1>1, <1>2, <1>6 DEF TypeInv, WindowOK
  <2> QED BY <1>2, <1>3, <1>4, <2>1, <2>2, Same DEF TypeInv
<1> QED BY <1>5, <1>6 DEF StartJob

LEMMA DieStartingTypes == ASSUME TypeInv, DieStarting PROVE TypeInv'
<1> DEFINE n == disp.n
<1>1. n \in 1 .. last /\ n \in Numbers /\ last \in Nat
  BY Shapes DEF DieStarting
<1>2. /\ UNCHANGED <<row, last, tries, rel, ruled, judged, merged, delivered, work, stray, unaddressed>>
      /\ job' = [job EXCEPT ![n] = "lost"]
      /\ Down
  BY DEF DieStarting, origin
<1>3. row' \in Rows /\ last' \in 0 .. MaxAttempt
  BY <1>2, Shapes
<1>4. HostOK'
  <2>1. job' \in [Numbers -> Jobs]
    BY <1>2 DEF TypeInv, HostOK, Jobs
  <2>2. ASSUME NEW k \in Numbers, k > last PROVE job'[k] = "none"
    <3>1. k # n
      BY <1>1, <2>2 DEF Numbers
    <3> HIDE DEF n
    <3> QED BY <1>2, <2>2, <3>1 DEF TypeInv, HostOK
  <2> QED BY <1>2, <2>1, <2>2 DEF TypeInv, HostOK
<1> QED BY <1>2, <1>3, <1>4, Same, DownTypes DEF TypeInv

LEMMA NoteTypes == ASSUME TypeInv, Note PROVE TypeInv'
<1>1. /\ UNCHANGED <<last, tries, rel, ruled, judged, merged, delivered, job, work, stray, pc, mem, queue,
                     settled, bare, fin, parked, retried, unaddressed>>
      /\ row' = mem /\ live' = live \cup {disp.n} /\ disp' = NoDisp
  BY DEF Note, host
<1>2. disp.n \in 1 .. last
  BY Shapes DEF Note
<1>3. RowsOK'
  BY <1>1 DEF TypeInv, RowsOK
<1>4. WindowOK'
  BY <1>1, <1>2 DEF TypeInv, WindowOK
<1>5. DispOK'
  BY <1>1, NoDispTypes
<1> QED BY <1>1, <1>3, <1>4, <1>5, Same DEF TypeInv

LEMMA ReleaseTypes ==
    ASSUME TypeInv, NEW ns \in SUBSET (1 .. last), Release(ns), UNCHANGED last
    PROVE  RelOK'
<1>1. /\ rel \in [Numbers -> RelShape] /\ last \in Nat
      /\ \A k \in Numbers : k > last => rel[k] = NoRel
  BY Shapes DEF TypeInv, RelOK
<1>2. rel' = [n \in Numbers |-> IF n \in ns THEN RunRelease(n, ruled[n] = "carry") ELSE rel[n]]
  BY DEF Release
<1>3. \A n : RunRelease(n, ruled[n] = "carry") \in RelShape
  BY RunReleaseType
<1>4. rel' \in [Numbers -> RelShape]
  BY <1>1, <1>2, <1>3
<1>5. ASSUME NEW k \in Numbers, k > last PROVE rel'[k] = NoRel
  <2>1. k \notin ns
    BY <1>1, <1>5 DEF Numbers
  <2> QED BY <1>1, <1>2, <1>5, <2>1
<1> QED BY <1>4, <1>5 DEF RelOK

LEMMA FatedAre ==
    ASSUME NEW t, NEW fates
    PROVE  Fated(t, fates) \subseteq 1 .. last /\ Fated(t, fates) \subseteq Of(t)
BY DEF Fated, Of

LEMMA AdmitHeldTypes ==
    ASSUME TypeInv, NEW t \in Ticks, NEW denied, AdmitHeld(t, denied)
    PROVE  TypeInv'
<1> DEFINE held  == Fated(t, {"hold"})
           stuck == {n \in held : ~Decided(n) \/ n \in denied}
           at    == Max(stuck)
           torn  == {n \in held : n >= at} \cup {n \in Of(t) : n > at /\ rel[n].by = "run"}
<1>1. /\ UNCHANGED <<last, tries, judged, merged, delivered, work, stray, unaddressed>>
      /\ stuck # {}
      /\ Release({n \in held : n > at})
      /\ \E quits \in Quits(torn) : job' = TornDown(torn, quits)
      /\ Stop(t, [mem EXCEPT ![t] = [state |-> "rejected", attempt |-> at]])
  BY DEF AdmitHeld
<1>2. held \subseteq 1 .. last /\ torn \subseteq 1 .. last
  BY FatedAre DEF Of
<1>3. last \in Nat /\ last \in 0 .. MaxAttempt /\ mem \in Rows
  BY Shapes
<1>4. stuck \in SUBSET (0 .. last) /\ stuck \subseteq 1 .. last
  BY <1>2, <1>3
<1>5. at \in 1 .. last
  <2> HIDE DEF stuck
  <2> QED BY <1>1, <1>3, <1>4, Latest
<1> HIDE DEF at, stuck, held
<1>6. RelOK'
  BY <1>1, <1>2, ReleaseTypes
<1> HIDE DEF torn
<1>7. HostOK'
  BY <1>1, <1>2, TornDownTypes
<1>8. at \in 0 .. last
  BY <1>5
<1>9. [mem EXCEPT ![t] = [state |-> "rejected", attempt |-> at]] \in Rows
  BY <1>3, <1>8, RowTypes
<1>10. unaddressed' \subseteq 1 .. last
  BY <1>1 DEF TypeInv, DoneOK
<1> QED BY <1>1, <1>6, <1>7, <1>9, <1>10, StopStep

LEMMA AdmitTypes ==
    ASSUME TypeInv, NEW t \in Ticks, Admit(t)
    PROVE  TypeInv'
<1> DEFINE held   == Fated(t, {"hold"})
           able   == Fated(t, {"adopt", "finish"})
           carry  == {n \in Of(t) : rel[n].carry} \cup {n \in held : ruled[n] = "carry"}
           torn   == held \cup {n \in Of(t) : rel[n].by = "run"}
           failed == Cardinality(Fated(t, {"failed", "hold"}))
           n      == Max(able)
<1>1. /\ UNCHANGED <<row, last, tries, ruled, judged, merged, delivered, work, stray, pc, live, fin,
                     parked, retried, unaddressed>>
      /\ Release(held)
      /\ \E quits \in Quits(torn) : job' = TornDown(torn, quits)
      /\ queue' = queue \ {t}
  BY DEF Admit
<1>2. /\ held \subseteq 1 .. last /\ torn \subseteq 1 .. last /\ able \subseteq 1 .. last
      /\ able \subseteq Of(t) /\ carry \subseteq 1 .. last
  BY FatedAre DEF Of
<1>3. last \in Nat /\ last \in 0 .. MaxAttempt /\ mem \in Rows /\ 0 \in 0 .. last
  BY Shapes
<1>4. failed \in 0 .. MaxAttempt
  BY <1>3, FatedAre, Counted
<1>5. able # {} => n \in 1 .. last /\ tries[n].tick = t
  <2>1. able \in SUBSET (0 .. last)
    BY <1>2, <1>3
  <2>2. able # {} => n \in able
    <3> HIDE DEF able
    <3> QED BY <1>3, <2>1, Latest
  <2> QED BY <1>2, <2>2 DEF Of
<1>6. held # {} => Min(held) \in 1 .. last
  <2>1. held \in SUBSET Nat
    BY <1>2, <1>3
  <2> HIDE DEF held
  <2> QED BY <1>2, <2>1, Earliest
<1>7. Max(carry \cup {0}) \in 0 .. last
  <2>1. carry \cup {0} \in SUBSET (0 .. last) /\ carry \cup {0} # {}
    BY <1>2, <1>3
  <2> HIDE DEF carry
  <2> QED BY <1>3, <2>1, Latest
<1>8. CASE able # {} /\ Fate(n) = "finish"
  <2>1. /\ mem' = [mem EXCEPT ![t].attempt = n] /\ settled' = settled \cup {n}
        /\ bare' = bare \cup {n} /\ UNCHANGED disp
    BY <1>8 DEF Admit
  <2>2. mem' \in Rows
    <3>1. n \in 0 .. last
      BY <1>5, <1>8
    <3> HIDE DEF n, able
    <3> QED BY <1>3, <2>1, <3>1, RowTypes
  <2>3. WindowOK' /\ DispOK'
    <3>1. WindowOK'
      BY <1>1, <1>5, <1>8, <2>1 DEF TypeInv, WindowOK
    <3>2. DispOK'
      BY <1>1, <2>1, Same
    <3> QED BY <3>1, <3>2
  <2>4. RelOK' /\ HostOK'
    BY <1>1, <1>2, ReleaseTypes, TornDownTypes
  <2> QED BY <1>1, <2>2, <2>3, <2>4, Same DEF TypeInv, RowsOK
<1>9. CASE able # {} /\ Fate(n) # "finish"
  <2>1. /\ mem' = [mem EXCEPT ![t].attempt = n] /\ UNCHANGED <<settled, bare>>
        /\ disp' = [NoDisp EXCEPT !.at = "adopt", !.tick = t, !.n = n]
    BY <1>9 DEF Admit
  <2>2. mem' \in Rows
    <3>1. n \in 0 .. last
      BY <1>5, <1>9
    <3> HIDE DEF n, able
    <3> QED BY <1>3, <2>1, <3>1, RowTypes
  <2>3. WindowOK'
    BY <1>1, <2>1 DEF TypeInv, WindowOK
  <2>4. DispOK'
    <3>1. disp' = [at |-> "adopt", tick |-> t, n |-> n, failed |-> 0, carry |-> 0]
      BY <2>1 DEF NoDisp
    <3>2. 0 \in 0 .. MaxAttempt /\ n \in 0 .. last /\ n \in 1 .. last /\ tries[n].tick = t
      BY <1>3, <1>5, <1>9, ConstantsAssumption
    <3>3. last' = last /\ tries' = tries
      BY <1>1
    <3> HIDE DEF n
    <3> QED BY <1>3, <3>1, <3>2, <3>3 DEF DispOK, DispSteps, Tick
  <2>5. RelOK' /\ HostOK'
    BY <1>1, <1>2, ReleaseTypes, TornDownTypes
  <2> QED BY <1>1, <2>2, <2>3, <2>4, <2>5, Same DEF TypeInv, RowsOK
<1>10. CASE able = {}
  <2>1. /\ mem' = IF held # {} THEN [mem EXCEPT ![t].attempt = Min(held)] ELSE mem
        /\ UNCHANGED <<settled, bare>>
        /\ disp' = [NoDisp EXCEPT !.at = "place", !.tick = t, !.failed = failed,
                                  !.carry = Max(carry \cup {0})]
    BY <1>10 DEF Admit
  <2>2. mem' \in Rows
    <3>1. held # {} => Min(held) \in 0 .. last
      BY <1>6
    <3> HIDE DEF held
    <3>2. held # {} => [mem EXCEPT ![t].attempt = Min(held)] \in Rows
      BY <1>3, <3>1, RowTypes
    <3> QED BY <1>3, <2>1, <3>2
  <2>3. WindowOK'
    BY <1>1, <2>1 DEF TypeInv, WindowOK
  <2>4. DispOK'
    <3> HIDE DEF failed, carry
    <3>1. disp' = [at |-> "place", tick |-> t, n |-> 0, failed |-> failed,
                   carry |-> Max(carry \cup {0})]
      BY <2>1 DEF NoDisp
    <3>2. last' = last
      BY <1>1
    <3> QED BY <1>3, <1>4, <1>7, <3>1, <3>2 DEF DispOK, DispSteps, Tick
  <2>5. RelOK' /\ HostOK'
    BY <1>1, <1>2, ReleaseTypes, TornDownTypes
  <2> QED BY <1>1, <2>2, <2>3, <2>4, <2>5, Same DEF TypeInv, RowsOK
<1> QED BY <1>8, <1>9, <1>10

LEMMA PollTypes == ASSUME TypeInv, NEW n \in live, Poll(n) PROVE TypeInv'
<1>1. /\ UNCHANGED <<row, last, tries, rel, ruled, judged, merged, delivered, job, work, stray, pc, mem,
                     queue, bare, disp, fin, parked, retried, unaddressed>>
      /\ live' = live \ {n} /\ settled' = settled \cup {n}
  BY DEF Poll, origin, host
<1>2. WindowOK'
  BY <1>1 DEF TypeInv, WindowOK
<1> QED BY <1>1, <1>2, Same DEF TypeInv

LEMMA RefuseTypes == ASSUME TypeInv, NEW n \in live, Refuse(n) PROVE TypeInv'
<1>1. /\ UNCHANGED <<row, last, tries, ruled, judged, merged, delivered, job, work, stray, pc,
                     settled, bare, disp, fin>>
      /\ live' = live \ {n} /\ unaddressed' = unaddressed \cup {n}
      /\ HoldOnly(n, mem, ruled, "other", FALSE, FALSE)
  BY DEF Refuse, host
<1>2. n \in 1 .. last /\ mem \in Rows /\ "other" \in Whys
  BY Shapes DEF Whys
<1>3. RelOK' /\ mem' \in Rows /\ queue' \subseteq Ticks /\ HeldOK'
  BY <1>1, <1>2, HoldOnlyTypes
<1>4. RowsOK' /\ DoneOK'
  BY <1>1, <1>2, <1>3 DEF TypeInv, RowsOK, DoneOK
<1>5. WindowOK'
  BY <1>1, <1>3 DEF TypeInv, WindowOK
<1> QED BY <1>1, <1>3, <1>4, <1>5, Same DEF TypeInv

LEMMA BeginFinishTypes == ASSUME TypeInv, NEW n \in settled, BeginFinish(n) PROVE TypeInv'
<1>1. /\ UNCHANGED <<row, last, tries, rel, ruled, judged, merged, delivered, job, work, stray, pc, mem,
                     queue, live, bare, disp, parked, retried, unaddressed>>
      /\ settled' = settled \ {n} /\ fin' = [NoFin EXCEPT !.at = "collect", !.n = n]
  BY DEF BeginFinish, origin, host
<1>2. WindowOK'
  BY <1>1 DEF TypeInv, WindowOK
<1>3. FinOK'
  <2>1. n \in 1 .. last /\ n \in 0 .. last /\ 0 \in 0 .. last /\ last' = last
    BY <1>1, Shapes
  <2>2. fin' = [at |-> "collect", n |-> n, head |-> 0, why |-> "none", again |-> FALSE]
    BY <1>1 DEF NoFin
  <2> QED BY <2>1, <2>2 DEF FinOK, FinSteps
<1> QED BY <1>1, <1>2, <1>3, Same DEF TypeInv

\* One attempt released.
LEMMA OneReleaseTypes ==
    ASSUME TypeInv, NEW n \in 1 .. last, NEW r \in RelShape, rel' = [rel EXCEPT ![n] = r],
           UNCHANGED last
    PROVE  RelOK'
<1>1. /\ rel \in [Numbers -> RelShape] /\ last \in Nat /\ n \in Numbers
      /\ \A k \in Numbers : k > last => rel[k] = NoRel
  BY Shapes DEF TypeInv, RelOK
<1>2. rel' \in [Numbers -> RelShape]
  BY <1>1
<1>3. ASSUME NEW k \in Numbers, k > last PROVE rel'[k] = NoRel
  <2>1. k # n
    BY <1>3, Shapes DEF Numbers
  <2> QED BY <1>1, <1>3, <2>1
<1> QED BY <1>2, <1>3 DEF RelOK

\* The commit collected is one that was placed.
LEMMA CollectedIs ==
    ASSUME TypeInv, NEW n \in 1 .. last, Verdict(n) = "ready"
    PROVE  Collected(n) \in 0 .. last
<1>1. TriesOK /\ last \in Nat
  BY Shapes DEF TypeInv
<1>2. work[n] = {} /\ job[n] # "cancelled" => Carries(n)
  BY DEF Verdict
<1>3. Carries(n) => Base(n) \in 1 .. last
  BY <1>1, BaseIs
<1> QED BY <1>1, <1>2, <1>3 DEF Collected

LEMMA VerdictIs == ASSUME NEW n PROVE Verdict(n) \in {"missing", "ready", "nocommits", "boundary"}
BY DEF Verdict

LEMMA CollectTypes == ASSUME TypeInv, Collect PROVE TypeInv'
<1> DEFINE n    == fin.n
           t    == tries[n].tick
           says == Verdict(n)
           held == HeldCommit(n)
           ours == held /\ rel[n].by = "none" /\ Disposes(n)
<1>1. n \in 1 .. last /\ t \in Ticks /\ n \in Numbers /\ last \in Nat
  BY Shapes DEF Collect
<1>2. /\ UNCHANGED <<last, tries, ruled, merged, delivered, job, stray, pc, queue, live, settled, bare,
                     disp, parked, retried>>
      /\ fin.at = "collect"
      /\ mem' = [mem EXCEPT ![t].state = "open"]
  BY DEF Collect, window
<1>3. mem' \in Rows /\ mem \in Rows
  BY <1>1, <1>2, RejectedRows, Shapes
<1>4. CASE Integrated(n)
  <2>1. /\ row' = mem /\ fin' = [fin EXCEPT !.at = "gate"]
        /\ UNCHANGED <<rel, judged, work, unaddressed>>
    BY <1>4 DEF Collect
  <2>2. FinOK'
    BY <1>2, <2>1, FinTypes DEF FinSteps
  <2> QED BY <1>2, <1>3, <2>1, <2>2, Same DEF TypeInv, RowsOK
<1>5. CASE ~Integrated(n)
  <2>1. /\ work' = [work EXCEPT ![n] = IF "local" \in @ THEN @ \cup {"origin"} ELSE @]
        /\ unaddressed' = unaddressed \ {n}
    BY <1>5 DEF Collect
  <2>2. HostOK'
    <3>1. /\ work \in [Numbers -> SUBSET {"local", "origin"}] /\ job \in [Numbers -> Jobs]
          /\ \A k \in Numbers : k > last => job[k] = "none" /\ work[k] = {}
      BY DEF TypeInv, HostOK
    <3> HIDE DEF n
    <3>2. work' \in [Numbers -> SUBSET {"local", "origin"}]
      BY <1>1, <2>1, <3>1
    <3>3. \A k \in Numbers : k > last => work'[k] = {}
      BY <1>1, <2>1, <3>1 DEF Numbers
    <3> QED BY <1>2, <3>1, <3>2, <3>3 DEF HostOK
  <2>3. CASE says = "ready"
    <3>1. /\ judged' = judged \cup {n} /\ row' = mem' /\ UNCHANGED rel
          /\ fin' = [fin EXCEPT !.at = "release", !.head = Collected(n)]
      BY <1>5, <2>3 DEF Collect
    <3>2. FinOK'
      <4>1. Collected(n) \in 0 .. last
        BY <1>1, <2>3, CollectedIs
      <4> HIDE DEF n
      <4> QED BY <1>1, <1>2, <3>1, <4>1 DEF TypeInv, FinOK, FinSteps
    <3>3. DoneOK'
      BY <1>1, <1>2, <2>1, <3>1 DEF TypeInv, DoneOK
    <3> QED BY <1>2, <1>3, <2>2, <3>1, <3>2, <3>3, Same DEF TypeInv, RowsOK
  <2>4. CASE says # "ready"
    <3>1. /\ UNCHANGED <<row, judged>>
          /\ rel' = rel \/ rel' = [rel EXCEPT ![n] = RunRelease(n, says # "boundary")]
      BY <1>5, <2>4 DEF Collect
    <3>2. RelOK'
      <4>1. RunRelease(n, says # "boundary") \in RelShape
        BY RunReleaseType
      <4> HIDE DEF n, says
      <4> QED BY <1>1, <1>2, <3>1, <4>1, OneReleaseTypes, Same
    <3>3. FinOK'
      <4>1. says \in {"boundary", "missing", "nocommits"}
        BY <2>4, VerdictIs
      <4>2. \E again \in BOOLEAN : fin' = Rejecting(says, again)
        <5> DEFINE ruledOut == held /\ rel[n].by = "run"
        <5>1. ruledOut \in BOOLEAN
          BY DEF HeldCommit
        <5>2. fin' = Rejecting(says, TRUE) \/ fin' = Rejecting(says, ruledOut)
          BY <1>5, <2>4 DEF Collect, Rejecting
        <5> HIDE DEF says, ruledOut
        <5> QED BY <5>1, <5>2
      <4> HIDE DEF n, says
      <4>3. fin'.at = "reject" /\ fin'.why = says /\ fin'.n = fin.n /\ fin' \in FinShape
        BY <4>1, <4>2, RejectingIs
      <4> QED BY <1>1, <1>2, <4>1, <4>3 DEF TypeInv, FinOK, FinShape
    <3>4. DoneOK'
      BY <1>1, <1>2, <2>1, <3>1 DEF TypeInv, DoneOK
    <3>5. row' \in Rows
      BY <3>1, Shapes
    <3> QED BY <1>2, <1>3, <2>2, <3>2, <3>3, <3>4, <3>5, Same DEF TypeInv, RowsOK
  <2> QED BY <2>3, <2>4
<1> QED BY <1>4, <1>5

\* A refusal over the attempt at hand stops the run.
LEMMA StopOver ==
    ASSUME TypeInv, fin.at # "none", HostOK',
           Stop(tries[fin.n].tick, [mem EXCEPT ![tries[fin.n].tick].state = "rejected"]),
           UNCHANGED <<last, tries, rel, judged, merged, delivered, stray, unaddressed>>
    PROVE  TypeInv'
<1>1. tries[fin.n].tick \in Ticks
  BY Shapes
<1>2. [mem EXCEPT ![tries[fin.n].tick].state = "rejected"] \in Rows
  BY <1>1, RejectedRows
<1>3. unaddressed' \subseteq 1 .. last /\ RelOK'
  BY Same DEF TypeInv, DoneOK
<1> QED BY <1>2, <1>3, StopStep

LEMMA HeadMissingTypes == ASSUME TypeInv, HeadMissing PROVE TypeInv'
<1>1. /\ UNCHANGED <<last, tries, rel, judged, merged, delivered, job, work, stray, unaddressed>>
      /\ Stop(tries[fin.n].tick, [mem EXCEPT ![tries[fin.n].tick].state = "rejected"])
      /\ fin.at # "none"
  BY DEF HeadMissing, host
<1>2. HostOK'
  BY <1>1, Same
<1> QED BY <1>1, <1>2, StopOver

LEMMA MergeNothingTypes == ASSUME TypeInv, MergeNothing PROVE TypeInv'
<1>1. /\ UNCHANGED <<last, tries, rel, judged, merged, delivered, job, work, stray, unaddressed>>
      /\ Stop(tries[fin.n].tick, [mem EXCEPT ![tries[fin.n].tick].state = "rejected"])
      /\ fin.at # "none"
  BY DEF MergeNothing, host
<1>2. HostOK'
  BY <1>1, Same
<1> QED BY <1>1, <1>2, StopOver

LEMMA GateFailsTypes == ASSUME TypeInv, GateFails PROVE TypeInv'
<1>1. /\ UNCHANGED <<last, tries, rel, judged, merged, delivered, work, stray, unaddressed>>
      /\ \E quits \in Quits({fin.n} \ bare) : job' = TornDown({fin.n} \ bare, quits)
      /\ Stop(tries[fin.n].tick, [mem EXCEPT ![tries[fin.n].tick].state = "rejected"])
      /\ fin.at # "none"
  BY DEF GateFails
<1>2. {fin.n} \ bare \subseteq 1 .. last
  BY <1>1, Shapes
<1>3. HostOK'
  BY <1>1, <1>2, TornDownTypes
<1> QED BY <1>1, <1>3, StopOver

LEMMA RejectTypes == ASSUME TypeInv, Reject PROVE TypeInv'
<1> DEFINE n     == fin.n
           t     == tries[n].tick
           rows  == [mem EXCEPT ![t].state = "rejected"]
           known == IF fin.why = "boundary" THEN ruled ELSE Named(ruled, rows, {t}, {fin.why})
<1>1. n \in 1 .. last /\ t \in Ticks /\ fin.at = "reject" /\ row \in Rows
  BY Shapes DEF Reject
<1>2. /\ UNCHANGED <<last, tries, judged, merged, delivered, work, stray, pc, live, settled, bare, disp,
                     unaddressed>>
      /\ row' = (IF fin.why = "boundary" THEN row ELSE rows)
      /\ ruled' = known
      /\ \E quits \in Quits({n}) : job' = TornDown({n}, quits)
      /\ fin' = NoFin
  BY DEF Reject
<1>3. rows \in Rows
  BY <1>1, RejectedRows
<1>4. ruled' \in [Numbers -> Rulings]
  <2>1. ruled \in [Numbers -> Rulings]
    BY DEF TypeInv, RuledOK
  <2> QED BY <1>2, <2>1, NamedType
<1>5. HostOK'
  BY <1>1, <1>2, TornDownTypes
<1>6. FinOK'
  BY <1>2, NoFinTypes
<1>7. RelOK' /\ mem' \in Rows /\ queue' \subseteq Ticks /\ HeldOK'
  <2>1. CASE mem' = rows /\ queue' = queue \cup {t} /\ UNCHANGED <<rel, parked, retried>>
    BY <1>1, <1>2, <1>3, <2>1, Same DEF TypeInv, WindowOK
  <2>2. CASE HoldOnly(n, rows, known, fin.why, fin.why # "boundary" /\ HeldCommit(n),
                      fin.why = "missing" /\ job[n] = "failed" /\ work[n] = {})
    <3>1. fin.why \in Whys
      BY <1>1 DEF TypeInv, FinOK, Whys
    <3> HIDE DEF n, rows, known
    <3> QED BY <1>1, <1>2, <1>3, <2>2, <3>1, HoldOnlyTypes
  <2> QED BY <2>1, <2>2 DEF Reject
<1>8. RowsOK' /\ RuledOK'
  BY <1>1, <1>2, <1>3, <1>4, <1>7 DEF RowsOK, RuledOK
<1>9. WindowOK'
  BY <1>2, <1>7 DEF TypeInv, WindowOK
<1> QED BY <1>2, <1>5, <1>6, <1>7, <1>8, <1>9, Same DEF TypeInv

LEMMA ReleaseWorkerTypes == ASSUME TypeInv, ReleaseWorker PROVE TypeInv'
<1>1. /\ UNCHANGED <<row, last, tries, rel, ruled, judged, merged, delivered, work, stray, pc, mem, queue,
                     live, settled, bare, disp, parked, retried, unaddressed>>
      /\ \E quits \in Quits({fin.n}) : job' = TornDown({fin.n}, quits)
      /\ fin' = [fin EXCEPT !.at = "merge"] /\ fin.at # "none"
  BY DEF ReleaseWorker, origin, window
<1>2. {fin.n} \subseteq 1 .. last
  BY <1>1, Shapes
<1>3. HostOK'
  BY <1>1, <1>2, TornDownTypes
<1>4. FinOK'
  BY <1>1, FinTypes DEF FinSteps
<1> QED BY <1>1, <1>3, <1>4, Same DEF TypeInv

LEMMA MergeTypes == ASSUME TypeInv, Merge PROVE TypeInv'
<1>1. /\ UNCHANGED <<last, tries, rel, ruled, judged, job, work, stray, pc, mem, queue, live, settled, bare,
                     disp, parked, retried, unaddressed>>
      /\ row' = mem
      /\ delivered' = (IF fin.head = fin.n THEN delivered ELSE delivered \cup {fin.n})
      /\ merged' = merged \cup {fin.head} \cup tries[fin.head].under
      /\ fin' = [fin EXCEPT !.at = "gate"] /\ fin.at # "none" /\ fin.head # 0
  BY DEF Merge, host, window
<1>2. fin.n \in 1 .. last /\ fin.head \in 1 .. last
  <2>1. fin.head \in 0 .. last /\ last \in Nat
    BY Shapes DEF TypeInv, FinOK
  <2> QED BY <1>1, <2>1, Shapes
<1>3. DoneOK'
  <2>1. tries[fin.head].under \subseteq 1 .. last
    BY <1>2 DEF TypeInv, TriesOK
  <2> QED BY <1>1, <1>2, <2>1 DEF TypeInv, DoneOK
<1>4. FinOK'
  BY <1>1, FinTypes DEF FinSteps
<1>5. RowsOK'
  BY <1>1, Shapes DEF RowsOK
<1> QED BY <1>1, <1>3, <1>4, <1>5, Same DEF TypeInv

LEMMA ConflictTypes == ASSUME TypeInv, Conflict PROVE TypeInv'
<1> DEFINE n == fin.n
           t == tries[n].tick
<1>1. n \in 1 .. last /\ t \in Ticks /\ mem \in Rows
  BY Shapes DEF Conflict
<1>2. /\ UNCHANGED <<last, tries, ruled, judged, merged, job, work, stray, pc, live, settled, bare, disp,
                     unaddressed>>
      /\ row' = mem /\ fin' = NoFin
      /\ delivered' = (IF fin.head = n THEN delivered ELSE delivered \cup {n})
  BY DEF Conflict, host
<1>3. DoneOK'
  BY <1>1, <1>2 DEF TypeInv, DoneOK
<1>4. FinOK'
  BY <1>2, NoFinTypes
<1>5. [mem EXCEPT ![t].state = "rejected"] \in Rows
  BY <1>1, RejectedRows
<1>6. RelOK' /\ mem' \in Rows /\ queue' \subseteq Ticks /\ HeldOK'
  <2>1. CASE /\ \/ rel' = [rel EXCEPT ![n] = RunRelease(n, TRUE)]
                \/ rel' = rel
             /\ mem' = [mem EXCEPT ![t].state = "rejected"]
             /\ queue' = queue \cup {t}
             /\ UNCHANGED <<parked, retried>>
    <3>1. RunRelease(n, TRUE) \in RelShape
      BY RunReleaseType
    <3>2. RelOK'
      <4> HIDE DEF n
      <4> QED BY <1>1, <1>2, <2>1, <3>1, OneReleaseTypes, Same
    <3> QED BY <1>1, <1>2, <1>5, <2>1, <3>2, Same DEF TypeInv, WindowOK
  <2>2. CASE HoldOnly(n, mem, ruled, "other", FALSE, FALSE)
    <3>1. "other" \in Whys
      BY DEF Whys
    <3> HIDE DEF n
    <3> QED BY <1>1, <1>2, <2>2, <3>1, HoldOnlyTypes
  <2> QED BY <2>1, <2>2 DEF Conflict
<1>7. WindowOK'
  BY <1>2, <1>6 DEF TypeInv, WindowOK
<1>8. RowsOK'
  BY <1>1, <1>2, <1>6 DEF RowsOK
<1> QED BY <1>2, <1>3, <1>4, <1>6, <1>7, <1>8, Same DEF TypeInv

LEMMA GatePassesTypes == ASSUME TypeInv, GatePasses PROVE TypeInv'
<1>1. /\ UNCHANGED <<row, last, tries, rel, ruled, judged, merged, delivered, job, work, stray, pc, mem,
                     queue, live, settled, bare, disp, parked, retried, unaddressed>>
      /\ fin' = [fin EXCEPT !.at = "close"] /\ fin.at # "none"
  BY DEF GatePasses, origin, host, window
<1>2. FinOK'
  BY <1>1, FinTypes DEF FinSteps
<1> QED BY <1>1, <1>2, Same DEF TypeInv

LEMMA CloseTypes == ASSUME TypeInv, Close PROVE TypeInv'
<1>1. /\ UNCHANGED <<last, tries, rel, ruled, judged, merged, delivered, work, stray, pc, queue, live,
                     settled, disp, parked, retried, unaddressed>>
      /\ mem' = [mem EXCEPT ![tries[fin.n].tick].state = "closed"] /\ row' = mem'
      /\ \E quits \in Quits({fin.n}) : job' = TornDown({fin.n}, quits)
      /\ fin' = NoFin /\ bare' = bare \ {fin.n} /\ fin.at # "none"
  BY DEF Close
<1>2. {fin.n} \subseteq 1 .. last /\ tries[fin.n].tick \in Ticks
  BY <1>1, Shapes
<1>3. HostOK'
  BY <1>1, <1>2, TornDownTypes
<1>4. RowsOK'
  <2>1. mem' \in Rows
    BY <1>1, <1>2, RejectedRows
  <2> QED BY <1>1, <2>1 DEF RowsOK
<1>5. WindowOK'
  BY <1>1 DEF TypeInv, WindowOK
<1>6. FinOK'
  BY <1>1, NoFinTypes
<1> QED BY <1>1, <1>3, <1>4, <1>5, <1>6, Same DEF TypeInv

\* What happens beside the reconciler happens to attempts that were placed.
LEMMA Placed == ASSUME TypeInv, NEW n \in Numbers, job[n] # "none" \/ work[n] # {} PROVE n \in 1 .. last
<1>1. ~ (n > last) /\ last \in Nat
  BY Shapes DEF TypeInv, HostOK
<1> QED BY <1>1 DEF Numbers

LEMMA BesideTypes ==
    ASSUME TypeInv, UNCHANGED <<origin, memory, unaddressed>>, HostOK', stray' \subseteq 1 .. last
    PROVE  TypeInv'
<1>1. UNCHANGED <<row, last, tries, rel, ruled, judged, merged, delivered, pc, mem, queue, live, settled,
                  bare, disp, fin, parked, retried, unaddressed>>
  BY DEF origin, memory, window
<1>2. DoneOK'
  BY <1>1 DEF TypeInv, DoneOK
<1> QED BY <1>1, <1>2, Same DEF TypeInv

LEMMA WorkerCommitsTypes == ASSUME TypeInv, NEW n \in Numbers, WorkerCommits(n) PROVE TypeInv'
<1>1. /\ UNCHANGED <<origin, job, memory, unaddressed>> /\ job[n] # "none"
      /\ work' = [work EXCEPT ![n] = @ \cup {"local"}]
      /\ stray' \subseteq stray \cup {n}
  BY DEF WorkerCommits
<1>2. n \in 1 .. last
  BY <1>1, Placed
<1>3. last' = last
  BY <1>1 DEF origin
<1>4. HostOK'
  <2>1. work' \in [Numbers -> SUBSET {"local", "origin"}]
    BY <1>1 DEF TypeInv, HostOK
  <2>2. \A k \in Numbers : k > last => work'[k] = {}
    BY <1>1, <1>2, Shapes DEF TypeInv, HostOK, Numbers
  <2> QED BY <1>1, <1>3, <2>1, <2>2 DEF TypeInv, HostOK
<1>5. stray' \subseteq 1 .. last
  BY <1>1, <1>2 DEF TypeInv, DoneOK
<1> QED BY <1>1, <1>4, <1>5, BesideTypes

LEMMA WorkerPushesTypes == ASSUME TypeInv, NEW n \in Numbers, WorkerPushes(n) PROVE TypeInv'
<1>1. /\ UNCHANGED <<origin, job, stray, memory, unaddressed>> /\ work[n] # {}
      /\ work' = [work EXCEPT ![n] = @ \cup {"origin"}]
  BY DEF WorkerPushes
<1>2. n \in 1 .. last
  BY <1>1, Placed
<1>3. last' = last
  BY <1>1 DEF origin
<1>4. HostOK'
  <2>1. work' \in [Numbers -> SUBSET {"local", "origin"}]
    BY <1>1 DEF TypeInv, HostOK
  <2>2. \A k \in Numbers : k > last => work'[k] = {}
    BY <1>1, <1>2, Shapes DEF TypeInv, HostOK, Numbers
  <2> QED BY <1>1, <1>3, <2>1, <2>2 DEF TypeInv, HostOK
<1>5. stray' \subseteq 1 .. last
  BY <1>1 DEF TypeInv, DoneOK
<1> QED BY <1>1, <1>4, <1>5, BesideTypes

LEMMA WorkerEndsTypes == ASSUME TypeInv, NEW n \in Numbers, WorkerEnds(n) PROVE TypeInv'
<1>1. UNCHANGED <<origin, work, stray, memory, unaddressed>> /\ job[n] # "none"
  BY DEF WorkerEnds
<1>2. \E to \in {"reported", "failed", "walled", "lingering", "lost"} : job' = [job EXCEPT ![n] = to]
  BY DEF WorkerEnds
<1>3. n \in 1 .. last
  BY <1>1, Placed
<1>4. last' = last
  BY <1>1 DEF origin
<1>5. HostOK'
  <2>1. job' \in [Numbers -> Jobs]
    BY <1>2 DEF TypeInv, HostOK, Jobs, Terminal
  <2>2. \A k \in Numbers : k > last => job'[k] = "none"
    BY <1>2, <1>3, Shapes DEF TypeInv, HostOK, Numbers
  <2> QED BY <1>1, <1>4, <2>1, <2>2 DEF TypeInv, HostOK
<1>6. stray' \subseteq 1 .. last
  BY <1>1 DEF TypeInv, DoneOK
<1> QED BY <1>1, <1>5, <1>6, BesideTypes

LEMMA PersonSettlesTypes ==
    ASSUME TypeInv, NEW n \in Numbers, NEW carry \in BOOLEAN, PersonSettles(n, carry)
    PROVE  TypeInv'
<1>1. /\ UNCHANGED <<row, last, tries, ruled, judged, merged, delivered, work, stray, memory, unaddressed>>
      /\ n <= last
      /\ rel' = [rel EXCEPT ![n] = [by |-> "person", carry |-> carry, step |-> "none"]]
      /\ \E quits \in Quits({n}) : job' = TornDown({n}, quits)
  BY DEF PersonSettles
<1>2. n \in 1 .. last
  BY <1>1, Shapes DEF Numbers
<1>3. [by |-> "person", carry |-> carry, step |-> "none"] \in RelShape
  BY DEF RelShape
<1>4. RelOK'
  BY <1>1, <1>2, <1>3, OneReleaseTypes
<1>5. HostOK'
  BY <1>1, <1>2, TornDownTypes
<1>6. UNCHANGED <<pc, mem, queue, live, settled, bare, disp, fin, parked, retried>>
  BY <1>1 DEF memory, window
<1> QED BY <1>1, <1>4, <1>5, <1>6, Same DEF TypeInv

LEMMA TypeInit == Init => TypeInv
<1> SUFFICES ASSUME Init PROVE TypeInv
  OBVIOUS
<1> USE ConstantsAssumption DEF Init
<1>1. row \in Rows
  BY DEF Rows, Row
<1>2. RowsOK /\ RuledOK /\ DoneOK /\ HostOK /\ WindowOK
  BY <1>1 DEF RowsOK, RuledOK, DoneOK, HostOK, WindowOK, Rulings, Jobs
<1>3. NoTry \in TryShape /\ NoRel \in RelShape
  BY DEF NoTry, NoRel, TryShape, RelShape, Tick, Commits
<1>4. TriesOK /\ RelOK
  BY <1>3 DEF TriesOK, RelOK
<1>5. DispOK /\ FinOK
  BY DEF DispOK, FinOK, NoDisp, NoFin, DispSteps, FinSteps, Tick
<1>6. parked = <<>> /\ retried = [t \in Ticks |-> 0]
  OBVIOUS
<1>7. HeldOK
  BY <1>6 DEF HeldOK
<1> QED BY <1>2, <1>4, <1>5, <1>7 DEF TypeInv

LEMMA TypeStep == TypeInv /\ [Next]_vars => TypeInv'
<1> SUFFICES ASSUME TypeInv, [Next]_vars PROVE TypeInv'
  OBVIOUS
<1>1. CASE UNCHANGED vars
  BY <1>1, Same DEF vars, origin, host, memory, window, TypeInv
<1>2. CASE Start \/ Crash \/ Wipe \/ End
  BY <1>2, StartTypes, CrashTypes, WipeTypes, EndTypes
<1>3. CASE \E t \in Ticks : Admit(t) \/ \E denied \in SUBSET Of(t) : AdmitHeld(t, denied)
  BY <1>3, AdmitTypes, AdmitHeldTypes
<1>4. CASE Adopt \/ Place \/ Claim \/ StartJob \/ DieStarting \/ Note
  BY <1>4, AdoptTypes, PlaceTypes, ClaimTypes, StartJobTypes, DieStartingTypes, NoteTypes
<1>5. CASE \E n \in live : Poll(n) \/ Refuse(n)
  BY <1>5, PollTypes, RefuseTypes
<1>6. CASE \E n \in settled : BeginFinish(n)
  BY <1>6, BeginFinishTypes
<1>7. CASE Collect \/ HeadMissing \/ Reject \/ ReleaseWorker \/ Merge \/ MergeNothing \/ Conflict
  BY <1>7, CollectTypes, HeadMissingTypes, RejectTypes, ReleaseWorkerTypes, MergeTypes, MergeNothingTypes,
     ConflictTypes
<1>8. CASE GatePasses \/ GateFails \/ Close
  BY <1>8, GatePassesTypes, GateFailsTypes, CloseTypes
<1>9. CASE \E n \in Numbers : \/ WorkerCommits(n) \/ WorkerPushes(n) \/ WorkerEnds(n)
                              \/ \E carry \in BOOLEAN : PersonSettles(n, carry)
  BY <1>9, WorkerCommitsTypes, WorkerPushesTypes, WorkerEndsTypes, PersonSettlesTypes
<1> QED BY <1>1, <1>2, <1>3, <1>4, <1>5, <1>6, <1>7, <1>8, <1>9 DEF Next

LEMMA TypeInvariance == Spec => []TypeInv
BY TypeInit, TypeStep, PTL DEF Spec

\* The state keeps its shape (the tables of Dispatch's variables: what stands
\* on origin, on the host and in the reconciler's memory).
THEOREM TypeCorrect == Spec => []TypeOK
BY TypeInvariance, TypeInvType, PTL

-----------------------------------------------------------------------------
(* What makes the walk safe.  Between a release and the next dispatch an    *)
(* attempt that still runs must be one the run refused as unaddressed; the  *)
(* parts below say where else a running attempt may be, and what the rows   *)
(* on origin and in memory, which the walk reads, know of it.               *)

Held(n)  == disp.at \notin {"none", "place"} /\ n = disp.n
Ending(n) == fin.at # "none" /\ n = fin.n
\* An attempt the reconciler has under way.
AtHand(n) == n \in live \/ n \in settled \/ Ending(n) \/ Held(n)

\* A tick is in one place only: to be admitted, in the window, at its finish or
\* at its dispatch.
OnePlace ==
    /\ \A n \in live : tries[n].tick \notin queue /\ n \notin settled
    /\ \A n \in settled : tries[n].tick \notin queue
    /\ \A m, n \in live \cup settled : tries[m].tick = tries[n].tick => m = n
    /\ fin.at # "none" => /\ tries[fin.n].tick \notin queue
                          /\ \A n \in live \cup settled : tries[n].tick # tries[fin.n].tick
    /\ disp.at # "none" => /\ disp.tick \notin queue
                           /\ \A n \in live \cup settled : tries[n].tick # disp.tick
                           /\ fin.at # "none" => tries[fin.n].tick # disp.tick
DownIsEmpty == pc = "down" => /\ queue = {} /\ live = {} /\ settled = {} /\ bare = {}
                              /\ disp.at = "none" /\ fin.at = "none"

\* The dispatch under way: what is to be started is new or never started here,
\* was not released, and every later attempt of its tick was.
NewIsLast == disp.at \in {"claim", "start"} => disp.n = last
Unstarted ==
    /\ disp.at \in {"restart", "claim", "start"} => job[disp.n] = "none"
    /\ disp.at \in {"adopt", "restart", "claim", "start"} /\ job[disp.n] = "none" =>
           rel[disp.n].by = "none"
LaterReleased ==
    disp.at \in {"adopt", "restart"} =>
        \A k \in 1 .. last : tries[k].tick = disp.tick /\ k > disp.n => rel[k].by # "none"
\* Before a new attempt is placed, each earlier one of its tick was released, or
\* refused as unaddressed, or left nothing and ended.
NothingLeft ==
    disp.at = "place" =>
        \A m \in 1 .. last : tries[m].tick = disp.tick /\ rel[m].by = "none" =>
            m \in unaddressed \/ (work[m] = {} /\ job[m] # "running")

\* Who still runs.
ReleasedIsStill == \A n \in Numbers : rel[n].by # "none" => job[n] # "running"
OlderReleased ==
    \A m, n \in 1 .. last :
        m < n /\ tries[m].tick = tries[n].tick /\ job[m] = "running" /\ m \notin unaddressed =>
            rel[n].by # "none"
OthersMarked ==
    \A m, n \in 1 .. last :
        AtHand(n) /\ m # n /\ tries[m].tick = tries[n].tick /\ job[m] = "running" => m \in unaddressed
FinishedIsStill ==
    \A n \in 1 .. last :
        (n \in settled \/ Ending(n)) /\ job[n] = "running" => n \in bare /\ n \in unaddressed

\* What a rejected row says of the attempts of its tick, and what the rows of a
\* tick to admit, or under dispatch, say to each other.
RowMarks == \A n \in 1 .. last : row[tries[n].tick].state = "rejected" /\ job[n] = "running" => n \in unaddressed
MemMarks == \A n \in 1 .. last : mem[tries[n].tick].state = "rejected" /\ job[n] = "running" => n \in unaddressed
QueueRows == \A t \in queue : mem[t].state = "rejected" \/ row[t].state # "rejected"
DispRow == disp.at \in {"adopt", "restart", "claim", "start"} => row[disp.tick].state # "rejected"

\* The finish under way: nothing is dispatched while a worker is torn down, and
\* what no executor addresses never gets that far.
AloneAtEnds == fin.at \in {"reject", "release"} => disp.at = "none"
BareIsNotJudged == fin.at \in {"reject", "release", "merge"} => fin.n \notin bare

World  == ReleasedIsStill /\ OlderReleased /\ RowMarks /\ MemMarks
Flight == /\ OnePlace /\ DownIsEmpty /\ NewIsLast /\ Unstarted /\ LaterReleased /\ NothingLeft
          /\ OthersMarked /\ FinishedIsStill /\ QueueRows /\ DispRow /\ AloneAtEnds /\ BareIsNotJudged
IInv   == TypeInv /\ World /\ Flight

-----------------------------------------------------------------------------
(* Steps that start nothing. *)

\* No job starts, no release is taken back, what is released is still, and an
\* attempt that runs stays marked.
Calm ==
    /\ UNCHANGED <<last, tries>>
    /\ \A n \in Numbers : /\ job'[n] = "running" => job[n] = "running"
                          /\ rel[n].by # "none" => rel'[n].by # "none"
                          /\ rel'[n].by # "none" => rel[n].by # "none" \/ job'[n] # "running"
                          /\ job'[n] = "running" /\ n \in unaddressed => n \in unaddressed'

\* An attempt whose row becomes rejected has it from the other copy of the row,
\* or is still, or is marked.
RowsAreKnown ==
    \A n \in 1 .. last :
        /\ row'[tries[n].tick].state = "rejected" /\ job'[n] = "running" =>
               \/ row[tries[n].tick].state = "rejected" \/ mem[tries[n].tick].state = "rejected"
               \/ n \in unaddressed'
        /\ mem'[tries[n].tick].state = "rejected" /\ job'[n] = "running" =>
               \/ row[tries[n].tick].state = "rejected" \/ mem[tries[n].tick].state = "rejected"
               \/ n \in unaddressed'

LEMMA CalmKeeps == ASSUME TypeInv, World, Calm, RowsAreKnown PROVE World'
<1>1. last' = last /\ tries' = tries /\ 1 .. last \subseteq Numbers
  BY Shapes DEF Calm
<1>2. ReleasedIsStill'
  BY DEF World, ReleasedIsStill, Calm
<1>3. OlderReleased'
  BY <1>1 DEF World, OlderReleased, Calm
<1>4. ASSUME NEW n \in 1 .. last, job'[n] = "running",
             row[tries[n].tick].state = "rejected" \/ mem[tries[n].tick].state = "rejected"
      PROVE  n \in unaddressed'
  <2>1. job[n] = "running" /\ (n \in unaddressed => n \in unaddressed')
    BY <1>1, <1>4 DEF Calm
  <2> QED BY <1>4, <2>1 DEF World, RowMarks, MemMarks
<1>5. RowMarks'
  BY <1>1, <1>4 DEF RowMarks, RowsAreKnown
<1>6. MemMarks'
  BY <1>1, <1>4 DEF MemMarks, RowsAreKnown
<1> QED BY <1>2, <1>3, <1>5, <1>6 DEF World

\* A step that ends the process.
LEMMA DownKeeps == ASSUME TypeInv, World, Calm, RowsAreKnown, Down PROVE World' /\ Flight'
<1>1. World'
  BY CalmKeeps
<1>2. queue' = {} /\ live' = {} /\ settled' = {} /\ bare' = {} /\ disp'.at = "none" /\ fin'.at = "none"
  BY DEF Down, NoDisp, NoFin
<1>3. OnePlace' /\ DownIsEmpty' /\ NewIsLast' /\ Unstarted' /\ LaterReleased' /\ NothingLeft'
  BY <1>2 DEF OnePlace, DownIsEmpty, NewIsLast, Unstarted, LaterReleased, NothingLeft
<1>4. OthersMarked' /\ FinishedIsStill'
  BY <1>2 DEF OthersMarked, FinishedIsStill, AtHand, Ending, Held
<1>5. QueueRows' /\ DispRow' /\ AloneAtEnds' /\ BareIsNotJudged'
  BY <1>2 DEF QueueRows, DispRow, AloneAtEnds, BareIsNotJudged
<1> QED BY <1>1, <1>3, <1>4, <1>5 DEF Flight

\* A step that leaves jobs, releases and marks alone.
LEMMA UntouchedIsCalm ==
    ASSUME UNCHANGED <<last, tries, job, rel>>, unaddressed \subseteq unaddressed'
    PROVE  Calm
BY DEF Calm

LEMMA TearDownIsCalm ==
    ASSUME TypeInv, NEW ns \in SUBSET (1 .. last), \E quits \in Quits(ns) : job' = TornDown(ns, quits),
           UNCHANGED <<last, tries, rel>>, unaddressed \subseteq unaddressed'
    PROVE  Calm /\ \A n \in ns : job'[n] # "running"
<1>1. \A n \in Numbers : job'[n] = "running" => job[n] = "running" /\ n \notin ns
  BY TearsDown DEF TypeInv
<1> QED BY <1>1, Shapes DEF Calm

LEMMA CrashKeeps == ASSUME IInv, Crash PROVE World' /\ Flight'
<1>1. UNCHANGED <<row, last, tries, job, rel, unaddressed>> /\ Down
  BY DEF Crash, origin, host
<1>2. Calm
  BY <1>1, UntouchedIsCalm
<1>3. RowsAreKnown
  BY <1>1 DEF RowsAreKnown, Down
<1> QED BY <1>1, <1>2, <1>3, DownKeeps DEF IInv

LEMMA WipeKeeps == ASSUME IInv, Wipe PROVE World' /\ Flight'
<1>1. /\ UNCHANGED <<row, last, tries, rel, unaddressed>> /\ Down
      /\ job' = [n \in Numbers |-> "none"]
  BY DEF Wipe, origin
<1>2. Calm
  BY <1>1 DEF Calm
<1>3. RowsAreKnown
  BY <1>1 DEF RowsAreKnown, Down
<1> QED BY <1>1, <1>2, <1>3, DownKeeps DEF IInv

LEMMA EndKeeps == ASSUME IInv, End PROVE World' /\ Flight'
<1>1. UNCHANGED <<last, tries, job, rel, unaddressed>> /\ Down /\ row' = mem
  BY DEF End, host
<1>2. Calm
  BY <1>1, UntouchedIsCalm
<1>3. RowsAreKnown
  BY <1>1 DEF RowsAreKnown, Down
<1> QED BY <1>1, <1>2, <1>3, DownKeeps DEF IInv

\* A refusal that leaves the row open.
LEMMA StopOpen ==
    ASSUME IInv, NEW t \in Ticks, NEW rows, Stop(t, rows), Calm,
           rows[t].state = "open", \A u \in Ticks \ {t} : rows[u] = mem[u]
    PROVE  World' /\ Flight'
<1>1. row' = rows /\ mem' = rows /\ Down
  BY DEF Stop, Down
<1>2. \A n \in 1 .. last : tries[n].tick \in Ticks
  BY Shapes DEF IInv
<1>3. RowsAreKnown
  BY <1>1, <1>2 DEF RowsAreKnown
<1> QED BY <1>1, <1>3, DownKeeps DEF IInv

\* A refusal that rejects the row of an attempt at hand, or of a rejected tick.
LEMMA StopRejected ==
    ASSUME IInv, NEW t \in Ticks, NEW rows, Stop(t, rows), Calm,
           \A u \in Ticks \ {t} : rows[u] = mem[u],
           \/ mem[t].state = "rejected"
           \/ \E n \in 1 .. last : /\ AtHand(n) /\ tries[n].tick = t
                                   /\ job'[n] = "running" => n \in unaddressed'
    PROVE  World' /\ Flight'
<1>1. row' = rows /\ mem' = rows /\ Down
  BY DEF Stop, Down
<1>2. \A n \in 1 .. last : tries[n].tick \in Ticks /\ n \in Numbers
  BY Shapes DEF IInv
<1>3. ASSUME NEW m \in 1 .. last, rows[tries[m].tick].state = "rejected", job'[m] = "running"
      PROVE  \/ mem[tries[m].tick].state = "rejected"
             \/ m \in unaddressed'
  <2>1. CASE tries[m].tick # t
    BY <1>2, <1>3, <2>1
  <2>2. CASE tries[m].tick = t /\ mem[t].state = "rejected"
    BY <2>2
  <2>3. ASSUME NEW n \in 1 .. last, AtHand(n), tries[n].tick = t, job'[n] = "running" => n \in unaddressed',
               tries[m].tick = t
        PROVE  m \in unaddressed'
    <3>1. job[m] = "running" /\ (m \in unaddressed => m \in unaddressed')
      BY <1>2, <1>3 DEF Calm
    <3>2. m # n => m \in unaddressed
      BY <2>3, <3>1 DEF IInv, Flight, OthersMarked
    <3> QED BY <1>3, <2>3, <3>1, <3>2
  <2> QED BY <2>1, <2>2, <2>3
<1>4. RowsAreKnown
  BY <1>1, <1>3 DEF RowsAreKnown
<1> QED BY <1>1, <1>4, DownKeeps DEF IInv

\* What EXCEPT makes of the rows.
LEMMA RowIs ==
    ASSUME NEW rows \in Rows, NEW t \in Ticks, NEW state, NEW n
    PROVE  /\ [rows EXCEPT ![t].state = state][t].state = state
           /\ \A u \in Ticks \ {t} : [rows EXCEPT ![t].state = state][u] = rows[u]
           /\ [rows EXCEPT ![t].attempt = n][t].state = rows[t].state
           /\ \A u \in Ticks \ {t} : [rows EXCEPT ![t].attempt = n][u] = rows[u]
           /\ [rows EXCEPT ![t] = [state |-> state, attempt |-> n]][t].state = state
           /\ \A u \in Ticks \ {t} : [rows EXCEPT ![t] = [state |-> state, attempt |-> n]][u] = rows[u]
BY DEF Rows, Row

\* What the walk makes of an attempt, by what is recorded of it.
LEMMA FateIs ==
    ASSUME TypeInv, NEW n \in 1 .. last
    PROVE  /\ rel[n].by = "person" => Fate(n) = "skipped"
           /\ rel[n].by = "run" => Fate(n) = "failed"
           /\ rel[n].by = "none" => Fate(n) = Disposition(n)
           /\ rel[n].by \in {"none", "person", "run"}
<1>1. rel[n].by \in {"none", "person", "run"}
  BY Shapes DEF TypeInv, RelOK, RelShape
<1>2. rel[n].by = "person" => Fate(n) = "skipped"
  BY DEF Fate
<1>3. rel[n].by = "run" => Fate(n) = "failed"
  BY DEF Fate
<1>4. rel[n].by = "none" => Fate(n) = Disposition(n)
  BY DEF Fate
<1> QED BY <1>1, <1>2, <1>3, <1>4

\* What the walk holds was rejected, and nobody released it.
LEMMA HeldAre ==
    ASSUME TypeInv, NEW n \in 1 .. last, Fate(n) = "hold"
    PROVE  mem[tries[n].tick].state = "rejected" /\ rel[n].by = "none"
<1>1. rel[n].by = "none" /\ Fate(n) = Disposition(n)
  BY FateIs
<1> QED BY <1>1 DEF Disposition

\* The walk's own releases and tear-downs start nothing.
LEMMA WalkIsCalm ==
    ASSUME TypeInv, NEW ns, NEW torn \in SUBSET (1 .. last), ns \subseteq torn,
           Release(ns), \E quits \in Quits(torn) : job' = TornDown(torn, quits),
           UNCHANGED <<last, tries, unaddressed>>
    PROVE  Calm
<1>1. \A n \in Numbers : job'[n] = "running" => job[n] = "running" /\ n \notin torn
  BY TearsDown DEF TypeInv
<1>2. \A n \in Numbers : rel'[n] = IF n \in ns THEN RunRelease(n, ruled[n] = "carry") ELSE rel[n]
  BY DEF Release
<1>3. \A n \in Numbers : RunRelease(n, ruled[n] = "carry").by = "run"
  BY DEF RunRelease
<1> QED BY <1>1, <1>2, <1>3 DEF Calm

LEMMA AdmitHeldKeeps ==
    ASSUME IInv, NEW t \in Ticks, NEW denied, AdmitHeld(t, denied)
    PROVE  World' /\ Flight'
<1> DEFINE held  == Fated(t, {"hold"})
           stuck == {n \in held : ~Decided(n) \/ n \in denied}
           at    == Max(stuck)
           torn  == {n \in held : n >= at} \cup {n \in Of(t) : n > at /\ rel[n].by = "run"}
           rows  == [mem EXCEPT ![t] = [state |-> "rejected", attempt |-> at]]
<1>1. /\ UNCHANGED <<last, tries, unaddressed>>
      /\ stuck # {}
      /\ Release({n \in held : n > at})
      /\ \E quits \in Quits(torn) : job' = TornDown(torn, quits)
      /\ Stop(t, rows)
  BY DEF AdmitHeld
<1>2. torn \subseteq 1 .. last
  BY FatedAre DEF Of
<1>3. {n \in held : n > at} \subseteq torn
  <2>1. \A n \in held : n \in Nat
    BY FatedAre, Shapes DEF IInv
  <2>2. at \in Nat
    <3>1. stuck \in SUBSET (0 .. last) /\ last \in Nat
      BY FatedAre, Shapes DEF IInv
    <3>2. stuck # {}
      BY <1>1
    <3> HIDE DEF stuck
    <3>3. at \in stuck
      BY <3>1, <3>2, Latest
    <3>4. \A k \in 0 .. last : k \in Nat
      BY <3>1
    <3> HIDE DEF at
    <3> QED BY <3>1, <3>3, <3>4
  <2> HIDE DEF held, at
  <2> QED BY <2>1, <2>2
<1>4. mem[t].state = "rejected"
  <2>1. PICK n \in stuck : TRUE
    BY <1>1
  <2>2. Fate(n) = "hold" /\ tries[n].tick = t /\ n \in 1 .. last
    BY <2>1 DEF Fated, Of
  <2> QED BY <2>2, HeldAre DEF IInv
<1>5. mem \in Rows
  BY Shapes DEF IInv
<1> HIDE DEF at, stuck, held
<1>6. rows[t].state = "rejected" /\ \A u \in Ticks \ {t} : rows[u] = mem[u]
  BY <1>5, RowIs
<1> HIDE DEF torn, rows
<1>7. Calm
  BY <1>1, <1>2, <1>3, WalkIsCalm DEF IInv
<1> QED BY <1>1, <1>4, <1>6, <1>7, StopRejected

\* A claim refused, or a job nobody can address.
LEMMA AdoptStops ==
    ASSUME IInv, Adopt, pc' = "down"
    PROVE  World' /\ Flight'
<1> DEFINE n == disp.n
<1>1. /\ n \in 1 .. last /\ disp.tick \in Ticks /\ disp.at = "adopt" /\ tries[n].tick = disp.tick
      /\ mem \in Rows
  BY Shapes DEF Adopt, IInv
<1>2. UNCHANGED <<job, work, stray>> /\ pc = "up"
  <2>1. pc \in {"up", "down"}
    BY DEF IInv, TypeInv, WindowOK
  <2> QED BY <1>1, <2>1 DEF Adopt, host, IInv, Flight, DownIsEmpty
<1>3. CASE /\ Stop(disp.tick, [mem EXCEPT ![disp.tick].state = "open"])
           /\ UNCHANGED <<last, tries, rel, judged, merged, delivered, unaddressed>>
  <2>1. Calm
    BY <1>2, <1>3, UntouchedIsCalm
  <2>2. /\ [mem EXCEPT ![disp.tick].state = "open"][disp.tick].state = "open"
        /\ \A u \in Ticks \ {disp.tick} : [mem EXCEPT ![disp.tick].state = "open"][u] = mem[u]
    BY <1>1, RowIs
  <2> QED BY <1>1, <1>3, <2>1, <2>2, StopOpen
<1>4. CASE /\ job[n] = "lost"
           /\ unaddressed' = unaddressed \cup {n}
           /\ Stop(disp.tick, [mem EXCEPT ![disp.tick].state = "rejected"])
           /\ UNCHANGED <<last, tries, rel, judged, merged, delivered>>
  <2>1. Calm
    BY <1>2, <1>4, UntouchedIsCalm
  <2>2. \A u \in Ticks \ {disp.tick} : [mem EXCEPT ![disp.tick].state = "rejected"][u] = mem[u]
    BY <1>1, RowIs
  <2>3. AtHand(n) /\ n \in unaddressed'
    BY <1>1, <1>4 DEF AtHand, Held
  <2> QED BY <1>1, <1>4, <2>1, <2>2, <2>3, StopRejected
<1> QED BY <1>2, <1>3, <1>4 DEF Adopt

LEMMA PlaceStops ==
    ASSUME IInv, Place, UNCHANGED origin, Down
    PROVE  World' /\ Flight'
<1>1. UNCHANGED <<row, last, tries, job, rel>> /\ unaddressed \subseteq unaddressed'
  BY DEF Place, origin, host
<1>2. Calm
  BY <1>1, UntouchedIsCalm
<1>3. RowsAreKnown
  BY <1>1 DEF RowsAreKnown, Down
<1> QED BY <1>2, <1>3, DownKeeps DEF IInv

LEMMA ClaimStops ==
    ASSUME IInv, Claim, Stop(disp.tick, [mem EXCEPT ![disp.tick] = [state |-> "open", attempt |-> disp.n]]),
           UNCHANGED <<last, tries, rel, judged, merged, delivered>>
    PROVE  World' /\ Flight'
<1> DEFINE rows == [mem EXCEPT ![disp.tick] = [state |-> "open", attempt |-> disp.n]]
<1>1. disp.tick \in Ticks /\ mem \in Rows
  BY Shapes DEF Claim, IInv
<1>2. UNCHANGED job /\ unaddressed \subseteq unaddressed'
  BY DEF Claim, host
<1>3. Calm
  BY <1>2, UntouchedIsCalm
<1>4. rows[disp.tick].state = "open" /\ \A u \in Ticks \ {disp.tick} : rows[u] = mem[u]
  BY <1>1, RowIs
<1> HIDE DEF rows
<1>5. Stop(disp.tick, rows)
  BY DEF rows
<1> QED BY <1>1, <1>3, <1>4, <1>5, StopOpen

LEMMA DieStartingKeeps == ASSUME IInv, DieStarting PROVE World' /\ Flight'
<1>1. /\ UNCHANGED <<row, last, tries, rel, unaddressed>> /\ Down
      /\ job' = [job EXCEPT ![disp.n] = "lost"]
  BY DEF DieStarting, origin
<1>2. \A n \in Numbers : job'[n] = "running" => job[n] = "running"
  BY <1>1 DEF IInv, TypeInv, HostOK
<1>3. Calm
  BY <1>1, <1>2 DEF Calm, IInv, World, ReleasedIsStill
<1>4. RowsAreKnown
  BY <1>1 DEF RowsAreKnown, Down
<1> QED BY <1>1, <1>3, <1>4, DownKeeps DEF IInv

\* A refusal over the attempt at its finish.
LEMMA StopsAtFinish ==
    ASSUME IInv, fin.at # "none", Calm,
           Stop(tries[fin.n].tick, [mem EXCEPT ![tries[fin.n].tick].state = "rejected"])
    PROVE  World' /\ Flight'
<1> DEFINE t    == tries[fin.n].tick
           rows == [mem EXCEPT ![t].state = "rejected"]
<1>1. fin.n \in 1 .. last /\ fin.n \in Numbers /\ t \in Ticks /\ mem \in Rows
  BY Shapes DEF IInv
<1>2. \A u \in Ticks \ {t} : rows[u] = mem[u]
  BY <1>1, RowIs
<1>3. AtHand(fin.n) /\ (job'[fin.n] = "running" => fin.n \in unaddressed')
  <2>1. Ending(fin.n) /\ AtHand(fin.n)
    BY DEF AtHand, Ending
  <2>2. job'[fin.n] = "running" => job[fin.n] = "running"
    BY <1>1 DEF Calm
  <2>3. job[fin.n] = "running" => fin.n \in unaddressed
    BY <1>1, <2>1 DEF IInv, Flight, FinishedIsStill
  <2>4. job'[fin.n] = "running" /\ fin.n \in unaddressed => fin.n \in unaddressed'
    BY <1>1 DEF Calm
  <2> QED BY <2>1, <2>2, <2>3, <2>4
<1>4. Stop(t, rows)
  OBVIOUS
<1> HIDE DEF t, rows
<1>5. tries[fin.n].tick = t
  BY DEF t
<1> QED BY <1>1, <1>2, <1>3, <1>4, <1>5, StopRejected

LEMMA HeadMissingKeeps == ASSUME IInv, HeadMissing PROVE World' /\ Flight'
<1>1. UNCHANGED <<last, tries, job, rel, unaddressed>> /\ fin.at # "none"
  BY DEF HeadMissing, host
<1>2. Calm
  BY <1>1, UntouchedIsCalm
<1> QED BY <1>1, <1>2, StopsAtFinish DEF HeadMissing

LEMMA MergeNothingKeeps == ASSUME IInv, MergeNothing PROVE World' /\ Flight'
<1>1. UNCHANGED <<last, tries, job, rel, unaddressed>> /\ fin.at # "none"
  BY DEF MergeNothing, host
<1>2. Calm
  BY <1>1, UntouchedIsCalm
<1> QED BY <1>1, <1>2, StopsAtFinish DEF MergeNothing

LEMMA GateFailsKeeps == ASSUME IInv, GateFails PROVE World' /\ Flight'
<1>1. /\ UNCHANGED <<last, tries, rel, unaddressed>> /\ fin.at # "none"
      /\ \E quits \in Quits({fin.n} \ bare) : job' = TornDown({fin.n} \ bare, quits)
  BY DEF GateFails
<1>2. {fin.n} \ bare \subseteq 1 .. last
  BY <1>1, Shapes DEF IInv
<1>3. Calm
  BY <1>1, <1>2, TearDownIsCalm DEF IInv
<1> QED BY <1>1, <1>3, StopsAtFinish DEF GateFails

-----------------------------------------------------------------------------
(* The jobs and the person, beside the reconciler. *)

LEMMA BesideKeeps ==
    ASSUME IInv, Calm, UNCHANGED <<row, memory, unaddressed>>,
           \A n \in Numbers : /\ job'[n] = "none" <=> job[n] = "none"
                              /\ rel'[n].by # "none" => rel[n].by # "none" \/ job[n] # "none"
                              /\ work'[n] # {} => work[n] # {} \/ job[n] = "running"
    PROVE  World' /\ Flight'
<1>1. UNCHANGED <<row, pc, mem, queue, live, settled, bare, disp, fin, unaddressed, last, tries>>
  BY DEF memory, window, Calm
<1>2. /\ 1 .. last \subseteq Numbers
      /\ disp.at \notin {"none", "place"} => disp.n \in Numbers
  BY Shapes DEF IInv
<1>3. World'
  <2>1. RowsAreKnown
    BY <1>1 DEF RowsAreKnown
  <2> QED BY <2>1, CalmKeeps DEF IInv
<1>4. /\ \A n \in Numbers : job'[n] = "running" => job[n] = "running"
      /\ \A n \in Numbers : rel[n].by # "none" => rel'[n].by # "none"
  BY DEF Calm
<1>5. OnePlace' /\ DownIsEmpty' /\ NewIsLast' /\ QueueRows' /\ DispRow' /\ AloneAtEnds' /\ BareIsNotJudged'
  BY <1>1 DEF IInv, Flight, OnePlace, DownIsEmpty, NewIsLast, QueueRows, DispRow, AloneAtEnds,
              BareIsNotJudged
<1>6. Unstarted'
  BY <1>1, <1>2 DEF IInv, Flight, Unstarted
<1>7. LaterReleased'
  BY <1>1, <1>2, <1>4 DEF IInv, Flight, LaterReleased
<1>8. NothingLeft'
  BY <1>1, <1>2, <1>4 DEF IInv, Flight, NothingLeft
<1>9. OthersMarked'
  BY <1>1, <1>2, <1>4 DEF IInv, Flight, OthersMarked, AtHand, Ending, Held
<1>10. FinishedIsStill'
  BY <1>1, <1>2, <1>4 DEF IInv, Flight, FinishedIsStill, Ending
<1> QED BY <1>3, <1>5, <1>6, <1>7, <1>8, <1>9, <1>10 DEF Flight

LEMMA WorkerCommitsKeeps == ASSUME IInv, NEW n \in Numbers, WorkerCommits(n) PROVE World' /\ Flight'
<1>1. /\ UNCHANGED <<row, last, tries, rel, job, memory, unaddressed>> /\ job[n] = "running"
      /\ work' = [work EXCEPT ![n] = @ \cup {"local"}]
  BY DEF WorkerCommits, origin
<1>2. Calm
  BY <1>1, UntouchedIsCalm
<1>3. \A k \in Numbers : work'[k] # {} => work[k] # {} \/ job[k] = "running"
  BY <1>1 DEF IInv, TypeInv, HostOK
<1> QED BY <1>1, <1>2, <1>3, BesideKeeps

LEMMA WorkerPushesKeeps == ASSUME IInv, NEW n \in Numbers, WorkerPushes(n) PROVE World' /\ Flight'
<1>1. /\ UNCHANGED <<row, last, tries, rel, job, memory, unaddressed>> /\ work[n] # {}
      /\ work' = [work EXCEPT ![n] = @ \cup {"origin"}]
  BY DEF WorkerPushes, origin
<1>2. Calm
  BY <1>1, UntouchedIsCalm
<1>3. \A k \in Numbers : work'[k] # {} => work[k] # {} \/ job[k] = "running"
  BY <1>1 DEF IInv, TypeInv, HostOK
<1> QED BY <1>1, <1>2, <1>3, BesideKeeps

LEMMA WorkerEndsKeeps == ASSUME IInv, NEW n \in Numbers, WorkerEnds(n) PROVE World' /\ Flight'
<1>1. UNCHANGED <<row, last, tries, rel, work, memory, unaddressed>> /\ job[n] # "none"
  BY DEF WorkerEnds, origin
<1>2. \E to \in {"reported", "failed", "walled", "lingering", "lost"} : job' = [job EXCEPT ![n] = to]
  BY DEF WorkerEnds
<1>3. \A k \in Numbers : /\ job'[k] = "running" => job[k] = "running"
                         /\ job'[k] = "none" <=> job[k] = "none"
  BY <1>1, <1>2 DEF IInv, TypeInv, HostOK
<1>4. Calm
  BY <1>1, <1>3 DEF Calm
<1> QED BY <1>1, <1>3, <1>4, BesideKeeps

LEMMA PersonSettlesKeeps ==
    ASSUME IInv, NEW n \in Numbers, NEW carry \in BOOLEAN, PersonSettles(n, carry)
    PROVE  World' /\ Flight'
<1>1. /\ UNCHANGED <<row, last, tries, work, memory, unaddressed>>
      /\ n <= last /\ rel[n].by = "none" /\ job[n] \in {"lost"} \cup Terminal
      /\ rel' = [rel EXCEPT ![n] = [by |-> "person", carry |-> carry, step |-> "none"]]
      /\ \E quits \in Quits({n}) : job' = TornDown({n}, quits)
  BY DEF PersonSettles
<1>2. n \in 1 .. last
  BY <1>1, Shapes DEF Numbers, IInv
<1>3. \A k \in Numbers : /\ job'[k] = "running" => job[k] = "running" /\ k # n
                         /\ job'[k] = "none" <=> job[k] = "none"
  <2>1. HostOK /\ TriesOK /\ {n} \in SUBSET (1 .. last)
    BY <1>2 DEF IInv, TypeInv
  <2> QED BY <1>1, <2>1, TearsDown
<1>4. \A k \in Numbers : k # n => rel'[k] = rel[k]
  BY <1>1 DEF IInv, TypeInv, RelOK
<1>5. Calm
  BY <1>1, <1>3, <1>4 DEF Calm
<1>6. job[n] # "none"
  BY <1>1 DEF Terminal
<1> QED BY <1>1, <1>3, <1>4, <1>5, <1>6, BesideKeeps

-----------------------------------------------------------------------------
(* The steps of a finish. *)

\* The tick of an attempt at hand has no other attempt that runs unmarked.
LEMMA TickIsMarked ==
    ASSUME IInv, Calm, NEW n \in 1 .. last, AtHand(n), job'[n] = "running" => n \in unaddressed',
           NEW m \in 1 .. last, tries[m].tick = tries[n].tick, job'[m] = "running"
    PROVE  m \in unaddressed'
<1>1. job[m] = "running" /\ (m \in unaddressed => m \in unaddressed')
  BY Shapes DEF Calm, IInv
<1>2. m # n => m \in unaddressed
  BY <1>1 DEF IInv, Flight, OthersMarked
<1> QED BY <1>1, <1>2

LEMMA FinishMoves ==
    ASSUME IInv, Calm, RowsAreKnown, disp.at = "none",
           UNCHANGED <<disp, pc, queue, live, settled, bare>>,
           fin.at # "none", fin'.at # "none", fin'.n = fin.n,
           fin'.at \in {"reject", "release", "merge"} => fin.n \notin bare,
           \A t \in Ticks : t # tries[fin.n].tick => mem'[t] = mem[t] /\ row'[t] \in {row[t], mem[t]}
    PROVE  World' /\ Flight'
<1>1. /\ last' = last /\ tries' = tries /\ queue \subseteq Ticks /\ 1 .. last \subseteq Numbers
      /\ fin.n \in 1 .. last
  BY Shapes DEF Calm, IInv, TypeInv, WindowOK
<1>2. World'
  BY CalmKeeps DEF IInv
<1>3. /\ \A n \in Numbers : job'[n] = "running" => job[n] = "running"
      /\ \A n \in Numbers : job'[n] = "running" /\ n \in unaddressed => n \in unaddressed'
  BY DEF Calm
<1>4. OnePlace' /\ DownIsEmpty' /\ AloneAtEnds'
  BY <1>1 DEF IInv, Flight, OnePlace, DownIsEmpty, AloneAtEnds
<1>5. NewIsLast' /\ Unstarted' /\ LaterReleased' /\ NothingLeft' /\ DispRow'
  BY DEF NewIsLast, Unstarted, LaterReleased, NothingLeft, DispRow
<1>6. QueueRows'
  <2>1. tries[fin.n].tick \notin queue
    BY DEF IInv, Flight, OnePlace
  <2> QED BY <1>1, <2>1 DEF IInv, Flight, QueueRows
<1>7. OthersMarked'
  <2>1. \A n : AtHand(n)' => AtHand(n)
    BY DEF AtHand, Ending, Held
  <2> QED BY <1>1, <1>3, <2>1 DEF IInv, Flight, OthersMarked
<1>8. FinishedIsStill'
  <2>1. \A n : Ending(n)' => Ending(n)
    BY DEF Ending
  <2> QED BY <1>1, <1>3, <2>1 DEF IInv, Flight, FinishedIsStill
<1>9. BareIsNotJudged'
  BY DEF BareIsNotJudged
<1> QED BY <1>2, <1>4, <1>5, <1>6, <1>7, <1>8, <1>9 DEF Flight

LEMMA FinishEnds ==
    ASSUME IInv, Calm, RowsAreKnown, disp.at = "none", UNCHANGED <<disp, pc, live, settled>>,
           fin.at # "none", fin'.at = "none",
           \A n \in settled : n \in bare => n \in bare',
           queue' = queue \/ (/\ queue' = queue \cup {tries[fin.n].tick}
                              /\ mem'[tries[fin.n].tick].state = "rejected"),
           \A t \in Ticks : t # tries[fin.n].tick => mem'[t] = mem[t] /\ row'[t] \in {row[t], mem[t]}
    PROVE  World' /\ Flight'
<1>1. /\ last' = last /\ tries' = tries /\ queue \subseteq Ticks /\ 1 .. last \subseteq Numbers
      /\ fin.n \in 1 .. last /\ live \subseteq 1 .. last /\ settled \subseteq 1 .. last
  BY Shapes DEF Calm, IInv, TypeInv, WindowOK
<1>2. World'
  BY CalmKeeps DEF IInv
<1>3. /\ \A n \in Numbers : job'[n] = "running" => job[n] = "running"
      /\ \A n \in Numbers : job'[n] = "running" /\ n \in unaddressed => n \in unaddressed'
  BY DEF Calm
<1>4. pc # "down"
  BY DEF IInv, Flight, DownIsEmpty
<1>5. DownIsEmpty' /\ AloneAtEnds' /\ BareIsNotJudged'
  BY <1>4 DEF DownIsEmpty, AloneAtEnds, BareIsNotJudged
<1>6. OnePlace'
  <2>1. \A n \in live \cup settled : tries[n].tick # tries[fin.n].tick
    BY DEF IInv, Flight, OnePlace
  <2>2. OnePlace
    BY DEF IInv, Flight
  <2>3. \A t : t \in queue' => t \in queue \/ t = tries[fin.n].tick
    OBVIOUS
  <2> QED BY <1>1, <2>1, <2>2, <2>3 DEF OnePlace
<1>7. NewIsLast' /\ Unstarted' /\ LaterReleased' /\ NothingLeft' /\ DispRow'
  BY DEF NewIsLast, Unstarted, LaterReleased, NothingLeft, DispRow
<1>8. QueueRows'
  <2>1. tries[fin.n].tick \notin queue
    BY DEF IInv, Flight, OnePlace
  <2>2. ASSUME NEW t \in queue PROVE mem'[t].state = "rejected" \/ row'[t].state # "rejected"
    BY <1>1, <2>1, <2>2 DEF IInv, Flight, QueueRows
  <2> QED BY <2>2 DEF QueueRows
<1>9. OthersMarked'
  <2>1. \A n : AtHand(n)' => AtHand(n)
    BY DEF AtHand, Ending, Held
  <2> QED BY <1>1, <1>3, <2>1 DEF IInv, Flight, OthersMarked
<1>10. FinishedIsStill'
  <2>1. \A n : ~ Ending(n)'
    BY DEF Ending
  <2> QED BY <1>1, <1>3, <2>1 DEF IInv, Flight, FinishedIsStill
<1> QED BY <1>2, <1>5, <1>6, <1>7, <1>8, <1>9, <1>10 DEF Flight

LEMMA CollectKeeps == ASSUME IInv, Collect PROVE World' /\ Flight'
<1> DEFINE n == fin.n
           t == tries[n].tick
<1>1. /\ n \in 1 .. last /\ n \in Numbers /\ t \in Ticks /\ mem \in Rows /\ 1 .. last \subseteq Numbers
      /\ \A k \in 1 .. last : tries[k].tick \in Ticks
  BY Shapes DEF Collect, IInv
<1>2. /\ UNCHANGED <<last, tries, job, pc, queue, live, settled, bare, disp>>
      /\ fin.at = "collect" /\ disp.at = "none"
      /\ mem' = [mem EXCEPT ![t].state = "open"]
      /\ n \in bare => Integrated(n)
  BY DEF Collect, window, Between, NoDisp
<1>3. mem'[t].state = "open" /\ \A u \in Ticks \ {t} : mem'[u] = mem[u]
  <2>1. t \in Ticks /\ mem \in Rows /\ mem' = [mem EXCEPT ![t].state = "open"]
    BY <1>1, <1>2
  <2> HIDE DEF t
  <2>2. /\ [mem EXCEPT ![t].state = "open"][t].state = "open"
        /\ \A u \in Ticks \ {t} : [mem EXCEPT ![t].state = "open"][u] = mem[u]
    BY <2>1, RowIs
  <2> QED BY <2>1, <2>2
<1>4. row' \in {row, mem, mem'}
  BY DEF Collect
<1>5. fin'.n = n /\ fin'.at \in {"gate", "release", "reject"}
  <2> DEFINE says == Verdict(n)
  <2>1. \/ fin' = [fin EXCEPT !.at = "gate"]
        \/ fin' = [fin EXCEPT !.at = "release", !.head = Collected(n)]
        \/ fin' = Rejecting(says, TRUE)
        \/ fin' = Rejecting(says, HeldCommit(n) /\ rel[n].by = "run")
    BY DEF Collect, Rejecting
  <2>2. fin \in FinShape
    BY DEF IInv, TypeInv, FinOK, FinShape
  <2>3. CASE fin' = [fin EXCEPT !.at = "gate"]
    BY <2>2, <2>3 DEF FinShape
  <2>4. CASE fin' = [fin EXCEPT !.at = "release", !.head = Collected(n)]
    BY <2>2, <2>4 DEF FinShape
  <2>5. ASSUME NEW again, fin' = Rejecting(says, again)
        PROVE  fin'.n = n /\ fin'.at = "reject"
    <3> HIDE DEF says
    <3> QED BY <2>5, RejectingIs DEF IInv
  <2> HIDE DEF says, n
  <2> QED BY <2>1, <2>3, <2>4, <2>5
<1>6. fin'.at \in {"reject", "release", "merge"} => n \notin bare
  <2>1. Integrated(n) => fin' = [fin EXCEPT !.at = "gate"]
    BY DEF Collect
  <2>2. Integrated(n) => fin'.at = "gate"
    BY <2>1 DEF IInv, TypeInv, FinOK
  <2> QED BY <1>2, <2>2
<1>7. Calm
  <2>1. CASE Integrated(n)
    <3>1. UNCHANGED <<rel, unaddressed>>
      BY <2>1 DEF Collect
    <3> QED BY <1>2, <3>1, UntouchedIsCalm
  <2>2. CASE ~Integrated(n)
    <3>1. job[n] # "running"
      <4>1. n \notin bare
        BY <1>2, <2>2
      <4> QED BY <1>1, <1>2, <4>1 DEF IInv, Flight, FinishedIsStill, Ending
    <3>2. unaddressed' = unaddressed \ {n}
      BY <2>2 DEF Collect
    <3>3. rel' = rel \/ rel' = [rel EXCEPT ![n] = RunRelease(n, Verdict(n) # "boundary")]
      BY <2>2 DEF Collect
    <3>4. RunRelease(n, Verdict(n) # "boundary").by = "run"
      BY DEF RunRelease
    <3>5. rel \in [Numbers -> RelShape]
      BY DEF IInv, TypeInv, RelOK
    <3>6. \A k \in Numbers : \/ rel'[k] = rel[k]
                             \/ k = n /\ rel'[k].by = "run"
      <4> HIDE DEF n
      <4> QED BY <1>1, <3>3, <3>4, <3>5
    <3> QED BY <1>2, <3>1, <3>2, <3>6 DEF Calm
  <2> QED BY <2>1, <2>2
<1>8. RowsAreKnown
  BY <1>1, <1>3, <1>4 DEF RowsAreKnown
<1>9. \A u \in Ticks : u # t => mem'[u] = mem[u] /\ row'[u] \in {row[u], mem[u]}
  BY <1>3, <1>4
<1> QED BY <1>2, <1>5, <1>6, <1>7, <1>8, <1>9, FinishMoves

LEMMA FinAdvances ==
    ASSUME FinOK, NEW at, fin' = [fin EXCEPT !.at = at]
    PROVE  fin'.at = at /\ fin'.n = fin.n
BY DEF FinOK

LEMMA ReleaseWorkerKeeps == ASSUME IInv, ReleaseWorker PROVE World' /\ Flight'
<1>1. /\ UNCHANGED <<row, last, tries, rel, unaddressed, pc, mem, queue, live, settled, bare, disp>>
      /\ fin.at = "release"
      /\ \E quits \in Quits({fin.n}) : job' = TornDown({fin.n}, quits)
      /\ fin' = [fin EXCEPT !.at = "merge"]
  BY DEF ReleaseWorker, origin, window
<1>2. fin'.at = "merge" /\ fin'.n = fin.n
  BY <1>1, FinAdvances DEF IInv, TypeInv
<1>3. {fin.n} \subseteq 1 .. last
  BY <1>1, Shapes DEF IInv
<1>4. Calm
  BY <1>1, <1>3, TearDownIsCalm DEF IInv
<1>5. RowsAreKnown
  BY <1>1 DEF RowsAreKnown
<1>6. disp.at = "none" /\ fin.n \notin bare
  BY <1>1 DEF IInv, Flight, AloneAtEnds, BareIsNotJudged
<1> QED BY <1>1, <1>2, <1>4, <1>5, <1>6, FinishMoves

LEMMA MergeKeeps == ASSUME IInv, Merge PROVE World' /\ Flight'
<1>1. /\ UNCHANGED <<last, tries, rel, job, unaddressed, pc, mem, queue, live, settled, bare, disp>>
      /\ fin.at = "merge" /\ disp.at = "none" /\ row' = mem
      /\ fin' = [fin EXCEPT !.at = "gate"]
  BY DEF Merge, host, window, Between, NoDisp
<1>2. fin'.at = "gate" /\ fin'.n = fin.n
  BY <1>1, FinAdvances DEF IInv, TypeInv
<1>3. Calm
  BY <1>1, UntouchedIsCalm
<1>4. RowsAreKnown
  BY <1>1 DEF RowsAreKnown
<1> QED BY <1>1, <1>2, <1>3, <1>4, FinishMoves

LEMMA GatePassesKeeps == ASSUME IInv, GatePasses PROVE World' /\ Flight'
<1>1. /\ UNCHANGED <<row, last, tries, rel, job, unaddressed, pc, mem, queue, live, settled, bare, disp>>
      /\ fin.at = "gate" /\ disp.at = "none"
      /\ fin' = [fin EXCEPT !.at = "close"]
  BY DEF GatePasses, origin, host, window, Between, NoDisp
<1>2. fin'.at = "close" /\ fin'.n = fin.n
  BY <1>1, FinAdvances DEF IInv, TypeInv
<1>3. Calm
  BY <1>1, UntouchedIsCalm
<1>4. RowsAreKnown
  BY <1>1 DEF RowsAreKnown
<1> QED BY <1>1, <1>2, <1>3, <1>4, FinishMoves

LEMMA CloseKeeps == ASSUME IInv, Close PROVE World' /\ Flight'
<1> DEFINE t == tries[fin.n].tick
<1>1. /\ UNCHANGED <<last, tries, rel, unaddressed, pc, queue, live, settled, disp>>
      /\ mem' = [mem EXCEPT ![t].state = "closed"] /\ row' = mem'
      /\ \E quits \in Quits({fin.n}) : job' = TornDown({fin.n}, quits)
      /\ fin' = NoFin /\ bare' = bare \ {fin.n} /\ fin.at # "none" /\ disp.at = "none"
  BY DEF Close, Between, NoDisp
<1>2. /\ fin.n \in 1 .. last /\ t \in Ticks /\ mem \in Rows /\ settled \subseteq 1 .. last
      /\ \A k \in 1 .. last : tries[k].tick \in Ticks
  BY <1>1, Shapes DEF IInv
<1>3. mem'[t].state = "closed" /\ \A u \in Ticks \ {t} : mem'[u] = mem[u]
  <2>1. mem' = [mem EXCEPT ![t].state = "closed"] /\ mem \in Rows /\ t \in Ticks
    BY <1>1, <1>2
  <2> HIDE DEF t
  <2>2. /\ [mem EXCEPT ![t].state = "closed"][t].state = "closed"
        /\ \A u \in Ticks \ {t} : [mem EXCEPT ![t].state = "closed"][u] = mem[u]
    BY <2>1, RowIs
  <2> QED BY <2>1, <2>2
<1>4. Calm
  BY <1>1, <1>2, TearDownIsCalm DEF IInv
<1>5. RowsAreKnown
  BY <1>1, <1>2, <1>3 DEF RowsAreKnown
<1>6. \A n \in settled : n \in bare => n \in bare'
  BY <1>1 DEF IInv, Flight, OnePlace
<1>7. fin'.at = "none"
  BY <1>1 DEF NoFin
<1>8. \A u \in Ticks : u # t => mem'[u] = mem[u] /\ row'[u] \in {row[u], mem[u]}
  BY <1>1, <1>3
<1> QED BY <1>1, <1>4, <1>5, <1>6, <1>7, <1>8, FinishEnds

\* What holdOnly changes.
LEMMA HoldOnlyIs ==
    ASSUME NEW n, NEW rows, NEW known, NEW why, NEW held, NEW silent,
           HoldOnly(n, rows, known, why, held, silent)
    PROVE  /\ \/ rel' = rel
              \/ held /\ rel[n] = NoRel /\ rel' = [rel EXCEPT ![n] = RunRelease(n, TRUE)]
           /\ mem' = rows \/ mem' = [rows EXCEPT ![tries[n].tick].state = "rejected"]
           /\ \/ queue' = queue
              \/ (held \/ silent) /\ mem' = rows /\ queue' = queue \cup {tries[n].tick}
BY DEF HoldOnly

LEMMA RejectKeeps == ASSUME IInv, Reject PROVE World' /\ Flight'
<1> DEFINE n     == fin.n
           t     == tries[n].tick
           rows  == [mem EXCEPT ![t].state = "rejected"]
           known == IF fin.why = "boundary" THEN ruled ELSE Named(ruled, rows, {t}, {fin.why})
<1>1. /\ n \in 1 .. last /\ n \in Numbers /\ t \in Ticks /\ mem \in Rows /\ 1 .. last \subseteq Numbers
      /\ \A k \in 1 .. last : tries[k].tick \in Ticks
  BY Shapes DEF Reject, IInv
<1>2. /\ UNCHANGED <<last, tries, pc, live, settled, bare, disp, unaddressed>>
      /\ fin.at = "reject" /\ row' \in {row, rows}
      /\ \E quits \in Quits({n}) : job' = TornDown({n}, quits)
      /\ fin' = NoFin
  BY DEF Reject
<1>3. /\ rel' = rel \/ rel' = [rel EXCEPT ![n] = RunRelease(n, TRUE)]
      /\ mem' = rows \/ mem' = [rows EXCEPT ![t].state = "rejected"]
      /\ queue' = queue \/ queue' = queue \cup {t}
  <2>1. CASE mem' = rows /\ queue' = queue \cup {t} /\ UNCHANGED <<rel, parked, retried>>
    BY <2>1
  <2>2. CASE HoldOnly(n, rows, known, fin.why, fin.why # "boundary" /\ HeldCommit(n),
                      fin.why = "missing" /\ job[n] = "failed" /\ work[n] = {})
    <3> HIDE DEF rows, known
    <3> QED BY <2>2, HoldOnlyIs
  <2> QED BY <2>1, <2>2 DEF Reject
<1>4. /\ rows \in Rows /\ rows[t].state = "rejected"
      /\ \A u \in Ticks \ {t} : rows[u] = mem[u]
  <2>1. mem \in Rows /\ t \in Ticks /\ TypeInv
    BY <1>1 DEF IInv
  <2> HIDE DEF t
  <2>2. rows \in Rows
    BY <2>1, RejectedRows
  <2>3. rows[t].state = "rejected" /\ \A u \in Ticks \ {t} : rows[u] = mem[u]
    BY <2>1, RowIs
  <2> QED BY <2>2, <2>3
<1>5. mem'[t].state = "rejected" /\ \A u \in Ticks \ {t} : mem'[u] = mem[u]
  <2>1. /\ [rows EXCEPT ![t].state = "rejected"][t].state = "rejected"
        /\ \A u \in Ticks \ {t} : [rows EXCEPT ![t].state = "rejected"][u] = rows[u]
    BY <1>1, <1>4, RowIs
  <2> HIDE DEF rows
  <2> QED BY <1>3, <1>4, <2>1
<1>6. \A k \in Numbers : job'[k] = "running" => job[k] = "running" /\ k # n
  <2>1. HostOK /\ TriesOK /\ {n} \in SUBSET (1 .. last)
    BY <1>1 DEF IInv, TypeInv
  <2> QED BY <1>2, <2>1, TearsDown
<1>7. Calm
  <2>1. RunRelease(n, TRUE).by = "run" /\ rel \in [Numbers -> RelShape]
    BY DEF RunRelease, IInv, TypeInv, RelOK
  <2>2. \A k \in Numbers : \/ rel'[k] = rel[k]
                           \/ k = n /\ rel'[k].by = "run"
    <3> HIDE DEF n
    <3> QED BY <1>1, <1>3, <2>1
  <2> QED BY <1>2, <1>6, <2>2 DEF Calm
<1>8. ASSUME NEW m \in 1 .. last, tries[m].tick = t, job'[m] = "running" PROVE m \in unaddressed'
  <2>1. AtHand(n) /\ job'[n] # "running"
    BY <1>1, <1>2, <1>6 DEF AtHand, Ending
  <2> HIDE DEF n
  <2> QED BY <1>1, <1>7, <1>8, <2>1, TickIsMarked
<1>9. RowsAreKnown
  <2>1. ASSUME NEW m \in 1 .. last, tries[m].tick # t
        PROVE  mem'[tries[m].tick] = mem[tries[m].tick]
               /\ row'[tries[m].tick] \in {row[tries[m].tick], mem[tries[m].tick]}
    <3> HIDE DEF rows
    <3> QED BY <1>1, <1>2, <1>4, <1>5, <2>1
  <2> QED BY <1>8, <2>1 DEF RowsAreKnown
<1>10. \A u \in Ticks : u # t => mem'[u] = mem[u] /\ row'[u] \in {row[u], mem[u]}
  <2> HIDE DEF rows
  <2> QED BY <1>2, <1>4, <1>5
<1>11. disp.at = "none" /\ fin'.at = "none"
  BY <1>2 DEF IInv, Flight, AloneAtEnds, NoFin
<1> QED BY <1>2, <1>3, <1>5, <1>7, <1>9, <1>10, <1>11, FinishEnds

LEMMA ConflictKeeps == ASSUME IInv, Conflict PROVE World' /\ Flight'
<1> DEFINE n == fin.n
           t == tries[n].tick
           rejected == [mem EXCEPT ![t].state = "rejected"]
<1>1. /\ n \in 1 .. last /\ n \in Numbers /\ t \in Ticks /\ mem \in Rows /\ 1 .. last \subseteq Numbers
      /\ \A k \in 1 .. last : tries[k].tick \in Ticks
  BY Shapes DEF Conflict, IInv
<1>2. /\ UNCHANGED <<last, tries, job, pc, live, settled, bare, disp, unaddressed>>
      /\ row' = mem /\ fin' = NoFin /\ fin.at = "merge" /\ disp.at = "none"
  BY DEF Conflict, host, Between, NoDisp
<1>3. /\ rel' = rel \/ rel' = [rel EXCEPT ![n] = RunRelease(n, TRUE)]
      /\ mem' = mem \/ mem' = rejected
      /\ queue' = queue \/ (queue' = queue \cup {t} /\ mem' = rejected)
  <2>1. CASE HoldOnly(n, mem, ruled, "other", FALSE, FALSE)
    BY <2>1, HoldOnlyIs
  <2>2. CASE ~ HoldOnly(n, mem, ruled, "other", FALSE, FALSE)
    BY <2>2 DEF Conflict
  <2> QED BY <2>1, <2>2
<1>4. rejected[t].state = "rejected" /\ \A u \in Ticks \ {t} : rejected[u] = mem[u]
  BY <1>1, RowIs
<1> HIDE DEF rejected
<1>5. job[n] # "running"
  <2>1. n \notin bare /\ Ending(n)
    BY <1>2 DEF IInv, Flight, BareIsNotJudged, Ending
  <2> QED BY <1>1, <2>1 DEF IInv, Flight, FinishedIsStill
<1>6. Calm
  <2>1. RunRelease(n, TRUE).by = "run" /\ rel \in [Numbers -> RelShape]
    BY DEF RunRelease, IInv, TypeInv, RelOK
  <2>2. \A k \in Numbers : \/ rel'[k] = rel[k]
                           \/ k = n /\ rel'[k].by = "run"
    <3> HIDE DEF n
    <3> QED BY <1>1, <1>3, <2>1
  <2> QED BY <1>2, <1>5, <2>2 DEF Calm
<1>7. ASSUME NEW m \in 1 .. last, tries[m].tick = t, job'[m] = "running" PROVE m \in unaddressed'
  <2>1. AtHand(n) /\ job'[n] # "running"
    BY <1>1, <1>2, <1>5 DEF AtHand, Ending
  <2> HIDE DEF n
  <2> QED BY <1>1, <1>6, <1>7, <2>1, TickIsMarked
<1>8. \A u \in Ticks : u # t => mem'[u] = mem[u] /\ row'[u] \in {row[u], mem[u]}
  BY <1>2, <1>3, <1>4
<1>9. RowsAreKnown
  <2>1. ASSUME NEW m \in 1 .. last, tries[m].tick # t
        PROVE  mem'[tries[m].tick] = mem[tries[m].tick]
               /\ row'[tries[m].tick] \in {row[tries[m].tick], mem[tries[m].tick]}
    BY <1>1, <1>8, <2>1
  <2> QED BY <1>7, <2>1 DEF RowsAreKnown
<1>10. fin'.at = "none"
  BY <1>2 DEF NoFin
<1> QED BY <1>2, <1>3, <1>4, <1>6, <1>8, <1>9, <1>10, FinishEnds

-----------------------------------------------------------------------------
(* The steps of the window. *)

LEMMA StartKeeps == ASSUME IInv, Start PROVE World' /\ Flight'
<1>1. /\ UNCHANGED <<row, last, tries, rel, job, unaddressed, live, settled, bare, disp, fin>>
      /\ pc = "down" /\ pc' = "up" /\ mem' = row
  BY DEF Start, origin, host
<1>2. live = {} /\ settled = {} /\ disp.at = "none" /\ fin.at = "none"
  BY <1>1 DEF IInv, Flight, DownIsEmpty
<1>3. World'
  <2>1. Calm
    BY <1>1, UntouchedIsCalm
  <2>2. RowsAreKnown
    BY <1>1 DEF RowsAreKnown
  <2> QED BY <2>1, <2>2, CalmKeeps DEF IInv
<1>4. OnePlace' /\ DownIsEmpty' /\ NewIsLast' /\ Unstarted' /\ LaterReleased' /\ NothingLeft'
  BY <1>1, <1>2 DEF OnePlace, DownIsEmpty, NewIsLast, Unstarted, LaterReleased, NothingLeft
<1>5. OthersMarked' /\ FinishedIsStill'
  BY <1>1, <1>2 DEF OthersMarked, FinishedIsStill, AtHand, Ending, Held
<1>6. QueueRows' /\ DispRow' /\ AloneAtEnds' /\ BareIsNotJudged'
  BY <1>1, <1>2 DEF QueueRows, DispRow, AloneAtEnds, BareIsNotJudged
<1> QED BY <1>3, <1>4, <1>5, <1>6 DEF Flight

LEMMA PollKeeps == ASSUME IInv, NEW n \in live, Poll(n) PROVE World' /\ Flight'
<1>1. /\ UNCHANGED <<row, last, tries, rel, job, unaddressed, pc, mem, queue, bare, disp, fin>>
      /\ live' = live \ {n} /\ settled' = settled \cup {n}
      /\ disp.at = "none" /\ job[n] # "running"
  BY DEF Poll, origin, host, Between, NoDisp, Terminal
<1>2. World'
  <2>1. Calm
    BY <1>1, UntouchedIsCalm
  <2>2. RowsAreKnown
    BY <1>1 DEF RowsAreKnown
  <2> QED BY <2>1, <2>2, CalmKeeps DEF IInv
<1>3. OnePlace'
  BY <1>1 DEF IInv, Flight, OnePlace
<1>4. /\ DownIsEmpty' /\ NewIsLast' /\ Unstarted' /\ LaterReleased' /\ NothingLeft'
      /\ QueueRows' /\ DispRow' /\ AloneAtEnds' /\ BareIsNotJudged'
  BY <1>1 DEF IInv, Flight, DownIsEmpty, NewIsLast, Unstarted, LaterReleased, NothingLeft, QueueRows,
              DispRow, AloneAtEnds, BareIsNotJudged
<1>5. OthersMarked'
  <2>1. \A k : AtHand(k)' => AtHand(k)
    BY <1>1 DEF AtHand, Ending, Held
  <2> QED BY <1>1, <2>1 DEF IInv, Flight, OthersMarked
<1>6. FinishedIsStill'
  BY <1>1 DEF IInv, Flight, FinishedIsStill, Ending
<1> QED BY <1>2, <1>3, <1>4, <1>5, <1>6 DEF Flight

LEMMA BeginFinishKeeps == ASSUME IInv, NEW n \in settled, BeginFinish(n) PROVE World' /\ Flight'
<1>1. /\ UNCHANGED <<row, last, tries, rel, job, unaddressed, pc, mem, queue, live, bare, disp>>
      /\ settled' = settled \ {n} /\ fin.at = "none" /\ disp.at = "none"
      /\ fin'.at = "collect" /\ fin'.n = n /\ pc = "up"
  BY DEF BeginFinish, origin, host, Between, NoDisp, NoFin
<1>2. World'
  <2>1. Calm
    BY <1>1, UntouchedIsCalm
  <2>2. RowsAreKnown
    BY <1>1 DEF RowsAreKnown
  <2> QED BY <2>1, <2>2, CalmKeeps DEF IInv
<1>3. OnePlace'
  BY <1>1 DEF IInv, Flight, OnePlace
<1>4. /\ DownIsEmpty' /\ NewIsLast' /\ Unstarted' /\ LaterReleased' /\ NothingLeft'
      /\ QueueRows' /\ DispRow' /\ AloneAtEnds' /\ BareIsNotJudged'
  BY <1>1 DEF IInv, Flight, DownIsEmpty, NewIsLast, Unstarted, LaterReleased, NothingLeft, QueueRows,
              DispRow, AloneAtEnds, BareIsNotJudged
<1>5. OthersMarked'
  <2>1. \A k : AtHand(k)' => AtHand(k)
    BY <1>1 DEF AtHand, Ending, Held
  <2> QED BY <1>1, <2>1 DEF IInv, Flight, OthersMarked
<1>6. FinishedIsStill'
  BY <1>1 DEF IInv, Flight, FinishedIsStill, Ending
<1> QED BY <1>2, <1>3, <1>4, <1>5, <1>6 DEF Flight

LEMMA RefuseKeeps == ASSUME IInv, NEW n \in live, Refuse(n) PROVE World' /\ Flight'
<1> DEFINE t == tries[n].tick
<1>1. /\ UNCHANGED <<row, last, tries, job, pc, settled, bare, disp, fin>>
      /\ live' = live \ {n} /\ unaddressed' = unaddressed \cup {n} /\ disp.at = "none"
      /\ HoldOnly(n, mem, ruled, "other", FALSE, FALSE)
  BY DEF Refuse, host, Between, NoDisp
<1>2. /\ n \in 1 .. last /\ t \in Ticks /\ mem \in Rows /\ queue \subseteq Ticks
      /\ \A k \in 1 .. last : tries[k].tick \in Ticks
  BY Shapes DEF IInv, TypeInv, WindowOK
<1>3. /\ rel' = rel /\ queue' = queue
      /\ mem' = mem \/ mem' = [mem EXCEPT ![t].state = "rejected"]
  BY <1>1, HoldOnlyIs
<1>4. \A u \in Ticks \ {t} : mem'[u] = mem[u]
  BY <1>2, <1>3, RowIs
<1>5. Calm
  BY <1>1, <1>3, UntouchedIsCalm
<1>6. RowsAreKnown
  <2>1. AtHand(n) /\ n \in unaddressed'
    BY <1>1 DEF AtHand
  <2>2. ASSUME NEW m \in 1 .. last, tries[m].tick = t, job'[m] = "running" PROVE m \in unaddressed'
    BY <1>2, <1>5, <2>1, <2>2, TickIsMarked
  <2>3. \A m \in 1 .. last : tries[m].tick # t => mem'[tries[m].tick] = mem[tries[m].tick]
    BY <1>2, <1>4
  <2> QED BY <1>1, <2>2, <2>3 DEF RowsAreKnown
<1>7. World'
  BY <1>5, <1>6, CalmKeeps DEF IInv
<1>8. t \notin queue
  BY DEF IInv, Flight, OnePlace
<1>9. OnePlace'
  BY <1>1, <1>3 DEF IInv, Flight, OnePlace
<1>10. DownIsEmpty' /\ AloneAtEnds' /\ BareIsNotJudged'
  BY <1>1, <1>3 DEF IInv, Flight, DownIsEmpty, AloneAtEnds, BareIsNotJudged
<1>11. NewIsLast' /\ Unstarted' /\ LaterReleased' /\ NothingLeft' /\ DispRow'
  BY <1>1 DEF NewIsLast, Unstarted, LaterReleased, NothingLeft, DispRow
<1>12. QueueRows'
  <2>1. ASSUME NEW u \in queue PROVE mem'[u] = mem[u]
    BY <1>2, <1>4, <1>8
  <2> QED BY <1>1, <1>3, <2>1 DEF IInv, Flight, QueueRows
<1>13. OthersMarked'
  <2>1. \A k : AtHand(k)' => AtHand(k)
    BY <1>1 DEF AtHand, Ending, Held
  <2> QED BY <1>1, <2>1 DEF IInv, Flight, OthersMarked
<1>14. FinishedIsStill'
  BY <1>1 DEF IInv, Flight, FinishedIsStill, Ending
<1> QED BY <1>7, <1>9, <1>10, <1>11, <1>12, <1>13, <1>14 DEF Flight

\* An attempt goes from its dispatch into the window.
LEMMA EntersWindow ==
    ASSUME IInv, disp.at \notin {"none", "place"}, disp'.at = "none", live' = live \cup {disp.n},
           UNCHANGED <<last, tries, rel, job, unaddressed, pc, mem, queue, settled, bare, fin>>,
           row' \in {row, mem}
    PROVE  World' /\ Flight'
<1>1. disp.n \in 1 .. last /\ tries[disp.n].tick = disp.tick
  BY Shapes DEF IInv
<1>2. World'
  <2>1. Calm
    BY UntouchedIsCalm
  <2>2. RowsAreKnown
    BY DEF RowsAreKnown
  <2> QED BY <2>1, <2>2, CalmKeeps DEF IInv
<1>3. OnePlace'
  BY <1>1 DEF IInv, Flight, OnePlace
<1>4. DownIsEmpty' /\ AloneAtEnds' /\ BareIsNotJudged'
  BY DEF IInv, Flight, DownIsEmpty, AloneAtEnds, BareIsNotJudged
<1>5. NewIsLast' /\ Unstarted' /\ LaterReleased' /\ NothingLeft' /\ DispRow'
  BY DEF NewIsLast, Unstarted, LaterReleased, NothingLeft, DispRow
<1>6. QueueRows'
  BY DEF IInv, Flight, QueueRows
<1>7. OthersMarked'
  <2>1. \A k : AtHand(k)' => AtHand(k)
    BY DEF AtHand, Ending, Held
  <2> QED BY <2>1 DEF IInv, Flight, OthersMarked
<1>8. FinishedIsStill'
  BY DEF IInv, Flight, FinishedIsStill, Ending
<1> QED BY <1>2, <1>3, <1>4, <1>5, <1>6, <1>7, <1>8 DEF Flight

LEMMA NoteKeeps == ASSUME IInv, Note PROVE World' /\ Flight'
<1>1. /\ UNCHANGED <<last, tries, rel, job, unaddressed, pc, mem, queue, settled, bare, fin>>
      /\ row' = mem /\ live' = live \cup {disp.n} /\ disp'.at = "none" /\ disp.at = "note"
  BY DEF Note, host, NoDisp
<1> QED BY <1>1, EntersWindow

LEMMA AdoptKeeps == ASSUME IInv, Adopt PROVE World' /\ Flight'
<1>1. /\ disp.n \in 1 .. last /\ disp.tick \in Ticks /\ disp.at = "adopt"
      /\ tries[disp.n].tick = disp.tick
  BY Shapes DEF Adopt, IInv
<1>2. UNCHANGED <<job, work, stray>>
  BY DEF Adopt, host
<1>3. CASE /\ job[disp.n] = "none"
           /\ disp' = [disp EXCEPT !.at = "restart"]
           /\ UNCHANGED <<origin, pc, mem, window, fin, parked, retried, unaddressed>>
  <2>1. UNCHANGED <<row, last, tries, rel, job, unaddressed, pc, mem, queue, live, settled, bare, fin>>
    BY <1>2, <1>3 DEF origin, window
  <2>2. disp'.at = "restart" /\ disp'.n = disp.n /\ disp'.tick = disp.tick
    BY <1>3 DEF IInv, TypeInv, DispOK
  <2>3. World'
    <3>1. Calm
      BY <2>1, UntouchedIsCalm
    <3>2. RowsAreKnown
      BY <2>1 DEF RowsAreKnown
    <3> QED BY <3>1, <3>2, CalmKeeps DEF IInv
  <2>4. OnePlace' /\ AloneAtEnds'
    BY <1>1, <2>1, <2>2 DEF IInv, Flight, OnePlace, AloneAtEnds
  <2>5. DownIsEmpty'
    BY <1>1, <2>1 DEF IInv, Flight, DownIsEmpty
  <2>6. NewIsLast' /\ NothingLeft' /\ BareIsNotJudged' /\ QueueRows'
    BY <2>1, <2>2 DEF IInv, Flight, NewIsLast, NothingLeft, BareIsNotJudged, QueueRows
  <2>7. Unstarted' /\ LaterReleased' /\ DispRow'
    BY <1>1, <1>3, <2>1, <2>2 DEF IInv, Flight, Unstarted, LaterReleased, DispRow
  <2>8. OthersMarked'
    <3>1. \A k : AtHand(k)' => AtHand(k)
      BY <1>1, <2>1, <2>2 DEF AtHand, Ending, Held
    <3> QED BY <2>1, <3>1 DEF IInv, Flight, OthersMarked
  <2>9. FinishedIsStill'
    BY <2>1 DEF IInv, Flight, FinishedIsStill, Ending
  <2> QED BY <2>3, <2>4, <2>5, <2>6, <2>7, <2>8, <2>9 DEF Flight
<1>4. CASE /\ live' = live \cup {disp.n} /\ disp' = NoDisp
           /\ UNCHANGED <<origin, pc, mem, queue, settled, bare, fin, parked, retried, unaddressed>>
  <2>1. UNCHANGED <<row, last, tries, rel, job, unaddressed, pc, mem, queue, settled, bare, fin>>
    BY <1>2, <1>4 DEF origin
  <2>2. disp'.at = "none"
    BY <1>4 DEF NoDisp
  <2> QED BY <1>1, <1>4, <2>1, <2>2, EntersWindow
<1>5. CASE pc' = "down"
  BY <1>5, AdoptStops
<1> QED BY <1>3, <1>4, <1>5 DEF Adopt, Stop, Down

\* What the walk finds of an attempt nobody released.
LEMMA DispositionIs ==
    ASSUME NEW n
    PROVE  /\ Disposition(n) \in {"adopt", "hold", "finish", "failed"}
           /\ Disposition(n) = "adopt" <=> mem[tries[n].tick].state # "rejected"
           /\ Disposition(n) = "failed" => work[n] = {}
BY DEF Disposition

\* The walk over the attempts of a tick, whatever it then does with the latest.
LEMMA AdmitIs ==
    ASSUME IInv, NEW t \in Ticks, Admit(t)
    PROVE  /\ Calm
           /\ UNCHANGED <<row, last, tries, work, pc, live, fin, unaddressed>>
           /\ disp.at = "none" /\ pc = "up" /\ t \in queue /\ queue' = queue \ {t}
           /\ fin.at \notin {"reject", "release"}
           /\ \A u \in Ticks : mem'[u].state = mem[u].state
           /\ \A n \in 1 .. last : rel[n].by = "none" /\ rel'[n].by # "none" => Fate(n) = "hold"
           /\ \A n \in 1 .. last : tries[n].tick = t /\ Fate(n) = "hold" => rel'[n].by = "run"
<1> DEFINE held == Fated(t, {"hold"})
           torn == held \cup {n \in Of(t) : rel[n].by = "run"}
           able == Fated(t, {"adopt", "finish"})
<1>1. /\ UNCHANGED <<row, last, tries, work, pc, live, fin, unaddressed>>
      /\ disp.at = "none" /\ pc = "up" /\ t \in queue /\ queue' = queue \ {t}
      /\ fin.at \notin {"reject", "release"}
      /\ Release(held) /\ \E quits \in Quits(torn) : job' = TornDown(torn, quits)
  BY DEF Admit, Between, NoDisp
<1>2. torn \subseteq 1 .. last /\ 1 .. last \subseteq Numbers /\ mem \in Rows
  BY FatedAre, Shapes DEF IInv, Of
<1>3. Calm
  <2>1. held \subseteq torn
    OBVIOUS
  <2> HIDE DEF held, torn
  <2> QED BY <1>1, <1>2, <2>1, WalkIsCalm DEF IInv
<1>4. \A u \in Ticks : mem'[u].state = mem[u].state
  <2>1. mem' = mem \/ \E k : mem' = [mem EXCEPT ![t].attempt = k]
    BY DEF Admit
  <2>2. ASSUME NEW k, mem' = [mem EXCEPT ![t].attempt = k], NEW u \in Ticks
        PROVE  mem'[u].state = mem[u].state
    <3>1. /\ [mem EXCEPT ![t].attempt = k][t].state = mem[t].state
          /\ \A v \in Ticks \ {t} : [mem EXCEPT ![t].attempt = k][v] = mem[v]
      BY <1>2, RowIs
    <3> QED BY <2>2, <3>1
  <2> QED BY <2>1, <2>2
<1>5. \A n \in 1 .. last : rel'[n] = IF n \in held THEN RunRelease(n, ruled[n] = "carry") ELSE rel[n]
  BY <1>1, <1>2 DEF Release
<1>6. \A n \in 1 .. last : RunRelease(n, ruled[n] = "carry").by = "run"
  BY DEF RunRelease
<1>7. /\ \A n \in held : Fate(n) = "hold"
      /\ \A n \in 1 .. last : tries[n].tick = t /\ Fate(n) = "hold" => n \in held
  BY DEF Fated, Of
<1> HIDE DEF held
<1> QED BY <1>1, <1>3, <1>4, <1>5, <1>6, <1>7

\* Of the tick it walks, an attempt later than the one it takes up was released,
\* or its row is rejected; an earlier one that runs is marked.
LEMMA TakenUp ==
    ASSUME IInv, NEW t \in Ticks, NEW n, n = Max(Fated(t, {"adopt", "finish"})),
           Fated(t, {"adopt", "finish"}) # {}
    PROVE  /\ n \in 1 .. last /\ tries[n].tick = t /\ rel[n].by = "none"
           /\ Fate(n) = Disposition(n) /\ Fate(n) \in {"adopt", "finish"}
           /\ \A k \in 1 .. last : tries[k].tick = t /\ k > n =>
                  rel[k].by # "none" \/ mem[t].state = "rejected"
           /\ \A m \in 1 .. last : m # n /\ tries[m].tick = t /\ job[m] = "running" => m \in unaddressed
<1> DEFINE able == Fated(t, {"adopt", "finish"})
<1>1. last \in Nat /\ able \in SUBSET (0 .. last) /\ able \subseteq 1 .. last
  BY FatedAre, Shapes DEF IInv
<1>2. n \in able /\ \A k \in able : k <= n
  <2> HIDE DEF able
  <2>1. n = Max(able) /\ able # {}
    BY DEF able
  <2> QED BY <1>1, <2>1, Latest
<1>3. n \in 1 .. last /\ tries[n].tick = t /\ Fate(n) \in {"adopt", "finish"}
  BY <1>1, <1>2 DEF Fated, Of
<1>4. rel[n].by = "none" /\ Fate(n) = Disposition(n)
  BY <1>3, FateIs DEF IInv
<1>5. ASSUME NEW k \in 1 .. last, tries[k].tick = t, k > n, rel[k].by = "none"
      PROVE  mem[t].state = "rejected"
  <2>1. k \notin able
    BY <1>2, <1>3, <1>5, <1>1
  <2>2. Fate(k) # "adopt" /\ Fate(k) = Disposition(k)
    BY <1>5, <2>1, FateIs DEF Fated, Of, IInv
  <2> QED BY <1>5, <2>2, DispositionIs
<1>6. ASSUME NEW m \in 1 .. last, m # n, tries[m].tick = t, job[m] = "running"
      PROVE  m \in unaddressed
  <2>1. CASE m < n
    BY <1>3, <1>4, <1>6, <2>1 DEF IInv, World, OlderReleased
  <2>2. CASE m > n
    <3>1. rel[m].by = "none"
      BY <1>6, Shapes DEF IInv, World, ReleasedIsStill
    <3>2. mem[t].state = "rejected"
      BY <1>5, <1>6, <2>2, <3>1
    <3> QED BY <1>6, <3>2 DEF IInv, World, MemMarks
  <2> QED BY <1>1, <1>3, <1>6, <2>1, <2>2
<1> QED BY <1>3, <1>4, <1>5, <1>6

LEMMA AdmitKeeps == ASSUME IInv, NEW t \in Ticks, Admit(t) PROVE World' /\ Flight'
<1> DEFINE able == Fated(t, {"adopt", "finish"})
           n    == Max(able)
<1>1. /\ Calm
      /\ UNCHANGED <<row, last, tries, work, pc, live, fin, unaddressed>>
      /\ disp.at = "none" /\ pc = "up" /\ t \in queue /\ queue' = queue \ {t}
      /\ fin.at \notin {"reject", "release"}
      /\ \A u \in Ticks : mem'[u].state = mem[u].state
      /\ \A k \in 1 .. last : rel[k].by = "none" /\ rel'[k].by # "none" => Fate(k) = "hold"
      /\ \A k \in 1 .. last : tries[k].tick = t /\ Fate(k) = "hold" => rel'[k].by = "run"
  BY AdmitIs
<1>2. /\ 1 .. last \subseteq Numbers /\ queue \subseteq Ticks
      /\ \A k \in 1 .. last : tries[k].tick \in Ticks
  BY Shapes DEF IInv, TypeInv, WindowOK
<1>3. World'
  <2>1. RowsAreKnown
    BY <1>1, <1>2 DEF RowsAreKnown
  <2> QED BY <1>1, <2>1, CalmKeeps DEF IInv
<1>4. \A k \in Numbers : /\ job'[k] = "running" => job[k] = "running"
                         /\ rel[k].by # "none" => rel'[k].by # "none"
  BY <1>1 DEF Calm
<1>5. QueueRows' /\ DownIsEmpty' /\ BareIsNotJudged'
  <2>1. QueueRows'
    BY <1>1, <1>2 DEF IInv, Flight, QueueRows
  <2>2. DownIsEmpty'
    BY <1>1 DEF DownIsEmpty
  <2>3. BareIsNotJudged'
    <3>1. fin.at # "none" => tries[fin.n].tick # t
      BY <1>1 DEF IInv, Flight, OnePlace
    <3>2. bare' = bare \/ (able # {} /\ bare' = bare \cup {n})
      BY DEF Admit
    <3>3. able # {} => tries[n].tick = t
      BY TakenUp
    <3> HIDE DEF n
    <3> QED BY <1>1, <3>1, <3>2, <3>3 DEF IInv, Flight, BareIsNotJudged
  <2> QED BY <2>1, <2>2, <2>3
<1>6. CASE able # {} /\ Fate(n) = "finish"
  <2>1. UNCHANGED disp /\ settled' = settled \cup {n} /\ bare' = bare \cup {n}
    BY <1>6 DEF Admit
  <2>2. /\ n \in 1 .. last /\ tries[n].tick = t /\ Fate(n) = Disposition(n)
        /\ \A m \in 1 .. last : m # n /\ tries[m].tick = t /\ job[m] = "running" => m \in unaddressed
    BY <1>6, TakenUp
  <2> HIDE DEF n
  <2>3. OnePlace' /\ AloneAtEnds'
    BY <1>1, <2>1, <2>2 DEF IInv, Flight, OnePlace, AloneAtEnds
  <2>4. NewIsLast' /\ Unstarted' /\ LaterReleased' /\ NothingLeft' /\ DispRow'
    BY <1>1, <2>1 DEF NewIsLast, Unstarted, LaterReleased, NothingLeft, DispRow
  <2>5. OthersMarked'
    <3>1. \A k : AtHand(k)' => AtHand(k) \/ k = n
      BY <1>1, <2>1 DEF AtHand, Ending, Held
    <3> QED BY <1>1, <1>2, <1>4, <2>2, <3>1 DEF IInv, Flight, OthersMarked
  <2>6. job'[n] = "running" => n \in unaddressed
    <3>1. mem[t].state = "rejected"
      BY <1>6, <2>2, DispositionIs
    <3> QED BY <1>2, <1>4, <2>2, <3>1 DEF IInv, World, MemMarks
  <2>7. FinishedIsStill'
    BY <1>1, <1>2, <1>4, <2>1, <2>6 DEF IInv, Flight, FinishedIsStill, Ending
  <2> QED BY <1>3, <1>5, <2>3, <2>4, <2>5, <2>7 DEF Flight
<1>7. CASE able # {} /\ Fate(n) # "finish"
  <2>1. /\ UNCHANGED <<settled, bare>>
        /\ disp' = [NoDisp EXCEPT !.at = "adopt", !.tick = t, !.n = n]
    BY <1>7 DEF Admit
  <2>2. disp'.at = "adopt" /\ disp'.tick = t /\ disp'.n = n
    BY <2>1 DEF NoDisp
  <2>3. /\ n \in 1 .. last /\ tries[n].tick = t /\ rel[n].by = "none"
        /\ Fate(n) = Disposition(n) /\ Fate(n) = "adopt"
        /\ \A k \in 1 .. last : tries[k].tick = t /\ k > n =>
               rel[k].by # "none" \/ mem[t].state = "rejected"
        /\ \A m \in 1 .. last : m # n /\ tries[m].tick = t /\ job[m] = "running" => m \in unaddressed
    BY <1>7, TakenUp
  <2>4. mem[t].state # "rejected"
    BY <2>3, DispositionIs
  <2> HIDE DEF n
  <2>5. OnePlace' /\ AloneAtEnds'
    BY <1>1, <2>1, <2>2 DEF IInv, Flight, OnePlace, AloneAtEnds
  <2>6. NewIsLast' /\ NothingLeft'
    BY <2>2 DEF NewIsLast, NothingLeft
  <2>7. Unstarted'
    BY <1>1, <2>2, <2>3 DEF Unstarted
  <2>8. LaterReleased'
    BY <1>1, <1>2, <1>4, <2>2, <2>3, <2>4 DEF LaterReleased
  <2>9. DispRow'
    BY <1>1, <2>2, <2>4 DEF IInv, Flight, QueueRows, DispRow
  <2>10. OthersMarked'
    <3>1. \A k : AtHand(k)' => AtHand(k) \/ k = n
      BY <1>1, <2>1, <2>2 DEF AtHand, Ending, Held
    <3> QED BY <1>1, <1>2, <1>4, <2>3, <3>1 DEF IInv, Flight, OthersMarked
  <2>11. FinishedIsStill'
    BY <1>1, <1>2, <1>4, <2>1 DEF IInv, Flight, FinishedIsStill, Ending
  <2> QED BY <1>3, <1>5, <2>5, <2>6, <2>7, <2>8, <2>9, <2>10, <2>11 DEF Flight
<1>8. CASE able = {}
  <2>1. UNCHANGED <<settled, bare>> /\ disp'.at = "place" /\ disp'.tick = t
    BY <1>8 DEF Admit, NoDisp
  <2>2. OnePlace' /\ AloneAtEnds'
    BY <1>1, <2>1 DEF IInv, Flight, OnePlace, AloneAtEnds
  <2>3. NewIsLast' /\ Unstarted' /\ LaterReleased' /\ DispRow'
    BY <2>1 DEF NewIsLast, Unstarted, LaterReleased, DispRow
  <2>4. NothingLeft'
    <3>1. ASSUME NEW m \in 1 .. last, tries[m].tick = t, rel'[m].by = "none"
          PROVE  m \in unaddressed \/ (work[m] = {} /\ job'[m] # "running")
      <4>1. rel[m].by = "none"
        BY <1>2, <1>4, <3>1
      <4>2. Fate(m) = Disposition(m) /\ Fate(m) # "hold"
        BY <1>1, <3>1, <4>1, FateIs DEF IInv
      <4>3. Fate(m) \notin {"adopt", "finish"}
        BY <1>8, <3>1 DEF Fated, Of
      <4>4. work[m] = {} /\ mem[t].state = "rejected"
        BY <3>1, <4>2, <4>3, DispositionIs
      <4>5. job[m] = "running" => m \in unaddressed
        BY <3>1, <4>4 DEF IInv, World, MemMarks
      <4> QED BY <1>2, <1>4, <4>4, <4>5
    <3> QED BY <1>1, <2>1, <3>1 DEF NothingLeft
  <2>5. OthersMarked'
    <3>1. \A k : AtHand(k)' => AtHand(k)
      BY <1>1, <2>1 DEF AtHand, Ending, Held
    <3> QED BY <1>1, <1>2, <1>4, <3>1 DEF IInv, Flight, OthersMarked
  <2>6. FinishedIsStill'
    BY <1>1, <1>2, <1>4, <2>1 DEF IInv, Flight, FinishedIsStill, Ending
  <2> QED BY <1>3, <1>5, <2>2, <2>3, <2>4, <2>5, <2>6 DEF Flight
<1> QED BY <1>6, <1>7, <1>8

-----------------------------------------------------------------------------
(* The steps that place an attempt and start it. *)

\* A new attempt of the tick: what is old of its tick is released, is marked, or
\* left nothing and ended.
LEMMA PlaceIs ==
    ASSUME IInv, Place, ~ (UNCHANGED origin /\ Down)
    PROVE  LET t == disp.tick
               n == last + 1
           IN  /\ t \in Ticks /\ disp.at = "place" /\ n \in Numbers /\ last' = n /\ n \notin 1 .. last
               /\ 1 .. last' = (1 .. last) \cup {n}
               /\ mem' = Ready(t) /\ row' = Ready(t)
               /\ tries'[n].tick = t /\ \A k \in 1 .. last : tries'[k] = tries[k]
               /\ disp'.at = "claim" /\ disp'.tick = t /\ disp'.n = n
               /\ job[n] = "none" /\ rel[n] = NoRel
               /\ UNCHANGED <<rel, job, work, merged, unaddressed, pc, queue, live, settled, bare, fin>>
<1> DEFINE t == disp.tick
           n == last + 1
           from == disp.carry
           base == IF from = 0 THEN 0 ELSE CarryHead(from)
           new == [tick |-> t, tier |-> Tier(disp.failed),
                   under |-> IF base = 0 THEN {} ELSE {base} \cup tries[base].under]
<1>1. /\ disp.at = "place" /\ last < MaxAttempt
      /\ mem' = Ready(t) /\ row' = Ready(t) /\ last' = n
      /\ tries' = [tries EXCEPT ![n] = new]
      /\ disp' = [NoDisp EXCEPT !.at = "claim", !.tick = t, !.n = n]
      /\ UNCHANGED <<rel, job, work, merged, unaddressed, pc, queue, live, settled, bare, fin>>
  BY DEF Place, host, window
<1>2. t \in Ticks /\ last \in Nat /\ MaxAttempt \in Nat /\ tries \in [Numbers -> TryShape]
  BY <1>1, Shapes, ConstantsAssumption DEF IInv, TypeInv, DispOK, TriesOK
<1>3. n \in Numbers /\ n > last /\ n \notin 1 .. last /\ 1 .. n = (1 .. last) \cup {n}
  BY <1>1, <1>2 DEF Numbers
<1>4. job[n] = "none" /\ rel[n] = NoRel
  BY <1>3 DEF IInv, TypeInv, HostOK, RelOK
<1>5. new.tick = t
  OBVIOUS
<1> HIDE DEF new
<1>6. tries'[n].tick = t /\ \A k \in 1 .. last : tries'[k] = tries[k]
  BY <1>1, <1>2, <1>3, <1>5
<1>7. disp'.at = "claim" /\ disp'.tick = t /\ disp'.n = n
  BY <1>1 DEF NoDisp
<1> QED BY <1>1, <1>2, <1>3, <1>4, <1>6, <1>7

LEMMA PlaceKeeps == ASSUME IInv, Place PROVE World' /\ Flight'
<1>1. CASE UNCHANGED origin /\ Down
  BY <1>1, PlaceStops
<1>2. CASE ~ (UNCHANGED origin /\ Down)
  <2> DEFINE t == disp.tick
             n == last + 1
             rows == Ready(t)
  <2>1. /\ t \in Ticks /\ disp.at = "place" /\ n \in Numbers /\ last' = n /\ n \notin 1 .. last
        /\ 1 .. last' = (1 .. last) \cup {n}
        /\ mem' = rows /\ row' = rows
        /\ tries'[n].tick = t /\ \A k \in 1 .. last : tries'[k] = tries[k]
        /\ disp'.at = "claim" /\ disp'.tick = t /\ disp'.n = n
        /\ job[n] = "none" /\ rel[n] = NoRel
        /\ UNCHANGED <<rel, job, work, merged, unaddressed, pc, queue, live, settled, bare, fin>>
    BY <1>2, PlaceIs
  <2>2. /\ 1 .. last \subseteq Numbers /\ \A k \in 1 .. last : tries[k].tick \in Ticks
        /\ live \subseteq 1 .. last /\ settled \subseteq 1 .. last
        /\ fin.at # "none" => fin.n \in 1 .. last
        /\ last \in Nat /\ mem \in Rows
    BY Shapes DEF IInv, TypeInv, WindowOK
  <2>3. rows[t].state = "open" /\ \A u \in Ticks \ {t} : rows[u] = mem[u]
    <3>1. rows = [mem EXCEPT ![t].state = "open"]
      BY DEF Ready
    <3>2. t \in Ticks /\ mem \in Rows
      BY <2>1, <2>2
    <3> HIDE DEF t, rows
    <3>3. /\ [mem EXCEPT ![t].state = "open"][t].state = "open"
          /\ \A u \in Ticks \ {t} : [mem EXCEPT ![t].state = "open"][u] = mem[u]
      BY <3>2, RowIs
    <3> QED BY <3>1, <3>3
  <2>4. n > last
    BY <2>2
  <2> HIDE DEF t, n, rows
  <2>5. ASSUME NEW m \in 1 .. last, tries[m].tick = t, job[m] = "running"
        PROVE  m \in unaddressed
    <3>1. rel[m].by = "none"
      BY <2>2, <2>5 DEF IInv, World, ReleasedIsStill
    <3> QED BY <2>1, <2>5, <3>1 DEF IInv, Flight, NothingLeft, t
  <2>6. ReleasedIsStill'
    BY <2>1 DEF IInv, World, ReleasedIsStill
  <2>7. OlderReleased'
    <3>1. ASSUME NEW m \in (1 .. last) \cup {n}, NEW k \in (1 .. last) \cup {n},
                 m < k, tries'[m].tick = tries'[k].tick, job[m] = "running", m \notin unaddressed
          PROVE  rel[k].by # "none"
      <4>1. m \in 1 .. last
        BY <2>1, <3>1
      <4>2. k # n
        BY <2>1, <2>5, <3>1, <4>1
      <4>3. k \in 1 .. last /\ tries[m].tick = tries[k].tick
        BY <2>1, <3>1, <4>1, <4>2
      <4> QED BY <3>1, <4>1, <4>3 DEF IInv, World, OlderReleased
    <3> QED BY <2>1, <3>1 DEF OlderReleased
  <2>8. RowMarks' /\ MemMarks'
    <3>1. ASSUME NEW k \in (1 .. last) \cup {n}, rows[tries'[k].tick].state = "rejected", job[k] = "running"
          PROVE  k \in unaddressed
      <4>1. k \in 1 .. last /\ tries'[k].tick = tries[k].tick /\ tries[k].tick \in Ticks
        BY <2>1, <2>2, <3>1
      <4>2. mem[tries[k].tick].state = "rejected"
        BY <2>3, <3>1, <4>1
      <4> QED BY <3>1, <4>1, <4>2 DEF IInv, World, MemMarks
    <3> QED BY <2>1, <3>1 DEF RowMarks, MemMarks
  <2>9. OnePlace'
    BY <2>1, <2>2 DEF IInv, Flight, OnePlace, t
  <2>10. DownIsEmpty' /\ AloneAtEnds' /\ BareIsNotJudged'
    BY <2>1 DEF IInv, Flight, DownIsEmpty, AloneAtEnds, BareIsNotJudged
  <2>11. NewIsLast' /\ Unstarted' /\ LaterReleased' /\ NothingLeft'
    BY <2>1 DEF NewIsLast, Unstarted, LaterReleased, NothingLeft, NoRel
  <2>12. QueueRows' /\ DispRow'
    BY <2>1, <2>3 DEF QueueRows, DispRow
  <2>13. OthersMarked'
    <3>1. ASSUME NEW m \in (1 .. last) \cup {n}, NEW k \in (1 .. last) \cup {n},
                 AtHand(k) \/ k = n, m # k, tries'[m].tick = tries'[k].tick, job[m] = "running"
          PROVE  m \in unaddressed
      <4>1. m \in 1 .. last
        BY <2>1, <3>1
      <4>2. CASE k = n
        BY <2>1, <2>5, <3>1, <4>1, <4>2
      <4>3. CASE k # n
        BY <2>1, <3>1, <4>1, <4>3 DEF IInv, Flight, OthersMarked
      <4> QED BY <4>2, <4>3
    <3>2. \A k : AtHand(k)' => AtHand(k) \/ k = n
      BY <2>1 DEF AtHand, Ending, Held
    <3> QED BY <2>1, <3>1, <3>2 DEF OthersMarked
  <2>14. FinishedIsStill'
    BY <2>1, <2>2 DEF IInv, Flight, FinishedIsStill, Ending
  <2> QED BY <2>6, <2>7, <2>8, <2>9, <2>10, <2>11, <2>12, <2>13, <2>14 DEF World, Flight
<1> QED BY <1>1, <1>2

LEMMA ClaimKeeps == ASSUME IInv, Claim PROVE World' /\ Flight'
<1> DEFINE t == disp.tick
<1>1. CASE /\ Stop(t, [mem EXCEPT ![t] = [state |-> "open", attempt |-> disp.n]])
           /\ UNCHANGED <<last, tries, rel, judged, merged, delivered>>
  BY <1>1, ClaimStops
<1>2. CASE /\ mem' = [mem EXCEPT ![t].attempt = disp.n]
           /\ disp' = [disp EXCEPT !.at = "start"]
           /\ UNCHANGED <<origin, pc, window, fin, parked, retried>>
  <2>1. /\ UNCHANGED <<row, last, tries, rel, job, work, unaddressed, pc, queue, live, settled, bare, fin>>
        /\ disp.at = "claim"
    BY <1>2 DEF Claim, origin, window, host
  <2>2. /\ disp \in [at : DispSteps, tick : Tick, n : 0 .. last, failed : 0 .. MaxAttempt, carry : 0 .. last]
        /\ t \in Ticks /\ mem \in Rows /\ queue \subseteq Ticks
        /\ \A k \in 1 .. last : tries[k].tick \in Ticks
    BY <2>1, Shapes DEF IInv, TypeInv, DispOK, WindowOK
  <2>3. disp'.at = "start" /\ disp'.tick = t /\ disp'.n = disp.n
    BY <1>2, <2>2
  <2>4. \A u \in Ticks : mem'[u].state = mem[u].state
    <3>1. /\ [mem EXCEPT ![t].attempt = disp.n][t].state = mem[t].state
          /\ \A u \in Ticks \ {t} : [mem EXCEPT ![t].attempt = disp.n][u] = mem[u]
      BY <2>2, RowIs
    <3> QED BY <1>2, <3>1
  <2>5. Calm
    BY <2>1, UntouchedIsCalm
  <2>6. World'
    <3>1. RowsAreKnown
      BY <2>1, <2>2, <2>4 DEF RowsAreKnown
    <3> QED BY <2>5, <3>1, CalmKeeps DEF IInv
  <2>7. OnePlace' /\ DownIsEmpty' /\ AloneAtEnds' /\ BareIsNotJudged'
    BY <2>1, <2>3 DEF IInv, Flight, OnePlace, DownIsEmpty, AloneAtEnds, BareIsNotJudged
  <2>8. NewIsLast' /\ Unstarted' /\ LaterReleased' /\ NothingLeft' /\ DispRow'
    BY <2>1, <2>3 DEF IInv, Flight, NewIsLast, Unstarted, LaterReleased, NothingLeft, DispRow
  <2>9. QueueRows'
    BY <2>1, <2>2, <2>4 DEF IInv, Flight, QueueRows
  <2>10. OthersMarked'
    <3>1. \A k : AtHand(k)' => AtHand(k)
      BY <2>1, <2>3 DEF AtHand, Ending, Held
    <3> QED BY <2>1, <3>1 DEF IInv, Flight, OthersMarked
  <2>11. FinishedIsStill'
    BY <2>1 DEF IInv, Flight, FinishedIsStill, Ending
  <2> QED BY <2>6, <2>7, <2>8, <2>9, <2>10, <2>11 DEF Flight
<1> QED BY <1>1, <1>2 DEF Claim

\* The attempt that starts was not released, whatever of its tick came later was,
\* and whatever of it still runs is marked.
LEMMA StartJobKeeps == ASSUME IInv, StartJob PROVE World' /\ Flight'
<1> DEFINE t == disp.tick
           n == disp.n
<1>1. /\ disp.at \in {"start", "restart"}
      /\ UNCHANGED <<row, last, tries, rel, unaddressed, pc, queue, settled, bare, fin>>
      /\ job' = [job EXCEPT ![n] = "running"]
      /\ mem' = [mem EXCEPT ![t].state = "open"]
      /\ \/ disp' = [disp EXCEPT !.at = "note"] /\ UNCHANGED live
         \/ disp' = NoDisp /\ live' = live \cup {n}
  BY DEF StartJob, origin
<1>2. /\ disp \in [at : DispSteps, tick : Tick, n : 0 .. last, failed : 0 .. MaxAttempt, carry : 0 .. last]
      /\ n \in 1 .. last /\ n \in Numbers /\ t \in Ticks /\ tries[n].tick = t
      /\ 1 .. last \subseteq Numbers /\ \A k \in 1 .. last : tries[k].tick \in Ticks
      /\ mem \in Rows /\ queue \subseteq Ticks /\ job \in [Numbers -> Jobs] /\ last \in Nat
  BY <1>1, Shapes DEF IInv, TypeInv, DispOK, WindowOK, HostOK
<1>3. /\ job[n] = "none" /\ rel[n].by = "none" /\ row[t].state # "rejected"
      /\ t \notin queue /\ \A k \in live \cup settled : tries[k].tick # t
      /\ fin.at # "none" => tries[fin.n].tick # t
  BY <1>1 DEF IInv, Flight, Unstarted, DispRow, OnePlace
<1>4. /\ disp'.at \in {"note", "none"}
      /\ disp'.at = "note" => disp'.tick = t /\ disp'.n = n /\ live' = live
      /\ disp'.at = "none" => live' = live \cup {n}
  BY <1>1, <1>2 DEF NoDisp
<1>5. mem'[t].state = "open" /\ \A u \in Ticks \ {t} : mem'[u] = mem[u]
  <2> HIDE DEF t
  <2>1. /\ [mem EXCEPT ![t].state = "open"][t].state = "open"
        /\ \A u \in Ticks \ {t} : [mem EXCEPT ![t].state = "open"][u] = mem[u]
    BY <1>2, RowIs
  <2> QED BY <1>1, <2>1
<1>6. job'[n] = "running" /\ \A k \in Numbers \ {n} : job'[k] = job[k]
  BY <1>1, <1>2
<1>7. ASSUME NEW k \in 1 .. last, tries[k].tick = t, k > n PROVE rel[k].by # "none"
  <2>1. CASE disp.at = "start"
    BY <1>2, <1>7, <2>1 DEF IInv, Flight, NewIsLast
  <2>2. CASE disp.at = "restart"
    BY <1>7, <2>2 DEF IInv, Flight, LaterReleased
  <2> QED BY <1>1, <2>1, <2>2
<1>8. ASSUME NEW m \in 1 .. last, tries[m].tick = t, m # n, job[m] = "running" PROVE m \in unaddressed
  <2>1. AtHand(n)
    BY <1>1 DEF AtHand, Held
  <2> QED BY <1>2, <1>8, <2>1 DEF IInv, Flight, OthersMarked
<1> HIDE DEF t, n
<1>9. ReleasedIsStill'
  BY <1>1, <1>3, <1>6 DEF IInv, World, ReleasedIsStill
<1>10. OlderReleased'
  <2>1. ASSUME NEW m \in 1 .. last, NEW k \in 1 .. last, m < k, tries[m].tick = tries[k].tick,
               job'[m] = "running", m \notin unaddressed
        PROVE  rel[k].by # "none"
    <3>1. CASE m = n
      BY <1>2, <1>7, <2>1, <3>1
    <3>2. CASE m # n
      BY <1>2, <1>6, <2>1, <3>2 DEF IInv, World, OlderReleased
    <3> QED BY <3>1, <3>2
  <2> QED BY <1>1, <2>1 DEF OlderReleased
<1>11. RowMarks'
  BY <1>1, <1>2, <1>3, <1>6 DEF IInv, World, RowMarks
<1>12. MemMarks'
  <2>1. ASSUME NEW k \in 1 .. last, mem'[tries[k].tick].state = "rejected", job'[k] = "running"
        PROVE  k \in unaddressed
    <3>1. tries[k].tick # t
      BY <1>5, <2>1
    <3>2. mem[tries[k].tick].state = "rejected" /\ job[k] = "running"
      BY <1>2, <1>5, <1>6, <2>1, <3>1
    <3> QED BY <3>2 DEF IInv, World, MemMarks
  <2> QED BY <1>1, <2>1 DEF MemMarks
<1>13. OnePlace'
  BY <1>1, <1>2, <1>3, <1>4 DEF IInv, Flight, OnePlace
<1>14. DownIsEmpty' /\ AloneAtEnds' /\ BareIsNotJudged'
  BY <1>1, <1>4 DEF IInv, Flight, DownIsEmpty, AloneAtEnds, BareIsNotJudged
<1>15. NewIsLast' /\ Unstarted' /\ LaterReleased' /\ NothingLeft' /\ DispRow'
  BY <1>4 DEF NewIsLast, Unstarted, LaterReleased, NothingLeft, DispRow
<1>16. QueueRows'
  BY <1>1, <1>2, <1>3, <1>5 DEF IInv, Flight, QueueRows
<1>17. OthersMarked'
  <2>1. \A k : AtHand(k)' => AtHand(k) \/ k = n
    BY <1>1, <1>4 DEF AtHand, Ending, Held
  <2>2. ASSUME NEW m \in 1 .. last, NEW k \in 1 .. last, AtHand(k) \/ k = n, m # k,
               tries[m].tick = tries[k].tick, job'[m] = "running"
        PROVE  m \in unaddressed
    <3>1. CASE k = n
      BY <1>2, <1>6, <1>8, <2>2, <3>1
    <3>2. CASE k # n
      <4>1. AtHand(k) /\ AtHand(n)
        BY <1>1, <2>2, <3>2 DEF AtHand, Held, n
      <4>2. tries[k].tick # t
        BY <1>1, <1>3, <3>2, <4>1 DEF AtHand, Held, Ending, n
      <4>3. m # n /\ job[m] = "running"
        BY <1>2, <1>6, <2>2, <4>2
      <4> QED BY <2>2, <4>1, <4>3 DEF IInv, Flight, OthersMarked
    <3> QED BY <3>1, <3>2
  <2> QED BY <1>1, <2>1, <2>2 DEF OthersMarked
<1>18. FinishedIsStill'
  <2>1. ASSUME NEW k \in 1 .. last, k \in settled \/ Ending(k) PROVE k # n
    BY <1>2, <1>3, <2>1 DEF Ending
  <2> QED BY <1>1, <1>2, <1>6, <2>1 DEF IInv, Flight, FinishedIsStill, Ending
<1> QED BY <1>9, <1>10, <1>11, <1>12, <1>13, <1>14, <1>15, <1>16, <1>17, <1>18 DEF World, Flight

-----------------------------------------------------------------------------
(* The invariant, and what follows from it. *)

LEMMA IInvInit == Init => IInv
<1> SUFFICES ASSUME Init PROVE IInv
  OBVIOUS
<1>1. TypeInv
  BY TypeInit
<1>2. /\ last = 0 /\ \A n \in Numbers : rel[n].by = "none"
      /\ queue = {} /\ live = {} /\ settled = {} /\ disp.at = "none" /\ fin.at = "none" /\ bare = {}
  BY DEF Init, NoRel, NoDisp, NoFin
<1>3. World
  BY <1>2 DEF World, ReleasedIsStill, OlderReleased, RowMarks, MemMarks
<1>4. OnePlace /\ DownIsEmpty /\ NewIsLast /\ Unstarted /\ LaterReleased /\ NothingLeft
  BY <1>2 DEF OnePlace, DownIsEmpty, NewIsLast, Unstarted, LaterReleased, NothingLeft
<1>5. OthersMarked /\ FinishedIsStill /\ QueueRows /\ DispRow /\ AloneAtEnds /\ BareIsNotJudged
  BY <1>2 DEF OthersMarked, FinishedIsStill, QueueRows, DispRow, AloneAtEnds, BareIsNotJudged
<1> QED BY <1>1, <1>3, <1>4, <1>5 DEF IInv, Flight

LEMMA NothingMoves == ASSUME IInv, UNCHANGED vars PROVE World' /\ Flight'
<1>1. UNCHANGED <<row, last, tries, rel, job, work, unaddressed, pc, mem, queue, live, settled, bare, disp, fin>>
  BY DEF vars, origin, host, memory, window
<1>2. World'
  BY <1>1 DEF IInv, World, ReleasedIsStill, OlderReleased, RowMarks, MemMarks
<1>3. OnePlace' /\ DownIsEmpty' /\ NewIsLast' /\ Unstarted' /\ LaterReleased' /\ NothingLeft'
  BY <1>1 DEF IInv, Flight, OnePlace, DownIsEmpty, NewIsLast, Unstarted, LaterReleased, NothingLeft
<1>4. OthersMarked' /\ FinishedIsStill'
  BY <1>1 DEF IInv, Flight, OthersMarked, FinishedIsStill, AtHand, Ending, Held
<1>5. QueueRows' /\ DispRow' /\ AloneAtEnds' /\ BareIsNotJudged'
  BY <1>1 DEF IInv, Flight, QueueRows, DispRow, AloneAtEnds, BareIsNotJudged
<1> QED BY <1>2, <1>3, <1>4, <1>5 DEF Flight

LEMMA IInvStep == IInv /\ [Next]_vars => IInv'
<1> SUFFICES ASSUME IInv, [Next]_vars PROVE World' /\ Flight'
  BY TypeStep DEF IInv
<1>1. CASE UNCHANGED vars
  BY <1>1, NothingMoves
<1>2. CASE Start \/ Crash \/ Wipe \/ End
  BY <1>2, StartKeeps, CrashKeeps, WipeKeeps, EndKeeps
<1>3. CASE \E t \in Ticks : Admit(t) \/ \E denied \in SUBSET Of(t) : AdmitHeld(t, denied)
  BY <1>3, AdmitKeeps, AdmitHeldKeeps
<1>4. CASE Adopt \/ Place \/ Claim \/ StartJob \/ DieStarting \/ Note
  BY <1>4, AdoptKeeps, PlaceKeeps, ClaimKeeps, StartJobKeeps, DieStartingKeeps, NoteKeeps
<1>5. CASE \E n \in live : Poll(n) \/ Refuse(n)
  BY <1>5, PollKeeps, RefuseKeeps
<1>6. CASE \E n \in settled : BeginFinish(n)
  BY <1>6, BeginFinishKeeps
<1>7. CASE Collect \/ HeadMissing \/ Reject \/ ReleaseWorker \/ Merge \/ MergeNothing \/ Conflict
  BY <1>7, CollectKeeps, HeadMissingKeeps, RejectKeeps, ReleaseWorkerKeeps, MergeKeeps, MergeNothingKeeps,
     ConflictKeeps
<1>8. CASE GatePasses \/ GateFails \/ Close
  BY <1>8, GatePassesKeeps, GateFailsKeeps, CloseKeeps
<1>9. CASE \E n \in Numbers : \/ WorkerCommits(n) \/ WorkerPushes(n) \/ WorkerEnds(n)
                              \/ \E carry \in BOOLEAN : PersonSettles(n, carry)
  BY <1>9, WorkerCommitsKeeps, WorkerPushesKeeps, WorkerEndsKeeps, PersonSettlesKeeps
<1> QED BY <1>1, <1>2, <1>3, <1>4, <1>5, <1>6, <1>7, <1>8, <1>9 DEF Next

LEMMA Invariance == Spec => []IInv
BY IInvInit, IInvStep, PTL DEF Spec

\* Two attempts of a tick never run at once but for one refused as unaddressed
\* (dispatch.go, claimDispatch and RefusedUnaddressed), whatever is killed, lost
\* or settled in between: the earlier of two that run would be unmarked, so the
\* later was released, and what is released is still.
THEOREM LiveNeverRedispatched == Spec => []LiveIsNeverRedispatched
<1>1. IInv => LiveIsNeverRedispatched
  <2> SUFFICES ASSUME IInv, NEW m \in 1 .. last, NEW n \in 1 .. last,
                      m < n, tries[m].tick = tries[n].tick, job[m] = "running", job[n] = "running"
               PROVE  m \in unaddressed
    BY DEF LiveIsNeverRedispatched
  <2>1. n \in Numbers
    BY Shapes DEF IInv
  <2>2. rel[n].by = "none"
    BY <2>1 DEF IInv, World, ReleasedIsStill
  <2> QED BY <2>2 DEF IInv, World, OlderReleased
<1> QED BY <1>1, Invariance, PTL

\* Only Place makes an attempt.
LEMMA OnlyPlaceAdds == ASSUME IInv, [Next]_vars, ~ Place PROVE last' = last
<1>1. CASE UNCHANGED vars
  BY <1>1 DEF vars, origin
<1>2. CASE Start \/ Crash \/ Wipe \/ End
  BY <1>2 DEF Start, Crash, Wipe, End, origin
<1>3. CASE \E t \in Ticks : Admit(t) \/ \E denied \in SUBSET Of(t) : AdmitHeld(t, denied)
  BY <1>3 DEF Admit, AdmitHeld
<1>4. CASE Adopt \/ Claim \/ StartJob \/ DieStarting \/ Note
  BY <1>4 DEF Adopt, Claim, StartJob, DieStarting, Note, origin
<1>5. CASE \E n \in live : Poll(n) \/ Refuse(n)
  BY <1>5 DEF Poll, Refuse, origin
<1>6. CASE \E n \in settled : BeginFinish(n)
  BY <1>6 DEF BeginFinish, origin
<1>7. CASE Collect \/ HeadMissing \/ Reject \/ ReleaseWorker \/ Merge \/ MergeNothing \/ Conflict
  <2>1. CASE Collect
    BY <2>1 DEF Collect
  <2>2. CASE Reject
    BY <2>2 DEF Reject
  <2>3. CASE Conflict
    BY <2>3 DEF Conflict
  <2>4. CASE HeadMissing \/ ReleaseWorker \/ Merge \/ MergeNothing
    BY <2>4 DEF HeadMissing, ReleaseWorker, Merge, MergeNothing, origin
  <2> QED BY <1>7, <2>1, <2>2, <2>3, <2>4
<1>8. CASE GatePasses \/ GateFails \/ Close
  BY <1>8 DEF GatePasses, GateFails, Close, origin
<1>9. CASE \E n \in Numbers : \/ WorkerCommits(n) \/ WorkerPushes(n) \/ WorkerEnds(n)
                              \/ \E carry \in BOOLEAN : PersonSettles(n, carry)
  BY <1>9 DEF WorkerCommits, WorkerPushes, WorkerEnds, PersonSettles, origin
<1> QED BY <1>1, <1>2, <1>3, <1>4, <1>5, <1>6, <1>7, <1>8, <1>9 DEF Next

\* No attempt is placed over an earlier one of its tick that holds work nothing
\* merged and nobody released, unless the run could not address that one
\* (dispatch.go, claimDispatch and RefusedRejectedWork): the walk that led to
\* the placing released all of them.
THEOREM NoWorkIsOrphaned == Spec => WorkIsNeverOrphaned
<1> DEFINE Orphans == last' > last =>
               \A m \in Of(tries'[last'].tick) :
                   work[m] # {} /\ m \notin merged /\ rel[m].by = "none" => m \in unaddressed
<1>1. ASSUME IInv, [Next]_vars PROVE Orphans
  <2> SUFFICES ASSUME last' > last, NEW m \in Of(tries'[last'].tick),
                      work[m] # {}, rel[m].by = "none"
               PROVE  m \in unaddressed
    OBVIOUS
  <2>1. last \in Nat
    BY <1>1, Shapes DEF IInv
  <2>2. last' # last
    BY <2>1
  <2>3. Place
    BY <1>1, <2>2, OnlyPlaceAdds
  <2>4. ~ (UNCHANGED origin /\ Down)
    BY <2>2 DEF origin
  <2>5. disp.at = "place" /\ tries'[last'].tick = disp.tick
    BY <1>1, <2>3, <2>4, PlaceIs
  <2>6. m \in 1 .. last /\ tries[m].tick = disp.tick
    BY <2>5 DEF Of
  <2> QED BY <1>1, <2>5, <2>6 DEF IInv, Flight, NothingLeft
<1>2. IInv /\ [Next]_vars => [Orphans]_vars
  BY <1>1
<1>3. Spec => [][Orphans]_vars
  <2> HIDE DEF Orphans
  <2> QED BY <1>2, Invariance, PTL DEF Spec
<1> QED BY <1>3 DEF WorkIsNeverOrphaned

-----------------------------------------------------------------------------
(* The ladder.  A release of the run goes one tier up, or is the one further *)
(* try at the ceiling.  What one walk releases at once is one attempt, for   *)
(* of the attempts nobody released only the latest has work or still runs,   *)
(* where no host is lost and no running job is given up as overdue.          *)

KeptHosts == Events \cap {"wipe", "overdue"} = {}

Spent(m) == work[m] = {} /\ job[m] # "running"
\* An attempt refused as unaddressed never runs again.
MarkedIsDone == \A n \in unaddressed : job[n] \notin {"none", "running"}
OnlyLatest ==
    \A m, n \in 1 .. last :
        m < n /\ tries[m].tick = tries[n].tick /\ rel[m].by = "none" /\ rel[n].by = "none" => Spent(m)
PlaceSpent == disp.at = "place" => \A m \in Of(disp.tick) : rel[m].by = "none" => Spent(m)

OneCeiling ==
    \A m, n \in 1 .. last :
        tries[m].tick = tries[n].tick /\ rel[m].step = "ceiling" /\ rel[n].step = "ceiling" => m = n
RelSteps ==
    \A n \in 1 .. last : /\ rel[n].by = "run" => rel[n].step # "none"
                         /\ rel[n].step = "escalate" => tries[n].tier < Ceiling

\* The failed tries a tier stands for: all a person did not release.
Counting(t) == {m \in Of(t) : rel[m].by # "person"}
CountsKept ==
    \A k \in 1 .. last :
        tries[k].tier < Ceiling =>
            Cardinality({m \in Counting(tries[k].tick) : m < k}) <= tries[k].tier
PlaceCounts == disp.at = "place" => Cardinality(Counting(disp.tick)) <= disp.failed

LadderInv == /\ MarkedIsDone /\ OnlyLatest /\ PlaceSpent
             /\ OneCeiling /\ RelSteps /\ CountsKept /\ PlaceCounts

-----------------------------------------------------------------------------
(* Steps that place nothing and start nothing. *)

\* No job starts or is forgotten, what is spent stays so, a release stands, and
\* what the run releases has work and a step left to take.
Steady ==
    /\ UNCHANGED <<last, tries>>
    /\ \A n \in Numbers : /\ job'[n] \in {"none", "running"} => job'[n] = job[n]
                          /\ work'[n] # {} => work[n] # {} \/ job[n] = "running"
    /\ \A n \in 1 .. last :
           \/ rel'[n] = rel[n]
           \/ /\ rel[n].by = "none"
              /\ \/ rel'[n].by = "person" /\ rel'[n].step = "none"
                 \/ /\ work[n] # {} /\ Disposes(n)
                    /\ rel'[n].by = "run"
                    /\ rel'[n].step = IF Escalates(n) THEN "escalate" ELSE "ceiling"
\* What is newly marked is done.
MarksDone == unaddressed' \subseteq unaddressed \cup {n \in 1 .. last : job[n] \notin {"none", "running"}}

LEMMA CountedIn ==
    ASSUME TypeInv, NEW ns \in SUBSET (1 .. last), NEW ms \in SUBSET ns
    PROVE  /\ Cardinality(ms) \in Nat /\ Cardinality(ns) \in Nat
           /\ Cardinality(ms) <= Cardinality(ns) /\ IsFiniteSet(ns) /\ IsFiniteSet(ms)
<1>1. IsFiniteSet(1 .. last)
  BY Shapes, FS_Interval
<1>2. IsFiniteSet(ns)
  BY <1>1, FS_Subset
<1>3. IsFiniteSet(ms) /\ Cardinality(ms) <= Cardinality(ns)
  BY <1>2, FS_Subset
<1> QED BY <1>2, <1>3, FS_CardinalityType

LEMMA SteadyReleases ==
    ASSUME IInv, LadderInv, Steady
    PROVE  OneCeiling' /\ RelSteps'
<1>1. last' = last /\ tries' = tries /\ last \in Nat /\ \A n \in 1 .. last : n \in Nat
  BY Shapes DEF IInv, Steady
<1>2. ASSUME NEW m \in 1 .. last, NEW n \in 1 .. last, tries[m].tick = tries[n].tick,
             rel'[m].step = "ceiling", rel'[m] # rel[m], rel[n].step = "ceiling"
      PROVE  FALSE
  <2>1. Disposes(m) /\ ~Escalates(m)
    BY <1>2 DEF Steady
  <2>2. n \in Of(tries[m].tick)
    BY <1>2 DEF Of
  <2> QED BY <1>2, <2>1, <2>2 DEF Disposes
<1>3. ASSUME NEW m \in 1 .. last, NEW n \in 1 .. last, tries[m].tick = tries[n].tick,
             rel'[m] # rel[m], rel'[n] # rel[n], rel'[m].step = "ceiling", rel'[n].step = "ceiling", m < n
      PROVE  FALSE
  <2>1. rel[m].by = "none" /\ rel[n].by = "none" /\ work[m] # {}
    BY <1>3 DEF Steady
  <2> QED BY <1>3, <2>1 DEF LadderInv, OnlyLatest, Spent
<1>4. OneCeiling'
  <2> SUFFICES ASSUME NEW m \in 1 .. last, NEW n \in 1 .. last, tries[m].tick = tries[n].tick,
                      rel'[m].step = "ceiling", rel'[n].step = "ceiling"
               PROVE  m = n
    BY <1>1 DEF OneCeiling
  <2>1. CASE rel'[m] = rel[m] /\ rel'[n] = rel[n]
    BY <2>1 DEF LadderInv, OneCeiling
  <2>2. CASE rel'[m] # rel[m] /\ rel'[n] # rel[n]
    BY <1>1, <1>3, <2>2
  <2>3. CASE rel'[m] # rel[m] /\ rel'[n] = rel[n]
    BY <1>2, <2>3
  <2>4. CASE rel'[m] = rel[m] /\ rel'[n] # rel[n]
    BY <1>2, <2>4
  <2> QED BY <2>1, <2>2, <2>3, <2>4
<1>5. ASSUME NEW n \in 1 .. last, Escalates(n) PROVE tries[n].tier < Ceiling
  <2>1. tries[n].tier \in Nat /\ Ceiling \in Nat
    BY <1>1, Shapes, ConstantsAssumption DEF IInv, TypeInv, TriesOK, TryShape
  <2>2. Try(n) \in Nat
    <3>1. {m \in Of(tries[n].tick) : m <= n} \subseteq 1 .. last
      BY DEF Of
    <3> QED BY <3>1, CountedIn DEF IInv, Try
  <2>3. Tier(Try(n)) \in Nat /\ Tier(Try(n)) <= Ceiling
    BY <2>2, Tiers, <2>1
  <2> QED BY <1>5, <2>1, <2>3 DEF Escalates
<1>6. RelSteps'
  <2> SUFFICES ASSUME NEW n \in 1 .. last
               PROVE  /\ rel'[n].by = "run" => rel'[n].step # "none"
                      /\ rel'[n].step = "escalate" => tries[n].tier < Ceiling
    BY <1>1 DEF RelSteps
  <2>1. CASE rel'[n] = rel[n]
    BY <2>1 DEF LadderInv, RelSteps
  <2>2. CASE rel'[n] # rel[n]
    BY <1>5, <2>2 DEF Steady
  <2> QED BY <2>1, <2>2
<1> QED BY <1>4, <1>6

LEMMA SteadyCounts ==
    ASSUME IInv, Steady
    PROVE  /\ \A t : Of(t)' = Of(t) /\ Counting(t)' \subseteq Counting(t)
           /\ CountsKept => CountsKept'
           /\ \A t : Counting(t) \subseteq 1 .. last
<1>1. last' = last /\ tries' = tries
  BY DEF Steady
<1>2. \A t : Of(t)' = Of(t) /\ Of(t) \subseteq 1 .. last
  BY <1>1 DEF Of
<1>3. \A t : Counting(t)' \subseteq Counting(t) /\ Counting(t) \subseteq 1 .. last
  <2>1. ASSUME NEW n \in 1 .. last, rel'[n].by # "person" PROVE rel[n].by # "person"
    BY <2>1 DEF Steady
  <2> QED BY <1>2, <2>1 DEF Counting
<1>4. ASSUME CountsKept PROVE CountsKept'
  <2> SUFFICES ASSUME NEW k \in 1 .. last, NEW t, t = tries[k].tick, tries[k].tier < Ceiling
               PROVE  Cardinality({m \in Counting(t)' : m < k}) <= tries[k].tier
    BY <1>1 DEF CountsKept
  <2> DEFINE old == {m \in Counting(t) : m < k}
             new == {m \in Counting(t)' : m < k}
  <2>1. old \subseteq 1 .. last /\ new \subseteq old
    BY <1>3
  <2>2. Cardinality(old) <= tries[k].tier
    BY <1>4 DEF CountsKept
  <2>3. tries[k].tier \in Nat
    BY Shapes DEF IInv, TypeInv, TriesOK, TryShape
  <2> HIDE DEF old, new
  <2>4. Cardinality(new) \in Nat /\ Cardinality(old) \in Nat /\ Cardinality(new) <= Cardinality(old)
    BY <2>1, CountedIn DEF IInv
  <2>5. Cardinality(new) <= tries[k].tier
    BY <2>2, <2>3, <2>4
  <2> QED BY <2>5 DEF new
<1> QED BY <1>2, <1>3, <1>4

LEMMA SteadyKeeps ==
    ASSUME IInv, LadderInv, Steady, MarksDone
    PROVE  MarkedIsDone' /\ OnlyLatest' /\ OneCeiling' /\ RelSteps' /\ CountsKept'
<1>1. last' = last /\ tries' = tries /\ 1 .. last \subseteq Numbers /\ unaddressed \subseteq 1 .. last
  BY Shapes DEF IInv, TypeInv, DoneOK, Steady
<1>2. MarkedIsDone'
  <2> SUFFICES ASSUME NEW n \in unaddressed' PROVE job'[n] \notin {"none", "running"}
    BY DEF MarkedIsDone
  <2>1. job[n] \notin {"none", "running"} /\ n \in Numbers
    BY <1>1 DEF LadderInv, MarkedIsDone, MarksDone
  <2> QED BY <2>1 DEF Steady
<1>3. \A m \in 1 .. last : Spent(m) => Spent(m)'
  BY <1>1 DEF Spent, Steady
<1>4. \A m \in 1 .. last : rel'[m].by = "none" => rel[m].by = "none"
  BY DEF Steady
<1>5. OnlyLatest'
  BY <1>1, <1>3, <1>4 DEF LadderInv, OnlyLatest
<1> QED BY <1>2, <1>5, SteadyReleases, SteadyCounts DEF LadderInv

\* Where no new placing comes up, that is all.
NoNewPlacing == disp'.at = "place" => disp' = disp

LEMMA SteadyOn ==
    ASSUME IInv, LadderInv, Steady, MarksDone, NoNewPlacing
    PROVE  LadderInv'
<1>1. /\ last' = last /\ tries' = tries /\ 1 .. last \subseteq Numbers
      /\ \A t : Of(t)' = Of(t) /\ Of(t) \subseteq 1 .. last
  BY Shapes, SteadyCounts DEF IInv, Steady, Of
<1>2. \A m \in 1 .. last : Spent(m) => Spent(m)'
  BY <1>1 DEF Spent, Steady
<1>3. \A m \in 1 .. last : rel'[m].by = "none" => rel[m].by = "none"
  BY DEF Steady
<1>4. PlaceSpent'
  <2> SUFFICES ASSUME disp'.at = "place", disp' = disp, NEW m \in Of(disp.tick), rel'[m].by = "none" PROVE Spent(m)'
    BY <1>1 DEF PlaceSpent, NoNewPlacing
  <2>1. disp.at = "place" /\ m \in 1 .. last /\ rel[m].by = "none"
    BY <1>3 DEF Of
  <2>2. Spent(m)
    BY <2>1 DEF LadderInv, PlaceSpent
  <2> QED BY <1>2, <2>1, <2>2
<1>5. PlaceCounts'
  <2> SUFFICES ASSUME disp'.at = "place", disp' = disp PROVE Cardinality(Counting(disp.tick)') <= disp.failed
    BY DEF PlaceCounts, NoNewPlacing
  <2> DEFINE old == Counting(disp.tick)
             new == Counting(disp.tick)'
  <2>1. disp.at = "place" /\ disp.failed \in Nat
    BY DEF IInv, TypeInv, DispOK
  <2>2. Cardinality(old) <= disp.failed
    BY <2>1 DEF LadderInv, PlaceCounts
  <2>3. old \subseteq 1 .. last /\ new \subseteq old
    BY SteadyCounts
  <2> HIDE DEF old, new
  <2>4. Cardinality(new) \in Nat /\ Cardinality(old) \in Nat /\ Cardinality(new) <= Cardinality(old)
    BY <2>3, CountedIn DEF IInv
  <2>5. Cardinality(new) <= disp.failed
    BY <2>1, <2>2, <2>4
  <2> QED BY <2>5 DEF new
<1> QED BY <1>4, <1>5, SteadyKeeps DEF LadderInv

LEMMA UntouchedIsSteady ==
    ASSUME UNCHANGED <<last, tries, rel, job, work>>
    PROVE  Steady
BY DEF Steady

LEMMA TearDownIsSteady ==
    ASSUME TypeInv, NEW ns \in SUBSET (1 .. last), \E quits \in Quits(ns) : job' = TornDown(ns, quits),
           UNCHANGED <<last, tries, rel, work>>
    PROVE  Steady
<1>1. /\ \A n \in Numbers : (job'[n] = "none" <=> job[n] = "none")
      /\ \A n \in Numbers : job'[n] = "running" => job[n] = "running"
  BY TearsDown DEF TypeInv
<1> QED BY <1>1 DEF Steady

\* Some attempts are torn down, and of those some that hold work are released.
LEMMA ReleaseIsSteady ==
    ASSUME TypeInv, NEW ns \in SUBSET (1 .. last), NEW torn \in SUBSET (1 .. last),
           Release(ns), \E quits \in Quits(torn) : job' = TornDown(torn, quits),
           \A n \in ns : rel[n].by = "none" /\ work[n] # {} /\ Disposes(n),
           UNCHANGED <<last, tries, work>>
    PROVE  Steady
<1>1. /\ \A n \in Numbers : (job'[n] = "none" <=> job[n] = "none")
      /\ \A n \in Numbers : job'[n] = "running" => job[n] = "running"
  BY TearsDown DEF TypeInv
<1>2. \A n \in 1 .. last : rel'[n] = IF n \in ns THEN RunRelease(n, ruled[n] = "carry") ELSE rel[n]
  BY Shapes DEF Release
<1>3. \A n : /\ RunRelease(n, ruled[n] = "carry").by = "run"
             /\ RunRelease(n, ruled[n] = "carry").step = IF Escalates(n) THEN "escalate" ELSE "ceiling"
  BY DEF RunRelease
<1> QED BY <1>1, <1>2, <1>3 DEF Steady

\* What one attempt's release, or none, is to the ladder.
LEMMA OneReleaseIsSteady ==
    ASSUME TypeInv, NEW n \in 1 .. last, NEW carry,
           \/ rel' = rel
           \/ /\ rel' = [rel EXCEPT ![n] = RunRelease(n, carry)]
              /\ rel[n].by = "none" /\ work[n] # {} /\ Disposes(n),
           UNCHANGED <<last, tries>>,
           \A k \in Numbers : /\ job'[k] \in {"none", "running"} => job'[k] = job[k]
                              /\ work'[k] # {} => work[k] # {}
    PROVE  Steady
<1>1. /\ RunRelease(n, carry).by = "run"
      /\ RunRelease(n, carry).step = IF Escalates(n) THEN "escalate" ELSE "ceiling"
  BY DEF RunRelease
<1>2. rel \in [Numbers -> RelShape] /\ n \in Numbers /\ 1 .. last \subseteq Numbers
  BY Shapes DEF TypeInv, RelOK
<1> QED BY <1>1, <1>2 DEF Steady

\* What the walk would hold has work.
LEMMA HeldHasWork ==
    ASSUME TypeInv, NEW n \in 1 .. last, Fate(n) = "hold"
    PROVE  rel[n].by = "none" /\ work[n] # {} /\ n \notin merged /\ mem[tries[n].tick].state = "rejected"
<1>1. rel[n].by = "none" /\ Fate(n) = Disposition(n)
  BY FateIs
<1> QED BY <1>1 DEF Disposition, HeldCommit

LEMMA AdmitHeldSteady ==
    ASSUME IInv, NEW t \in Ticks, NEW denied, AdmitHeld(t, denied)
    PROVE  Steady /\ NoNewPlacing
<1> DEFINE held  == Fated(t, {"hold"})
           stuck == {n \in held : ~Decided(n) \/ n \in denied}
           at    == Max(stuck)
           torn  == {n \in held : n >= at} \cup {n \in Of(t) : n > at /\ rel[n].by = "run"}
           rows  == [mem EXCEPT ![t] = [state |-> "rejected", attempt |-> at]]
           freed == {n \in held : n > at}
<1>1. /\ UNCHANGED <<last, tries, work, unaddressed>>
      /\ stuck # {}
      /\ Release(freed)
      /\ \E quits \in Quits(torn) : job' = TornDown(torn, quits)
      /\ Stop(t, rows)
  BY DEF AdmitHeld
<1>2. torn \subseteq 1 .. last /\ freed \subseteq 1 .. last
  BY FatedAre DEF Of
<1>3. ASSUME NEW n \in freed PROVE rel[n].by = "none" /\ work[n] # {} /\ Disposes(n)
  <2>1. n \in held /\ n > at
    OBVIOUS
  <2>2. n \in 1 .. last /\ Fate(n) = "hold"
    BY <2>1 DEF Fated, Of
  <2>3. n \notin stuck
    <3>1. stuck \in SUBSET (0 .. last) /\ last \in Nat
      BY FatedAre, Shapes DEF IInv
    <3>2. stuck # {}
      BY <1>1
    <3> HIDE DEF stuck, held
    <3>3. \A k \in stuck : k <= at
      BY <3>1, <3>2, Latest
    <3>4. at \in stuck
      BY <3>1, <3>2, Latest
    <3>5. \A k \in 0 .. last : k \in Nat
      BY <3>1
    <3> HIDE DEF at
    <3>6. at \in Nat /\ n \in Nat
      BY <2>2, <3>1, <3>4, <3>5
    <3> QED BY <2>1, <3>3, <3>6
  <2>4. Decided(n)
    BY <2>1, <2>3
  <2> QED BY <2>2, <2>4, HeldHasWork DEF IInv, Decided
<1>4. disp'.at # "place"
  BY <1>1 DEF Stop, Down, NoDisp
<1> HIDE DEF freed, torn, at, stuck, held
<1>5. Steady
  BY <1>1, <1>2, <1>3, ReleaseIsSteady DEF IInv
<1> QED BY <1>4, <1>5 DEF NoNewPlacing

LEMMA AdmitSteady == ASSUME IInv, NEW t \in Ticks, Admit(t) PROVE Steady
<1> DEFINE held == Fated(t, {"hold"})
           torn == held \cup {n \in Of(t) : rel[n].by = "run"}
<1>1. /\ UNCHANGED <<last, tries, work, unaddressed>>
      /\ \A m \in held : Decided(m)
      /\ Release(held)
      /\ \E quits \in Quits(torn) : job' = TornDown(torn, quits)
  BY DEF Admit
<1>2. held \subseteq 1 .. last /\ torn \subseteq 1 .. last
  BY FatedAre DEF Of
<1>3. ASSUME NEW n \in held PROVE rel[n].by = "none" /\ work[n] # {} /\ Disposes(n)
  <2>1. n \in 1 .. last /\ Fate(n) = "hold" /\ Decided(n)
    BY <1>1 DEF Fated, Of
  <2> QED BY <2>1, HeldHasWork DEF IInv, Decided
<1> HIDE DEF held, torn
<1> QED BY <1>1, <1>2, <1>3, ReleaseIsSteady DEF IInv

\* The walk that leaves nothing to take up: whoever was not released left nothing
\* and ended, and every try a person did not release is counted.
LEMMA AdmitLadder ==
    ASSUME IInv, LadderInv, NEW t \in Ticks, Admit(t)
    PROVE  LadderInv'
<1> DEFINE held == Fated(t, {"hold"})
           able == Fated(t, {"adopt", "finish"})
<1>1. UNCHANGED <<last, tries, work, unaddressed>> /\ disp = NoDisp
  BY DEF Admit, Between
<1>2. able \subseteq 1 .. last
  BY FatedAre
<1>4. Steady
  BY AdmitSteady
<1>5. CASE disp'.at # "place"
  BY <1>1, <1>4, <1>5, SteadyOn DEF NoNewPlacing, MarksDone
<1>6. CASE disp'.at = "place"
  <2>1. able = {} /\ disp'.tick = t /\ disp'.failed = Cardinality(Fated(t, {"failed", "hold"}))
    <3> DEFINE n == Max(able)
               carry == {m \in Of(t) : rel[m].carry} \cup {m \in held : ruled[m] = "carry"}
               adopts == [NoDisp EXCEPT !.at = "adopt", !.tick = t, !.n = n]
               places == [NoDisp EXCEPT !.at = "place", !.tick = t,
                                        !.failed = Cardinality(Fated(t, {"failed", "hold"})),
                                        !.carry = Max(carry \cup {0})]
    <3>1. disp' = disp \/ disp' = IF able # {} THEN adopts ELSE places
      BY DEF Admit
    <3>2. /\ adopts.at = "adopt" /\ places.tick = t
          /\ places.failed = Cardinality(Fated(t, {"failed", "hold"}))
      BY DEF NoDisp
    <3>3. disp.at # "place"
      BY <1>1 DEF NoDisp
    <3> HIDE DEF able, adopts, places
    <3> QED BY <1>6, <3>1, <3>2, <3>3
  <2>2. ASSUME NEW m \in Of(t), rel[m].by = "none"
        PROVE  Fate(m) \in {"hold", "failed"} /\ mem[t].state = "rejected"
    <3>1. Fate(m) = Disposition(m) /\ m \in 1 .. last /\ tries[m].tick = t
      BY <2>2, FateIs DEF IInv, Of
    <3>2. Fate(m) \notin {"adopt", "finish"}
      BY <2>1 DEF Fated
    <3> QED BY <3>1, <3>2, DispositionIs
  <2>3. PlaceSpent'
    <3> SUFFICES ASSUME NEW m \in Of(t), rel'[m].by = "none" PROVE Spent(m)'
      BY <2>1, <1>4, SteadyCounts DEF PlaceSpent
    <3>1. m \in 1 .. last /\ tries[m].tick = t /\ m \in Numbers
      BY Shapes DEF IInv, Of
    <3>2. rel[m].by = "none"
      BY <1>4, <3>1 DEF Steady
    <3>3. Fate(m) = "failed" /\ mem[t].state = "rejected"
      <4>1. Fate(m) = "hold" => rel'[m].by = "run"
        BY <3>1, AdmitIs
      <4> QED BY <2>2, <3>2, <4>1
    <3>4. work[m] = {}
      BY <3>1, <3>2, <3>3, FateIs, DispositionIs DEF IInv
    <3>5. job[m] # "running"
      <4>1. job[m] = "running" => m \in unaddressed
        BY <3>1, <3>3 DEF IInv, World, MemMarks
      <4> QED BY <4>1 DEF LadderInv, MarkedIsDone
    <3> QED BY <1>1, <1>4, <3>1, <3>4, <3>5 DEF Spent, Steady
  <2>4. PlaceCounts'
    <3>1. Counting(t) \subseteq Fated(t, {"failed", "hold"})
      <4> SUFFICES ASSUME NEW m \in Of(t), rel[m].by # "person" PROVE Fate(m) \in {"failed", "hold"}
        BY DEF Counting, Fated
      <4> QED BY <2>2, FateIs DEF IInv, Of
    <3>2. Counting(t)' \subseteq Counting(t) /\ Counting(t) \subseteq 1 .. last
      BY <1>4, SteadyCounts
    <3>3. Fated(t, {"failed", "hold"}) \subseteq 1 .. last
      BY FatedAre
    <3>4. Cardinality(Counting(t)') <= Cardinality(Fated(t, {"failed", "hold"}))
      BY <3>1, <3>2, <3>3, CountedIn DEF IInv
    <3> QED BY <2>1, <3>4 DEF PlaceCounts
  <2>5. MarksDone
    BY <1>1 DEF MarksDone
  <2> QED BY <1>4, <2>3, <2>4, <2>5, SteadyKeeps DEF LadderInv
<1> QED BY <1>5, <1>6

\* What a try stands for is counted into its tier when it is placed.
LEMMA PlaceLadder == ASSUME IInv, LadderInv, Place PROVE LadderInv'
<1>1. CASE UNCHANGED origin /\ Down
  <2>1. Steady
    BY <1>1, UntouchedIsSteady DEF Place, origin, host
  <2>2. MarksDone
    BY <1>1 DEF Place, MarksDone
  <2> QED BY <1>1, <2>1, <2>2, SteadyOn DEF Down, NoDisp, NoNewPlacing
<1>2. CASE ~ (UNCHANGED origin /\ Down)
  <2> DEFINE t == disp.tick
             n == last + 1
  <2>1. /\ t \in Ticks /\ disp.at = "place" /\ n \in Numbers /\ last' = n /\ n \notin 1 .. last
        /\ 1 .. last' = (1 .. last) \cup {n}
        /\ tries'[n].tick = t /\ \A k \in 1 .. last : tries'[k] = tries[k]
        /\ disp'.at = "claim" /\ job[n] = "none" /\ rel[n] = NoRel
        /\ UNCHANGED <<rel, job, work, unaddressed>>
    BY <1>2, PlaceIs
  <2>2. last \in Nat /\ (\A k \in 1 .. last : k \in Nat /\ k < n /\ k \in Numbers) /\ n \in Nat
    BY Shapes DEF IInv
  <2>3. tries'[n].tier = Tier(disp.failed)
    <3> DEFINE from == disp.carry
               base == IF from = 0 THEN 0 ELSE CarryHead(from)
               new  == [tick |-> t, tier |-> Tier(disp.failed),
                        under |-> IF base = 0 THEN {} ELSE {base} \cup tries[base].under]
    <3>1. tries' = [tries EXCEPT ![n] = new] /\ tries \in [Numbers -> TryShape]
      BY <1>2 DEF Place, host, IInv, TypeInv, TriesOK
    <3>2. new.tier = Tier(disp.failed)
      OBVIOUS
    <3> HIDE DEF new
    <3> QED BY <2>1, <3>1, <3>2
  <2>4. \A u : Of(u)' \ {n} = Of(u) /\ Counting(u)' \ {n} = Counting(u) /\ Counting(u) \subseteq 1 .. last
    BY <2>1 DEF Of, Counting
  <2>5. MarkedIsDone'
    BY <2>1 DEF LadderInv, MarkedIsDone
  <2>6. OnlyLatest'
    <3> SUFFICES ASSUME NEW k \in 1 .. last', NEW m \in 1 .. last', k < m,
                        tries'[k].tick = tries'[m].tick, rel[k].by = "none", rel[m].by = "none"
                 PROVE  Spent(k)
      BY <2>1 DEF OnlyLatest, Spent
    <3>1. CASE m \in 1 .. last
      <4>1. k \in 1 .. last
        BY <2>1, <2>2, <3>1
      <4> QED BY <2>1, <3>1, <4>1 DEF LadderInv, OnlyLatest
    <3>2. CASE m = n
      <4>1. k \in 1 .. last
        BY <2>1, <2>2, <3>2
      <4>2. k \in Of(t)
        BY <2>1, <3>2, <4>1 DEF Of
      <4> QED BY <2>1, <4>2 DEF LadderInv, PlaceSpent
    <3> QED BY <2>1, <3>1, <3>2
  <2>7. OneCeiling'
    <3>1. rel[n].step = "none"
      BY <2>1 DEF NoRel
    <3> QED BY <2>1, <3>1 DEF LadderInv, OneCeiling
  <2>8. RelSteps'
    <3>1. rel[n].step = "none" /\ rel[n].by = "none"
      BY <2>1 DEF NoRel
    <3> QED BY <2>1, <3>1 DEF LadderInv, RelSteps
  <2>9. CountsKept'
    <3> SUFFICES ASSUME NEW k \in 1 .. last', NEW u, u = tries'[k].tick, tries'[k].tier < Ceiling
                 PROVE  Cardinality({m \in Counting(u)' : m < k}) <= tries'[k].tier
      BY DEF CountsKept
    <3>1. CASE k \in 1 .. last
      <4>1. {m \in Counting(u)' : m < k} = {m \in Counting(u) : m < k}
        BY <2>2, <2>4, <3>1
      <4>2. tries'[k] = tries[k]
        BY <2>1, <3>1
      <4> QED BY <3>1, <4>1, <4>2 DEF LadderInv, CountsKept
    <3>2. CASE k = n
      <4>1. u = t
        BY <2>1, <3>2
      <4>2. {m \in Counting(u)' : m < k} = Counting(t)
        BY <2>2, <2>4, <3>2, <4>1
      <4>3. disp.failed \in Nat /\ Ceiling \in Nat
        BY ConstantsAssumption DEF IInv, TypeInv, DispOK
      <4>4. tries'[k].tier = disp.failed
        BY <2>3, <3>2, <4>3 DEF Tier
      <4> QED BY <2>1, <4>2, <4>4 DEF LadderInv, PlaceCounts
    <3> QED BY <2>1, <3>1, <3>2
  <2>10. PlaceSpent' /\ PlaceCounts'
    BY <2>1 DEF PlaceSpent, PlaceCounts
  <2> QED BY <2>5, <2>6, <2>7, <2>8, <2>9, <2>10 DEF LadderInv
<1> QED BY <1>1, <1>2

\* What starts never ran, so it is not marked, and it is the latest nobody released.
LEMMA StartJobLadder == ASSUME IInv, LadderInv, StartJob PROVE LadderInv'
<1> DEFINE n == disp.n
<1>1. /\ disp.at \in {"start", "restart"} /\ n \in 1 .. last /\ tries[n].tick = disp.tick
      /\ 1 .. last \subseteq Numbers /\ last \in Nat /\ \A k \in 1 .. last : k \in Nat
  <2>1. disp.at \in {"start", "restart"}
    BY DEF StartJob
  <2> QED BY <2>1, Shapes DEF IInv
<1>2. job[n] = "none" /\ rel[n].by = "none"
  BY <1>1 DEF IInv, Flight, Unstarted
<1>3. /\ UNCHANGED <<last, tries, rel, unaddressed>>
      /\ \A k \in Numbers \ {n} : job'[k] = job[k] /\ work'[k] = work[k]
      /\ disp'.at # "place"
  <2>1. /\ UNCHANGED <<last, tries, rel, unaddressed>>
        /\ job' = [job EXCEPT ![n] = "running"]
        /\ \E w : work' = [work EXCEPT ![n] = w]
        /\ disp' = [disp EXCEPT !.at = "note"] \/ disp' = NoDisp
    BY DEF StartJob, origin
  <2>2. /\ job \in [Numbers -> Jobs] /\ work \in [Numbers -> SUBSET {"local", "origin"}]
        /\ disp \in [at : DispSteps, tick : Tick, n : 0 .. last, failed : 0 .. MaxAttempt, carry : 0 .. last]
    BY DEF IInv, TypeInv, HostOK, DispOK
  <2>3. disp'.at # "place"
    BY <2>1, <2>2 DEF NoDisp
  <2> HIDE DEF n
  <2> QED BY <2>1, <2>2, <2>3
<1>4. MarkedIsDone'
  <2>1. n \notin unaddressed /\ unaddressed \subseteq 1 .. last
    BY <1>2 DEF LadderInv, MarkedIsDone, IInv, TypeInv, DoneOK
  <2> QED BY <1>1, <1>3, <2>1 DEF LadderInv, MarkedIsDone
<1>5. OnlyLatest'
  <2> SUFFICES ASSUME NEW k \in 1 .. last, NEW m \in 1 .. last, k < m,
                      tries[k].tick = tries[m].tick, rel[k].by = "none", rel[m].by = "none"
               PROVE  Spent(k)'
    BY <1>3 DEF OnlyLatest
  <2>1. k # n
    <3>1. disp.at = "restart" => k # n
      BY <1>1 DEF IInv, Flight, LaterReleased
    <3>2. disp.at = "start" => k # n
      BY <1>1 DEF IInv, Flight, NewIsLast
    <3> QED BY <1>1, <3>1, <3>2
  <2> QED BY <1>1, <1>3, <2>1 DEF LadderInv, OnlyLatest, Spent
<1>6. OneCeiling' /\ RelSteps' /\ CountsKept'
  BY <1>3 DEF LadderInv, OneCeiling, RelSteps, CountsKept, Counting, Of
<1>7. PlaceSpent' /\ PlaceCounts'
  BY <1>3 DEF PlaceSpent, PlaceCounts
<1> QED BY <1>4, <1>5, <1>6, <1>7 DEF LadderInv

LEMMA CollectSteady == ASSUME IInv, Collect PROVE Steady /\ NoNewPlacing
<1> DEFINE n == fin.n
<1>1. n \in 1 .. last /\ n \in Numbers
  BY Shapes DEF IInv, Collect
<1>2. /\ UNCHANGED <<last, tries, job, disp>> /\ unaddressed' \subseteq unaddressed
      /\ work' = work \/ work' = [work EXCEPT ![n] = IF "local" \in @ THEN @ \cup {"origin"} ELSE @]
  BY DEF Collect
<1>3. \A k \in Numbers : work'[k] # {} => work[k] # {}
  BY <1>1, <1>2 DEF IInv, TypeInv, HostOK
<1>4. PICK carry : \/ rel' = rel
                   \/ /\ rel' = [rel EXCEPT ![n] = RunRelease(n, carry)]
                      /\ rel[n].by = "none" /\ work[n] # {} /\ Disposes(n)
  BY DEF Collect, HeldCommit
<1>5. Steady
  BY <1>1, <1>2, <1>3, <1>4, OneReleaseIsSteady DEF IInv
<1> QED BY <1>2, <1>5 DEF NoNewPlacing

LEMMA ConflictSteady == ASSUME IInv, Conflict PROVE Steady /\ NoNewPlacing
<1> DEFINE n == fin.n
<1>1. n \in 1 .. last /\ n \in Numbers
  BY Shapes DEF IInv, Conflict
<1>2. UNCHANGED <<last, tries, job, work, disp, unaddressed>>
  BY DEF Conflict, host
<1>3. \/ rel' = rel
      \/ /\ rel' = [rel EXCEPT ![n] = RunRelease(n, TRUE)]
         /\ rel[n].by = "none" /\ work[n] # {} /\ Disposes(n)
  <2>1. HoldOnly(n, mem, ruled, "other", FALSE, FALSE) => rel' = rel
    BY HoldOnlyIs
  <2> QED BY <2>1 DEF Conflict, HeldCommit
<1>4. Steady
  BY <1>1, <1>2, <1>3, OneReleaseIsSteady DEF IInv
<1> QED BY <1>2, <1>4 DEF NoNewPlacing

\* holdOnly releases what it holds, where the ladder has a step for it.
LEMMA HoldOnlyReleases ==
    ASSUME NEW n, NEW rows, NEW known, NEW why, NEW held, NEW silent,
           HoldOnly(n, rows, known, why, held, silent)
    PROVE  \/ rel' = rel
           \/ held /\ rel[n] = NoRel /\ Disposes(n) /\ rel' = [rel EXCEPT ![n] = RunRelease(n, TRUE)]
BY DEF HoldOnly

LEMMA RejectSteady == ASSUME IInv, Reject PROVE Steady /\ NoNewPlacing
<1> DEFINE n == fin.n
           t == tries[n].tick
           rows == [mem EXCEPT ![t].state = "rejected"]
           known == IF fin.why = "boundary" THEN ruled ELSE Named(ruled, rows, {t}, {fin.why})
<1>1. n \in 1 .. last /\ n \in Numbers
  BY Shapes DEF IInv, Reject
<1>2. /\ UNCHANGED <<last, tries, work, disp, unaddressed>>
      /\ \E quits \in Quits({n}) : job' = TornDown({n}, quits)
      /\ \/ rel' = rel
         \/ HoldOnly(n, rows, known, fin.why, fin.why # "boundary" /\ HeldCommit(n),
                     fin.why = "missing" /\ job[n] = "failed" /\ work[n] = {})
  BY DEF Reject
<1>3. \/ rel' = rel
      \/ /\ rel' = [rel EXCEPT ![n] = RunRelease(n, TRUE)]
         /\ rel[n].by = "none" /\ work[n] # {} /\ Disposes(n)
  <2> DEFINE holds  == fin.why # "boundary" /\ HeldCommit(n)
             silent == fin.why = "missing" /\ job[n] = "failed" /\ work[n] = {}
  <2>1. rel' = rel \/ HoldOnly(n, rows, known, fin.why, holds, silent)
    BY <1>2
  <2>2. holds => work[n] # {}
    BY DEF HeldCommit
  <2>3. rel[n] = NoRel => rel[n].by = "none"
    BY DEF NoRel
  <2> HIDE DEF n, rows, known, holds, silent
  <2> QED BY <2>1, <2>2, <2>3, HoldOnlyReleases
<1>4. /\ \A k \in Numbers : (job'[k] = "none" <=> job[k] = "none")
      /\ \A k \in Numbers : job'[k] = "running" => job[k] = "running"
  <2>1. {n} \in SUBSET (1 .. last)
    BY <1>1
  <2>2. PICK quits \in Quits({n}) : job' = TornDown({n}, quits)
    BY <1>2
  <2> HIDE DEF n
  <2> QED BY <2>1, <2>2, TearsDown DEF IInv, TypeInv
<1>5. Steady
  BY <1>1, <1>2, <1>3, <1>4, OneReleaseIsSteady DEF IInv
<1> QED BY <1>2, <1>5 DEF NoNewPlacing

LEMMA StepsDown ==
    ASSUME NEW t, NEW rows, Stop(t, rows) \/ Down
    PROVE  disp'.at = "none"
BY DEF Stop, Down, NoDisp

\* The steps of the dispatch and of the window that release nothing.
LEMMA DispatchSteady ==
    ASSUME IInv, Adopt \/ Claim \/ DieStarting \/ Note
    PROVE  Steady /\ NoNewPlacing
<1>1. CASE Adopt
  <2> DEFINE n == disp.n
  <2>1. n \in 1 .. last
    BY <1>1, Shapes DEF IInv, Adopt
  <2>2. UNCHANGED <<last, tries, rel, job, work>>
    BY <1>1 DEF Adopt, origin, host
  <2>3. disp'.at # "place"
    <3>1. disp' = [disp EXCEPT !.at = "restart"] \/ disp' = NoDisp \/ Down
      BY <1>1 DEF Adopt, Stop
    <3>2. [disp EXCEPT !.at = "restart"].at = "restart"
      BY DEF IInv, TypeInv, DispOK
    <3>3. NoDisp.at = "none"
      BY DEF NoDisp
    <3>4. Down => disp'.at = "none"
      BY StepsDown
    <3> QED BY <3>1, <3>2, <3>3, <3>4
  <2>4. Steady
    BY <2>1, <2>2, UntouchedIsSteady
  <2> QED BY <2>3, <2>4 DEF NoNewPlacing
<1>2. CASE Claim
  <2>1. UNCHANGED <<last, tries, rel, job, work, unaddressed>>
    BY <1>2 DEF Claim, origin, host
  <2>2. disp'.at # "place"
    <3>1. disp' = [disp EXCEPT !.at = "start"] \/ Down
      BY <1>2 DEF Claim, Stop
    <3>2. [disp EXCEPT !.at = "start"].at = "start"
      BY DEF IInv, TypeInv, DispOK
    <3> QED BY <3>1, <3>2, StepsDown
  <2> QED BY <2>1, <2>2, UntouchedIsSteady DEF NoNewPlacing
<1>3. CASE DieStarting
  <2>1. UNCHANGED <<last, tries, rel, work, unaddressed>> /\ job' = [job EXCEPT ![disp.n] = "lost"] /\ Down
    BY <1>3 DEF DieStarting, origin
  <2>2. job \in [Numbers -> Jobs]
    BY DEF IInv, TypeInv, HostOK
  <2>3. \A n \in Numbers : job'[n] \in {"none", "running"} => job'[n] = job[n]
    BY <2>1, <2>2
  <2>4. Steady
    BY <2>1, <2>3 DEF Steady
  <2> QED BY <2>1, <2>4, StepsDown DEF NoNewPlacing
<1>4. CASE Note
  <2>1. UNCHANGED <<last, tries, rel, job, work, unaddressed>> /\ disp' = NoDisp
    BY <1>4 DEF Note, host
  <2> QED BY <2>1, UntouchedIsSteady DEF NoDisp, NoNewPlacing
<1> QED BY <1>1, <1>2, <1>3, <1>4

LEMMA WindowSteady ==
    ASSUME IInv,
           (\E n \in live : Poll(n) \/ Refuse(n)) \/ (\E n \in settled : BeginFinish(n))
    PROVE  Steady /\ NoNewPlacing
<1>1. UNCHANGED <<last, tries, rel, job, work, disp>>
  <2>1. ASSUME NEW n, Refuse(n) PROVE UNCHANGED <<last, tries, rel, job, work, disp>>
    BY <2>1, HoldOnlyIs DEF Refuse, host
  <2>2. ASSUME NEW n, Poll(n) \/ BeginFinish(n)
        PROVE  UNCHANGED <<last, tries, rel, job, work, disp>>
    BY <2>2 DEF Poll, BeginFinish, origin, host
  <2> QED BY <2>1, <2>2
<1> QED BY <1>1, UntouchedIsSteady DEF NoNewPlacing

\* The steps of the finish that release nothing.
LEMMA FinishSteady ==
    ASSUME IInv,
           \/ HeadMissing \/ ReleaseWorker \/ Merge \/ MergeNothing \/ GatePasses \/ GateFails \/ Close
    PROVE  Steady /\ NoNewPlacing
<1>1. /\ UNCHANGED <<last, tries, rel, work, unaddressed>>
      /\ disp' = disp \/ Down
  BY DEF HeadMissing, ReleaseWorker, Merge, MergeNothing, GatePasses, GateFails, Close, Stop, origin, host
<1>2. job' = job \/ \E ns \in SUBSET {fin.n} : \E quits \in Quits(ns) : job' = TornDown(ns, quits)
  <2>1. CASE HeadMissing \/ Merge \/ MergeNothing \/ GatePasses
    BY <2>1 DEF HeadMissing, Merge, MergeNothing, GatePasses, host
  <2>2. CASE ReleaseWorker \/ Close
    BY <2>2 DEF ReleaseWorker, Close
  <2>3. CASE GateFails
    BY <2>3 DEF GateFails
  <2> QED BY <2>1, <2>2, <2>3
<1>3. fin.n \in 1 .. last
  BY Shapes DEF IInv, HeadMissing, ReleaseWorker, Merge, MergeNothing, GatePasses, GateFails, Close
<1>4. Steady
  <2>1. CASE job' = job
    BY <1>1, <2>1, UntouchedIsSteady
  <2>2. ASSUME NEW ns \in SUBSET {fin.n}, \E quits \in Quits(ns) : job' = TornDown(ns, quits) PROVE Steady
    <3>1. ns \in SUBSET (1 .. last)
      BY <1>3
    <3> QED BY <1>1, <2>2, <3>1, TearDownIsSteady DEF IInv
  <2> QED BY <1>2, <2>1, <2>2
<1> QED BY <1>1, <1>4, StepsDown DEF NoNewPlacing

\* A worker leaves work only while it runs; a person releases one attempt.
LEMMA BesideSteady ==
    ASSUME IInv, NEW n \in Numbers,
           \/ WorkerCommits(n) \/ WorkerPushes(n) \/ WorkerEnds(n)
           \/ \E carry \in BOOLEAN : PersonSettles(n, carry)
    PROVE  Steady /\ NoNewPlacing
<1>1. UNCHANGED <<last, tries, disp, unaddressed>>
  BY DEF WorkerCommits, WorkerPushes, WorkerEnds, PersonSettles, origin, memory
<1>2. job \in [Numbers -> Jobs] /\ work \in [Numbers -> SUBSET {"local", "origin"}]
  BY DEF IInv, TypeInv, HostOK
<1>3. CASE WorkerCommits(n) \/ WorkerPushes(n)
  <2>1. /\ UNCHANGED <<rel, job>> /\ \E w : work' = [work EXCEPT ![n] = w]
        /\ job[n] = "running" \/ work[n] # {}
    BY <1>3 DEF WorkerCommits, WorkerPushes, origin
  <2>2. Steady
    BY <1>1, <1>2, <2>1 DEF Steady
  <2> QED BY <1>1, <2>2 DEF NoNewPlacing
<1>4. CASE WorkerEnds(n)
  <2>1. /\ UNCHANGED <<rel, work>>
        /\ \E how : job' = [job EXCEPT ![n] = how] /\ how \notin {"none", "running"}
    BY <1>4 DEF WorkerEnds, origin
  <2>2. \A k \in Numbers : job'[k] \in {"none", "running"} => job'[k] = job[k]
    BY <1>2, <2>1
  <2>3. Steady
    BY <1>1, <2>1, <2>2 DEF Steady
  <2> QED BY <1>1, <2>3 DEF NoNewPlacing
<1>5. ASSUME NEW carry, PersonSettles(n, carry) PROVE Steady /\ NoNewPlacing
  <2>1. /\ n <= last /\ rel[n].by = "none" /\ UNCHANGED work
        /\ rel' = [rel EXCEPT ![n] = [by |-> "person", carry |-> carry, step |-> "none"]]
        /\ \E quits \in Quits({n}) : job' = TornDown({n}, quits)
    BY <1>5 DEF PersonSettles
  <2> n \in 1 .. last
    BY <2>1, Shapes DEF IInv, Numbers
  <2>2. /\ \A k \in Numbers : (job'[k] = "none" <=> job[k] = "none")
        /\ \A k \in Numbers : job'[k] = "running" => job[k] = "running"
    <3>1. {n} \in SUBSET (1 .. last)
      BY <2>1
    <3> QED BY <2>1, <3>1, TearsDown DEF IInv, TypeInv
  <2>3. rel \in [Numbers -> RelShape] /\ 1 .. last \subseteq Numbers
    BY Shapes DEF IInv, TypeInv, RelOK
  <2>4. Steady
    BY <1>1, <2>1, <2>2, <2>3 DEF Steady
  <2> QED BY <1>1, <2>4 DEF NoNewPlacing
<1> QED BY <1>3, <1>4, <1>5

LEMMA StepsSteady ==
    ASSUME "wipe" \notin Events, IInv, [Next]_vars, ~ Place, ~ StartJob
    PROVE  Steady /\ (NoNewPlacing \/ \E t \in Ticks : Admit(t))
<1>1. CASE UNCHANGED vars
  <2>1. UNCHANGED <<last, tries, rel, job, work, disp, unaddressed>>
    BY <1>1 DEF vars, origin, host, memory
  <2> QED BY <2>1, UntouchedIsSteady DEF NoNewPlacing
<1>2. CASE Start \/ Crash \/ Wipe \/ End
  <2>1. /\ UNCHANGED <<last, tries, rel, job, work, unaddressed>>
        /\ disp' = disp \/ Down
    BY <1>2 DEF Start, Crash, Wipe, End, origin, host
  <2> QED BY <2>1, UntouchedIsSteady, StepsDown DEF NoNewPlacing
<1>3. CASE \E t \in Ticks : Admit(t) \/ \E denied \in SUBSET Of(t) : AdmitHeld(t, denied)
  BY <1>3, AdmitSteady, AdmitHeldSteady
<1>4. CASE Adopt \/ Claim \/ DieStarting \/ Note
  BY <1>4, DispatchSteady
<1>5. CASE (\E n \in live : Poll(n) \/ Refuse(n)) \/ \E n \in settled : BeginFinish(n)
  BY <1>5, WindowSteady
<1>6. CASE \/ Collect \/ HeadMissing \/ Reject \/ ReleaseWorker \/ Merge \/ MergeNothing \/ Conflict
           \/ GatePasses \/ GateFails \/ Close
  BY <1>6, CollectSteady, RejectSteady, ConflictSteady, FinishSteady
<1>7. CASE \E n \in Numbers : \/ WorkerCommits(n) \/ WorkerPushes(n) \/ WorkerEnds(n)
                              \/ \E carry \in BOOLEAN : PersonSettles(n, carry)
  BY <1>7, BesideSteady
<1> QED BY <1>1, <1>2, <1>3, <1>4, <1>5, <1>6, <1>7 DEF Next

\* Where no running job is given up, only what is lost is refused as unaddressed.
LEMMA StepsMark ==
    ASSUME "overdue" \notin Events, IInv, [Next]_vars
    PROVE  MarksDone
<1>1. CASE Adopt
  <2>1. disp.n \in 1 .. last
    BY <1>1, Shapes DEF IInv, Adopt
  <2>2. unaddressed' = unaddressed \/ (job[disp.n] = "lost" /\ unaddressed' = unaddressed \cup {disp.n})
    BY <1>1 DEF Adopt
  <2> QED BY <2>1, <2>2 DEF MarksDone
<1>2. ASSUME NEW n \in live, Refuse(n) PROVE MarksDone
  <2>1. n \in 1 .. last /\ job[n] = "lost" /\ unaddressed' = unaddressed \cup {n}
    BY <1>2, Shapes DEF IInv, Refuse
  <2> QED BY <2>1 DEF MarksDone
<1>3. CASE Collect
  <2>1. unaddressed' \subseteq unaddressed
    BY <1>3 DEF Collect
  <2> QED BY <2>1 DEF MarksDone
<1>4. CASE unaddressed' = unaddressed
  BY <1>4 DEF MarksDone
<1>5. Next => Adopt \/ Collect \/ (\E n \in live : Refuse(n)) \/ unaddressed' = unaddressed
  BY DEF Next, Start, Crash, Wipe, End, Admit, AdmitHeld, Place, Claim, StartJob, DieStarting, Note, Poll,
         BeginFinish, HeadMissing, Reject, ReleaseWorker, Merge, MergeNothing, Conflict, GatePasses,
         GateFails, Close, WorkerCommits, WorkerPushes, WorkerEnds, PersonSettles
<1> QED BY <1>1, <1>2, <1>3, <1>4, <1>5 DEF vars

LEMMA LadderStep ==
    ASSUME KeptHosts, IInv, LadderInv, [Next]_vars
    PROVE  LadderInv'
<1>1. MarksDone
  BY StepsMark DEF KeptHosts
<1>2. Place \/ StartJob \/ (Steady /\ (NoNewPlacing \/ \E t \in Ticks : Admit(t)))
  BY StepsSteady DEF KeptHosts
<1> QED BY <1>1, <1>2, SteadyOn, PlaceLadder, StartJobLadder, AdmitLadder

LEMMA LadderInit == Init => LadderInv
<1> SUFFICES ASSUME Init PROVE LadderInv
  OBVIOUS
<1>1. last = 0 /\ unaddressed = {} /\ disp.at = "none"
  BY DEF Init, NoDisp
<1>2. 1 .. last = {}
  BY <1>1
<1> QED BY <1>1, <1>2 DEF LadderInv, MarkedIsDone, OnlyLatest, PlaceSpent, OneCeiling, RelSteps,
                          CountsKept, PlaceCounts

\* The ladder has Ceiling tiers to go up to: the latest try that went up one was
\* placed on a tier that counts every earlier one.
LEMMA LadderHolds == IInv /\ LadderInv => LadderIsBounded
<1> SUFFICES ASSUME IInv, LadderInv, NEW t \in Ticks
             PROVE  Cardinality({n \in Of(t) : rel[n].by = "run"}) <= Ceiling + 1
  BY DEF LadderIsBounded
<1> DEFINE runs == {n \in Of(t) : rel[n].by = "run"}
           up   == {n \in runs : rel[n].step = "escalate"}
           top  == {n \in runs : rel[n].step = "ceiling"}
<1>1. /\ last \in Nat /\ \A n \in 1 .. last : n \in Nat
      /\ Ceiling \in Nat /\ runs \subseteq 1 .. last
  BY Shapes, ConstantsAssumption DEF IInv, Of
<1>2. runs = up \cup top
  <2>1. \A n \in 1 .. last : rel[n].step \in {"none", "escalate", "ceiling"}
    BY Shapes DEF IInv, TypeInv, RelOK, RelShape
  <2> QED BY <1>1, <2>1 DEF LadderInv, RelSteps
<1>3. /\ IsFiniteSet(up) /\ IsFiniteSet(top) /\ IsFiniteSet(runs)
      /\ Cardinality(up) \in Nat /\ Cardinality(top) \in Nat /\ Cardinality(runs) \in Nat
  <2>1. up \subseteq runs /\ top \subseteq runs
    OBVIOUS
  <2> HIDE DEF runs, up, top
  <2> QED BY <1>1, <2>1, CountedIn DEF IInv
<1>4. Cardinality(top) <= 1
  <2>1. \A m, n \in top : m = n
    BY <1>1 DEF LadderInv, OneCeiling, Of
  <2> HIDE DEF top
  <2>2. CASE top = {}
    BY <2>2, FS_EmptySet
  <2>3. CASE top # {}
    <3>1. PICK n : top = {n}
      BY <2>1, <2>3
    <3>2. Cardinality({n}) = 1
      BY FS_Singleton
    <3> QED BY <3>1, <3>2
  <2> QED BY <2>2, <2>3
<1>5. Cardinality(up) <= Ceiling
  <2>1. CASE up = {}
    BY <1>1, <2>1, FS_EmptySet
  <2>2. CASE up # {}
    <3> DEFINE k    == Max(up)
               seen == {m \in Counting(t) : m < k}
    <3>1. k \in up /\ \A n \in up : n <= k
      <4>1. up \in SUBSET (0 .. last)
        BY <1>1
      <4> HIDE DEF up
      <4> QED BY <1>1, <2>2, <4>1, Latest
    <3> HIDE DEF k
    <3>2. k \in 1 .. last /\ tries[k].tick = t /\ rel[k].step = "escalate" /\ k \in Nat
      BY <1>1, <3>1 DEF Of
    <3>3. tries[k].tier \in Nat /\ tries[k].tier < Ceiling /\ Cardinality(seen) <= tries[k].tier
      BY <3>2, Shapes DEF LadderInv, RelSteps, CountsKept, IInv, TypeInv, TriesOK, TryShape
    <3>4. up \ {k} \subseteq seen /\ seen \subseteq 1 .. last
      <4>1. ASSUME NEW n \in up, n # k PROVE n \in seen
        <5>1. n \in Of(t) /\ rel[n].by = "run" /\ n \in Nat /\ n <= k
          BY <1>1, <3>1, <4>1
        <5>2. n < k
          BY <3>2, <4>1, <5>1
        <5> QED BY <5>1, <5>2 DEF Counting
      <4> QED BY <4>1 DEF Counting, Of
    <3> HIDE DEF seen, up
    <3>5. Cardinality(up \ {k}) <= Cardinality(seen) /\ Cardinality(seen) \in Nat
      BY <3>4, CountedIn DEF IInv
    <3>6. Cardinality(up \ {k}) = Cardinality(up) - 1
      BY <1>3, <3>1, FS_RemoveElement
    <3> QED BY <1>1, <1>3, <3>3, <3>5, <3>6
  <2> QED BY <2>1, <2>2
<1>6. Cardinality(runs) <= Cardinality(up) + Cardinality(top)
  <2>1. up \cap top = {}
    OBVIOUS
  <2> HIDE DEF runs, up, top
  <2>2. Cardinality(up \cup top) = Cardinality(up) + Cardinality(top) - Cardinality(up \cap top)
    BY <1>3, FS_Union
  <2> QED BY <1>2, <1>3, <2>1, <2>2, FS_EmptySet
<1> HIDE DEF runs, up, top
<1>7. Cardinality(runs) <= Ceiling + 1
  BY <1>1, <1>3, <1>4, <1>5, <1>6
<1> QED BY <1>7 DEF runs

\* The run's own releases of a tick are bounded by its ladder (dispatch.go,
\* runDispose and deriveTier), over every restart, where hosts are kept and no
\* running job is given up: one release a tier, and one at the ceiling.
THEOREM LadderBounds ==
    ASSUME KeptHosts
    PROVE  Spec => []LadderIsBounded
<1>1. IInv /\ LadderInv /\ [Next]_vars => LadderInv'
  BY LadderStep
<1> QED BY <1>1, LadderInit, LadderHolds, Invariance, PTL DEF Spec

-----------------------------------------------------------------------------
(* The recorded verdict.  The run releases by itself what it rejects for the *)
(* first time, and on its walk what a rejected row holds and the ladder has  *)
(* a step for.  Neither meets an attempt that was judged: it would be judged *)
(* ready again, and a row of its tick is rejected only when it was merged,   *)
(* or its conflict found no step left.                                       *)

Recorded == Events \cap {"wipe", "decision"} = {}

LetGo      == {"lingering", "reported", "cancelled"}
Reached(n) == n \in settled \/ Ending(n)
\* What an attempt holds is merged, or it was judged over what it only delivers.
Merged(n)  == n \in merged \/ (n \in judged /\ work[n] = {})

\* What was judged has ended, and would be judged the same.
JudgedReady ==
    \A n \in judged : /\ job[n] \in LetGo
                      /\ work[n] # {} \/ Carries(n)
                      /\ ~ (work[n] # {} /\ n \in stray)
                      /\ tries[n].under \cap stray = {}
\* What an attempt carries on from was released.
Unreleased    == \A n \in 1 .. last : rel[n].by = "none" => rel[n] = NoRel
UnderReleased == \A n \in 1 .. last : \A m \in tries[n].under : rel[m].by # "none"
CarryReleased == disp.at = "place" /\ disp.carry # 0 => rel[disp.carry].by # "none"
\* What is at its finish has ended, or was found merged.
EndedJobs    == \A n \in 1 .. last : Reached(n) /\ n \notin bare => job[n] \in Terminal
BareIsMerged == \A n \in bare : Reached(n) /\ Merged(n)
\* What only delivers was judged and has no work of its own.
DeliveredNothing == \A n \in delivered : n \in judged /\ work[n] = {}
FinKnows ==
    /\ fin.at = "reject" => fin.n \notin judged
    /\ fin.at \in {"release", "merge"} => fin.n \in judged /\ (fin.head # fin.n => work[fin.n] = {})
    /\ fin.at \in {"gate", "close"} => Merged(fin.n)
\* After the attempt at hand every one of its tick was released, unless it was
\* found merged.
LaterGone ==
    \A m, n \in 1 .. last :
        AtHand(m) /\ m \notin bare /\ m < n /\ tries[m].tick = tries[n].tick => rel[n].by # "none"
\* A judged attempt that still holds its work is the latest of its tick, none is
\* at hand beside it, and none is about to be placed.
JudgedLatest ==
    \A m \in judged : \A n \in 1 .. last :
        /\ m < n /\ tries[m].tick = tries[n].tick
        /\ rel[m].by = "none" /\ rel[n].by = "none"
        => ~ HeldCommit(m)
OthersJudged ==
    \A m \in judged : \A n \in 1 .. last :
        AtHand(n) /\ m # n /\ tries[m].tick = tries[n].tick /\ rel[m].by = "none" => ~ HeldCommit(m)
PlaceJudged ==
    disp.at = "place" => \A m \in judged :
        tries[m].tick = disp.tick /\ rel[m].by = "none" => ~ HeldCommit(m)
\* A judged attempt that a rejected row holds has no step of the ladder left.
JudgedHeld ==
    \A m \in judged :
        /\ rel[m].by = "none" /\ HeldCommit(m)
        /\ mem[tries[m].tick].state = "rejected" \/ row[tries[m].tick].state = "rejected"
        => ~ Disposes(m)

StandInv == /\ JudgedReady /\ Unreleased /\ UnderReleased /\ CarryReleased /\ EndedJobs /\ BareIsMerged
            /\ DeliveredNothing /\ FinKnows
            /\ LaterGone /\ JudgedLatest /\ OthersJudged /\ PlaceJudged /\ JudgedHeld

-----------------------------------------------------------------------------
(* Steps that forget nothing of the jobs and the work. *)

Firm ==
    /\ UNCHANGED <<last, tries>>
    /\ merged \subseteq merged'
    /\ stray' \subseteq stray \cup {n \in Numbers : job[n] = "running"}
    /\ \A n \in Numbers : /\ job[n] \in Terminal => job'[n] \in Terminal
                          /\ job[n] \in LetGo => job'[n] \in LetGo
                          /\ work[n] # {} => work'[n] # {}
                          /\ work'[n] # {} => work[n] # {} \/ job[n] = "running"

\* What was judged does not run.
LEMMA JudgedIsStill ==
    ASSUME IInv, StandInv
    PROVE  /\ judged \subseteq 1 .. last /\ judged \subseteq Numbers /\ 1 .. last \subseteq Numbers
           /\ \A n \in judged : job[n] # "running" /\ job[n] # "none" /\ job[n] # "lost"
<1>1. judged \subseteq 1 .. last /\ 1 .. last \subseteq Numbers
  BY Shapes DEF IInv, TypeInv, DoneOK
<1>2. \A n \in judged : job[n] # "running" /\ job[n] # "none" /\ job[n] # "lost"
  BY DEF StandInv, JudgedReady, LetGo
<1> QED BY <1>1, <1>2

\* What holds nothing unmerged goes on so.
LEMMA MergedOn ==
    ASSUME IInv, StandInv, Firm, judged \subseteq judged'
    PROVE  /\ \A n : Merged(n) => Merged(n)'
           /\ \A n \in judged : HeldCommit(n)' => HeldCommit(n)
<1>1. \A n \in judged : n \in Numbers /\ job[n] # "running"
  BY JudgedIsStill
<1>2. \A n \in judged : work'[n] # {} => work[n] # {}
  BY <1>1 DEF Firm
<1> QED BY <1>2 DEF Merged, HeldCommit, Firm

LEMMA MergedHolds ==
    ASSUME NEW n, Merged(n)
    PROVE  ~ HeldCommit(n)
BY DEF Merged, HeldCommit

LEMMA ReadyOn ==
    ASSUME IInv, StandInv, Firm
    PROVE  \A n \in judged : /\ job'[n] \in LetGo
                             /\ work'[n] # {} \/ Carries(n)'
                             /\ ~ (work'[n] # {} /\ n \in stray')
                             /\ tries'[n].under \cap stray' = {}
<1> SUFFICES ASSUME NEW n \in judged
             PROVE  /\ job'[n] \in LetGo
                    /\ work'[n] # {} \/ Carries(n)'
                    /\ ~ (work'[n] # {} /\ n \in stray')
                    /\ tries'[n].under \cap stray' = {}
  OBVIOUS
<1>1. n \in 1 .. last /\ n \in Numbers /\ job[n] # "running" /\ tries' = tries
  BY JudgedIsStill DEF Firm
<1>2. job'[n] \in LetGo /\ (work'[n] # {} \/ Carries(n)')
  BY <1>1 DEF StandInv, JudgedReady, Firm, Carries
<1>3. ~ (work'[n] # {} /\ n \in stray')
  BY <1>1 DEF StandInv, JudgedReady, Firm
<1>4. ASSUME NEW m \in tries[n].under PROVE m \notin stray'
  <2>1. m \in 1 .. last /\ m \in Numbers /\ rel[m].by # "none"
    BY <1>1, JudgedIsStill DEF StandInv, UnderReleased, IInv, TypeInv, TriesOK
  <2>2. job[m] # "running"
    BY <2>1 DEF IInv, World, ReleasedIsStill
  <2> QED BY <1>1, <2>2 DEF StandInv, JudgedReady, Firm
<1> QED BY <1>1, <1>2, <1>3, <1>4

LEMMA ReleasedOn ==
    ASSUME IInv, StandInv, Steady
    PROVE  Unreleased' /\ UnderReleased' /\ (NoNewPlacing => CarryReleased')
<1>1. last' = last /\ tries' = tries /\ \A n \in 1 .. last : tries[n].under \subseteq 1 .. last
  BY DEF Steady, IInv, TypeInv, TriesOK
<1>2. \A n \in 1 .. last : /\ rel[n].by # "none" => rel'[n].by # "none"
                           /\ rel'[n].by = "none" => rel'[n] = rel[n]
  BY DEF Steady
<1>3. Unreleased'
  BY <1>1, <1>2 DEF StandInv, Unreleased
<1>4. UnderReleased'
  BY <1>1, <1>2 DEF StandInv, UnderReleased
<1>5. ASSUME NoNewPlacing PROVE CarryReleased'
  <2>1. disp.carry \in 0 .. last /\ (disp.carry # 0 => disp.carry \in 1 .. last)
    BY Shapes DEF IInv, TypeInv, DispOK
  <2> QED BY <1>2, <1>5, <2>1 DEF StandInv, CarryReleased, NoNewPlacing
<1> QED BY <1>3, <1>4, <1>5

\* What comes to its finish had ended, or was found merged; what was found merged
\* is at its finish until that ends.
Arrives ==
    /\ \A n \in 1 .. last : Reached(n)' /\ n \notin bare' =>
           (Reached(n) /\ n \notin bare) \/ job[n] \in Terminal
    /\ bare' \subseteq 1 .. last
    /\ \A n \in bare' : Reached(n)' /\ (n \in bare \/ Merged(n))

\* Where none is newly found merged, only who has ended comes to the finish.
LEMMA EndedArrive ==
    ASSUME IInv, StandInv, bare' = bare, \A n : Reached(n) => Reached(n)',
           \A n : Reached(n)' => Reached(n) \/ job[n] \in Terminal
    PROVE  Arrives
<1>1. bare \subseteq 1 .. last
  BY DEF IInv, TypeInv, WindowOK
<1>2. \A n \in bare : Reached(n)
  BY DEF StandInv, BareIsMerged
<1> QED BY <1>1, <1>2 DEF Arrives

LEMMA ArrivalsOn ==
    ASSUME IInv, StandInv, Firm, Arrives, judged \subseteq judged'
    PROVE  EndedJobs' /\ BareIsMerged'
<1>1. last' = last /\ 1 .. last \subseteq Numbers /\ bare \subseteq 1 .. last
  BY Shapes DEF Firm, IInv, TypeInv, WindowOK
<1>2. EndedJobs'
  BY <1>1 DEF EndedJobs, StandInv, Arrives, Firm
<1>3. BareIsMerged'
  <2> SUFFICES ASSUME NEW n \in bare' PROVE Reached(n)' /\ Merged(n)'
    BY DEF BareIsMerged
  <2>1. Reached(n)' /\ Merged(n)
    BY DEF Arrives, StandInv, BareIsMerged
  <2> QED BY <2>1, MergedOn
<1> QED BY <1>2, <1>3

\* What only delivers.
LEMMA DeliveredOn ==
    ASSUME IInv, StandInv, Firm, judged \subseteq judged',
           delivered' \subseteq delivered \cup {n \in judged : work[n] = {}}
    PROVE  DeliveredNothing'
<1> SUFFICES ASSUME NEW n \in delivered' PROVE n \in judged' /\ work'[n] = {}
  BY DEF DeliveredNothing
<1>1. n \in judged /\ work[n] = {}
  BY DEF StandInv, DeliveredNothing
<1> QED BY <1>1, JudgedIsStill DEF Firm

\* A finish that ends, begins, or goes on with what it was found to be.
FinGoesOn ==
    \/ fin'.at \in {"none", "collect"}
    \/ fin' = fin
    \/ /\ fin'.n = fin.n /\ fin'.head = fin.head
       /\ \/ fin.at = "release" /\ fin'.at = "merge"
          \/ fin.at = "gate" /\ fin'.at = "close"

LEMMA FinOn ==
    ASSUME IInv, StandInv, Firm, judged' = judged, FinGoesOn
    PROVE  FinKnows'
<1>1. CASE fin'.at \in {"none", "collect"}
  BY <1>1 DEF FinKnows
<1>2. CASE ~ fin'.at \in {"none", "collect"}
  <2>1. /\ fin.at # "none" /\ fin'.n = fin.n /\ fin'.head = fin.head
        /\ fin'.at = "reject" => fin.at = "reject"
        /\ fin'.at \in {"release", "merge"} => fin.at \in {"release", "merge"}
        /\ fin'.at \in {"gate", "close"} => fin.at \in {"gate", "close"}
    BY <1>2 DEF FinGoesOn
  <2>2. fin.n \in 1 .. last /\ fin.n \in Numbers /\ Reached(fin.n)
    BY <2>1, Shapes DEF IInv, Reached, Ending
  <2>3. fin.n \in judged => job[fin.n] # "running"
    BY JudgedIsStill
  <2>4. fin'.at = "reject" => fin'.n \notin judged'
    BY <2>1 DEF StandInv, FinKnows
  <2>5. fin'.at \in {"release", "merge"} => fin'.n \in judged' /\ (fin'.head # fin'.n => work'[fin'.n] = {})
    BY <2>1, <2>2, <2>3 DEF StandInv, FinKnows, Firm
  <2>6. fin'.at \in {"gate", "close"} => Merged(fin.n)'
    BY <2>1, MergedOn DEF StandInv, FinKnows
  <2> QED BY <2>1, <2>4, <2>5, <2>6 DEF FinKnows, Merged
<1> QED BY <1>1, <1>2

\* Nothing new is taken in hand, and what was found merged is known as such
\* while it is.
HandsOn == \A n : AtHand(n)' => AtHand(n) /\ (n \in bare => n \in bare')

LEMMA GoneOn ==
    ASSUME IInv, StandInv, Steady, HandsOn
    PROVE  LaterGone'
<1>1. last' = last /\ tries' = tries
  BY DEF Steady
<1>2. \A m \in 1 .. last : rel'[m].by = "none" => rel[m].by = "none"
  BY DEF Steady
<1> QED BY <1>1, <1>2 DEF StandInv, LaterGone, HandsOn

\* Of what was judged before.
LEMMA OthersOn ==
    ASSUME IInv, StandInv, Firm, Steady, judged \subseteq judged'
    PROVE  /\ \A m \in judged : \A n \in 1 .. last :
                  /\ m < n /\ tries[m].tick = tries[n].tick
                  /\ rel'[m].by = "none" /\ rel'[n].by = "none"
                  => ~ HeldCommit(m)'
           /\ HandsOn => \A m \in judged : \A n \in 1 .. last :
                  AtHand(n)' /\ m # n /\ tries[m].tick = tries[n].tick /\ rel'[m].by = "none"
                  => ~ HeldCommit(m)'
           /\ NoNewPlacing /\ disp'.at = "place" => \A m \in judged :
                  tries[m].tick = disp.tick /\ rel'[m].by = "none" => ~ HeldCommit(m)'
<1>1. \A m \in judged : /\ HeldCommit(m)' => HeldCommit(m)
                        /\ m \in 1 .. last
  BY MergedOn, JudgedIsStill
<1>2. \A m \in 1 .. last : rel'[m].by = "none" => rel[m].by = "none"
  BY DEF Steady
<1>3. \A m \in judged : \A n \in 1 .. last :
          /\ m < n /\ tries[m].tick = tries[n].tick
          /\ rel'[m].by = "none" /\ rel'[n].by = "none"
          => ~ HeldCommit(m)'
  BY <1>1, <1>2 DEF StandInv, JudgedLatest
<1>4. ASSUME HandsOn, NEW m \in judged, NEW n \in 1 .. last, AtHand(n)', m # n,
             tries[m].tick = tries[n].tick, rel'[m].by = "none"
      PROVE  ~ HeldCommit(m)'
  <2>1. AtHand(n)
    BY <1>4 DEF HandsOn
  <2> QED BY <1>1, <1>2, <1>4, <2>1 DEF StandInv, OthersJudged
<1>5. ASSUME NoNewPlacing, disp'.at = "place", NEW m \in judged, tries[m].tick = disp.tick, rel'[m].by = "none"
      PROVE  ~ HeldCommit(m)'
  <2>1. disp.at = "place"
    BY <1>5 DEF NoNewPlacing
  <2> QED BY <1>1, <1>2, <1>5, <2>1 DEF StandInv, PlaceJudged
<1> QED BY <1>3, <1>4, <1>5

\* Where nothing is judged.
LEMMA OthersStand ==
    ASSUME IInv, StandInv, Firm, Steady, HandsOn, NoNewPlacing, judged' = judged
    PROVE  LaterGone' /\ JudgedLatest' /\ OthersJudged' /\ PlaceJudged'
<1>1. last' = last /\ tries' = tries
  BY DEF Steady
<1>2. LaterGone'
  BY GoneOn
<1>3. JudgedLatest' /\ OthersJudged'
  BY <1>1, OthersOn DEF JudgedLatest, OthersJudged
<1>4. PlaceJudged'
  BY <1>1, OthersOn DEF PlaceJudged, NoNewPlacing
<1> QED BY <1>2, <1>3, <1>4

\* No step gives back a step of the ladder.
LEMMA DisposesLess ==
    ASSUME IInv, StandInv, Steady, NEW n \in 1 .. last, Disposes(n)'
    PROVE  Disposes(n)
<1>1. last' = last /\ tries' = tries
  BY DEF Steady
<1>2. Escalates(n)' => Escalates(n)
  BY <1>1 DEF Escalates, Try, Of, Tier
<1>3. \A m \in 1 .. last : rel'[m].step # "ceiling" => rel[m].step # "ceiling"
  <2>1. NoRel.step = "none"
    BY DEF NoRel
  <2> QED BY <2>1 DEF Steady, StandInv, Unreleased
<1> QED BY <1>1, <1>2, <1>3 DEF Disposes, Of

\* A row that is rejected now was, or holds nothing judged that the run could release.
RowsJudged ==
    \A m \in judged :
        /\ rel'[m].by = "none" /\ HeldCommit(m)
        /\ mem'[tries[m].tick].state = "rejected" \/ row'[tries[m].tick].state = "rejected"
        => \/ mem[tries[m].tick].state = "rejected" \/ row[tries[m].tick].state = "rejected"
           \/ ~ Disposes(m)

LEMMA HeldOn ==
    ASSUME IInv, StandInv, Firm, Steady, RowsJudged
    PROVE  \A m \in judged :
               /\ rel'[m].by = "none" /\ HeldCommit(m)'
               /\ mem'[tries[m].tick].state = "rejected" \/ row'[tries[m].tick].state = "rejected"
               => ~ Disposes(m)'
<1> SUFFICES ASSUME NEW m \in judged, rel'[m].by = "none", HeldCommit(m)',
                    mem'[tries[m].tick].state = "rejected" \/ row'[tries[m].tick].state = "rejected"
             PROVE  ~ Disposes(m)'
  OBVIOUS
<1>1. m \in 1 .. last /\ m \in Numbers /\ job[m] # "running"
  BY JudgedIsStill
<1>2. HeldCommit(m)
  BY <1>1 DEF HeldCommit, Firm
<1>3. rel[m].by = "none"
  BY <1>1 DEF Steady
<1>4. ~ Disposes(m)
  BY <1>2, <1>3 DEF RowsJudged, StandInv, JudgedHeld
<1> QED BY <1>1, <1>4, DisposesLess

\* A step that judges nothing, and takes nothing new in hand.
LEMMA StandsOn ==
    ASSUME IInv, StandInv, Firm, Steady, NoNewPlacing, RowsJudged, judged' = judged,
           delivered' \subseteq delivered \cup {n \in judged : work[n] = {}},
           Arrives, FinGoesOn, HandsOn
    PROVE  StandInv'
<1>1. JudgedReady'
  BY ReadyOn DEF JudgedReady
<1>2. JudgedHeld'
  BY HeldOn DEF JudgedHeld, Steady
<1> QED BY <1>1, <1>2, ReleasedOn, ArrivalsOn, DeliveredOn, FinOn, OthersStand DEF StandInv

\* A step that ends the process.
LEMMA StandsDown ==
    ASSUME IInv, StandInv, Firm, Steady, RowsJudged, Down, UNCHANGED <<judged, delivered>>
    PROVE  StandInv'
<1>1. live' = {} /\ settled' = {} /\ bare' = {} /\ disp'.at = "none" /\ fin'.at = "none"
  BY DEF Down, NoDisp, NoFin
<1>2. NoNewPlacing /\ FinGoesOn
  BY <1>1 DEF NoNewPlacing, FinGoesOn
<1>3. \A n : ~ AtHand(n)' /\ ~ Reached(n)'
  BY <1>1 DEF AtHand, Reached, Ending, Held
<1>4. Arrives
  BY <1>1, <1>3 DEF Arrives
<1>5. HandsOn
  BY <1>3 DEF HandsOn
<1> QED BY <1>2, <1>4, <1>5, StandsOn
-----------------------------------------------------------------------------
(* What a step does to the jobs, and to the rows. *)

LEMMA UntouchedIsFirm ==
    ASSUME UNCHANGED <<last, tries, job, work, stray>>, merged \subseteq merged'
    PROVE  Firm
BY DEF Firm

LEMMA TearDownIsFirm ==
    ASSUME TypeInv, NEW ns \in SUBSET (1 .. last), \E quits \in Quits(ns) : job' = TornDown(ns, quits),
           UNCHANGED <<last, tries, work, stray>>, merged \subseteq merged'
    PROVE  Firm
<1>1. PICK quits \in Quits(ns) : job' = TornDown(ns, quits)
  OBVIOUS
<1>2. \A n \in Numbers : /\ job[n] \in Terminal => job'[n] \in Terminal
                         /\ job[n] \in LetGo => job'[n] \in LetGo
  BY <1>1 DEF TornDown, Terminal, LetGo, Alive
<1> QED BY <1>2 DEF Firm

\* Where rows come to be rejected only from the other copy of the row.
LEMMA RowsFrom ==
    ASSUME IInv, StandInv,
           \A u \in Ticks : mem'[u].state = "rejected" \/ row'[u].state = "rejected" =>
               mem[u].state = "rejected" \/ row[u].state = "rejected"
    PROVE  RowsJudged
<1>1. \A m \in judged : tries[m].tick \in Ticks
  BY JudgedIsStill, Shapes DEF IInv
<1> QED BY <1>1 DEF RowsJudged

\* Where the row of an attempt at hand is rejected: no other of its tick holds work.
LEMMA RowsOfOne ==
    ASSUME IInv, StandInv, Steady, NEW n \in 1 .. last, AtHand(n),
           \A u \in Ticks \ {tries[n].tick} : mem'[u].state = "rejected" \/ row'[u].state = "rejected" =>
               mem[u].state = "rejected" \/ row[u].state = "rejected",
           n \in judged /\ rel'[n].by = "none" /\ HeldCommit(n) => ~ Disposes(n)
    PROVE  RowsJudged
<1> SUFFICES ASSUME NEW m \in judged, rel'[m].by = "none", HeldCommit(m),
                    mem'[tries[m].tick].state = "rejected" \/ row'[tries[m].tick].state = "rejected"
             PROVE  \/ mem[tries[m].tick].state = "rejected" \/ row[tries[m].tick].state = "rejected"
                    \/ ~ Disposes(m)
  BY DEF RowsJudged
<1>1. m \in 1 .. last /\ tries[m].tick \in Ticks
  BY JudgedIsStill, Shapes DEF IInv
<1>2. CASE tries[m].tick # tries[n].tick
  BY <1>1, <1>2
<1>3. CASE tries[m].tick = tries[n].tick /\ m # n
  <2>1. rel[m].by = "none"
    BY <1>1 DEF Steady
  <2> QED BY <1>1, <1>3, <2>1 DEF StandInv, OthersJudged
<1>4. CASE m = n
  BY <1>4
<1> QED BY <1>2, <1>3, <1>4

\* A refusal of an attempt at hand that stops the run.
LEMMA StopsOne ==
    ASSUME IInv, StandInv, Firm, Steady, NEW n \in 1 .. last, AtHand(n),
           Stop(tries[n].tick, [mem EXCEPT ![tries[n].tick].state = "rejected"]),
           n \in judged /\ rel'[n].by = "none" /\ HeldCommit(n) => ~ Disposes(n),
           UNCHANGED <<judged, delivered>>
    PROVE  StandInv'
<1> DEFINE t    == tries[n].tick
           rows == [mem EXCEPT ![t].state = "rejected"]
<1>1. t \in Ticks /\ mem \in Rows
  BY Shapes DEF IInv
<1>2. row' = rows /\ mem' = rows /\ Down
  BY DEF Stop, Down
<1> HIDE DEF rows, t
<1>3. \A u \in Ticks \ {t} : rows[u] = mem[u]
  BY <1>1, RowIs DEF rows
<1>4. RowsJudged
  BY <1>2, <1>3, RowsOfOne DEF t
<1> QED BY <1>2, <1>4, StandsDown

\* A refusal that leaves the row open.
LEMMA StopsOpen ==
    ASSUME IInv, StandInv, Firm, Steady, NEW t \in Ticks, NEW rows, Stop(t, rows),
           \A u \in Ticks : rows[u].state = "rejected" => mem[u].state = "rejected",
           UNCHANGED <<judged, delivered>>
    PROVE  StandInv'
<1>1. row' = rows /\ mem' = rows /\ Down
  BY DEF Stop, Down
<1>2. RowsJudged
  BY <1>1, RowsFrom
<1> QED BY <1>1, <1>2, StandsDown

-----------------------------------------------------------------------------
(* Every step. *)

\* Crash, Start and End, the checkpoint of a dispatch, a job polled and a finish begun.
LEMMA RunStands ==
    ASSUME Recorded, IInv, StandInv, Start \/ Crash \/ Wipe \/ End
    PROVE  StandInv'
<1>1. /\ UNCHANGED <<last, tries, rel, job, work, stray, judged, merged, delivered, unaddressed>>
      /\ row' \in {row, mem}
  BY DEF Start, Crash, Wipe, End, origin, host, Recorded
<1>2. Firm /\ Steady
  BY <1>1, UntouchedIsFirm, UntouchedIsSteady
<1>3. CASE Start
  <2>1. mem' = row /\ row' = row /\ UNCHANGED <<live, settled, bare, disp, fin>>
    BY <1>3 DEF Start, origin
  <2>2. NoNewPlacing /\ FinGoesOn /\ HandsOn /\ \A n : Reached(n)' <=> Reached(n)
    BY <2>1 DEF NoNewPlacing, FinGoesOn, HandsOn, AtHand, Reached, Ending, Held
  <2>3. Arrives
    BY <2>1, <2>2, EndedArrive
  <2>4. RowsJudged
    BY <2>1, RowsFrom
  <2> QED BY <1>1, <1>2, <2>2, <2>3, <2>4, StandsOn
<1>4. CASE Crash \/ Wipe \/ End
  <2>1. Down
    BY <1>4 DEF Crash, Wipe, End
  <2>2. RowsJudged
    BY <1>1, <2>1, RowsFrom DEF Down
  <2> QED BY <1>1, <1>2, <2>1, <2>2, StandsDown
<1> QED BY <1>3, <1>4

LEMMA AdmitHeldStands ==
    ASSUME IInv, StandInv, NEW t \in Ticks, NEW denied, AdmitHeld(t, denied)
    PROVE  StandInv'
<1> DEFINE held  == Fated(t, {"hold"})
           stuck == {n \in held : ~Decided(n) \/ n \in denied}
           at    == Max(stuck)
           torn  == {n \in held : n >= at} \cup {n \in Of(t) : n > at /\ rel[n].by = "run"}
           rows  == [mem EXCEPT ![t] = [state |-> "rejected", attempt |-> at]]
<1>1. /\ UNCHANGED <<last, tries, judged, merged, delivered, work, stray, unaddressed>>
      /\ stuck # {}
      /\ \E quits \in Quits(torn) : job' = TornDown(torn, quits)
      /\ Stop(t, rows)
  BY DEF AdmitHeld
<1>2. torn \subseteq 1 .. last /\ mem \in Rows
  BY FatedAre, Shapes DEF Of, IInv
<1>3. mem[t].state = "rejected"
  <2>1. PICK n \in stuck : TRUE
    BY <1>1
  <2>2. Fate(n) = "hold" /\ tries[n].tick = t /\ n \in 1 .. last
    BY <2>1 DEF Fated, Of
  <2> QED BY <2>2, HeldAre DEF IInv
<1>4. Steady
  BY AdmitHeldSteady
<1> HIDE DEF at, stuck, held, torn
<1>5. \A u \in Ticks \ {t} : rows[u] = mem[u]
  BY <1>2, RowIs
<1> HIDE DEF rows
<1>6. \A u \in Ticks : rows[u].state = "rejected" => mem[u].state = "rejected"
  BY <1>3, <1>5
<1>7. Firm
  BY <1>1, <1>2, TearDownIsFirm DEF IInv
<1> QED BY <1>1, <1>4, <1>6, <1>7, StopsOpen

LEMMA WindowStands ==
    ASSUME Recorded, IInv, StandInv,
           (\E n \in live : Poll(n) \/ Refuse(n)) \/ (\E n \in settled : BeginFinish(n)) \/ Note
    PROVE  StandInv'
<1>1. /\ UNCHANGED <<last, tries, rel, job, work, stray, judged, merged, delivered, bare>>
      /\ disp' = disp \/ (Note /\ disp' = NoDisp)
  <2>1. ASSUME NEW n \in live, Refuse(n) PROVE rel' = rel
    BY <2>1, HoldOnlyIs DEF Refuse
  <2> QED BY <2>1 DEF Poll, Refuse, BeginFinish, Note, origin, host
<1>2. Firm
  BY <1>1, UntouchedIsFirm
<1>3. Steady /\ NoNewPlacing
  BY WindowSteady, DispatchSteady
<1>4. live \subseteq 1 .. last /\ settled \subseteq 1 .. last /\ bare \subseteq 1 .. last
  BY Shapes DEF IInv, TypeInv, WindowOK
<1>5. ASSUME NEW n \in live, Poll(n) PROVE StandInv'
  <2>1. /\ live' = live \ {n} /\ settled' = settled \cup {n} /\ job[n] \in Terminal
        /\ UNCHANGED <<row, mem, disp, fin>>
    BY <1>5 DEF Poll, origin
  <2>2. /\ FinGoesOn /\ HandsOn
        /\ \A k : Reached(k) => Reached(k)'
        /\ \A k : Reached(k)' => Reached(k) \/ k = n
    BY <1>1, <2>1 DEF FinGoesOn, HandsOn, AtHand, Reached, Ending, Held
  <2>3. Arrives
    BY <1>1, <2>1, <2>2, EndedArrive
  <2>4. RowsJudged
    BY <2>1, RowsFrom
  <2> QED BY <1>1, <1>2, <1>3, <2>2, <2>3, <2>4, StandsOn
<1>6. ASSUME NEW n \in live, Refuse(n) PROVE StandInv'
  <2>1. /\ live' = live \ {n} /\ UNCHANGED <<row, settled, disp, fin>>
        /\ job[n] \in {"lost", "running"}
        /\ mem' = mem \/ mem' = [mem EXCEPT ![tries[n].tick].state = "rejected"]
    BY <1>6, HoldOnlyIs DEF Refuse
  <2>2. /\ FinGoesOn /\ HandsOn
        /\ \A k : Reached(k)' <=> Reached(k)
    BY <1>1, <2>1 DEF FinGoesOn, HandsOn, AtHand, Reached, Ending, Held
  <2>3. Arrives
    BY <1>1, <2>1, <2>2, EndedArrive
  <2>4. RowsJudged
    <3>1. n \in 1 .. last /\ AtHand(n) /\ tries[n].tick \in Ticks /\ mem \in Rows
      BY <1>4, Shapes DEF AtHand, IInv
    <3>2. n \notin judged
      BY <2>1, JudgedIsStill
    <3>3. \A u \in Ticks \ {tries[n].tick} : mem'[u] = mem[u]
      BY <2>1, <3>1, RowIs
    <3> QED BY <1>3, <2>1, <3>1, <3>2, <3>3, RowsOfOne
  <2> QED BY <1>1, <1>2, <1>3, <2>2, <2>3, <2>4, StandsOn
<1>7. ASSUME NEW n \in settled, BeginFinish(n) PROVE StandInv'
  <2>1. /\ fin.at = "none" /\ fin'.at = "collect" /\ fin'.n = n
        /\ settled' = settled \ {n} /\ UNCHANGED <<row, mem, live, disp>>
    BY <1>7 DEF BeginFinish, origin, NoFin
  <2>2. /\ FinGoesOn /\ HandsOn
        /\ \A k : Reached(k)' <=> Reached(k)
    BY <1>1, <2>1 DEF FinGoesOn, HandsOn, AtHand, Reached, Ending, Held
  <2>3. Arrives
    BY <1>1, <2>1, <2>2, EndedArrive
  <2>4. RowsJudged
    BY <2>1, RowsFrom
  <2> QED BY <1>1, <1>2, <1>3, <2>2, <2>3, <2>4, StandsOn
<1>8. CASE Note
  <2>1. /\ live' = live \cup {disp.n} /\ disp'.at = "none" /\ disp.at = "note"
        /\ row' = mem /\ UNCHANGED <<mem, settled, fin>>
    BY <1>8 DEF Note, NoDisp
  <2>2. /\ FinGoesOn /\ HandsOn
        /\ \A k : Reached(k)' <=> Reached(k)
    BY <1>1, <2>1 DEF FinGoesOn, HandsOn, AtHand, Reached, Ending, Held
  <2>3. Arrives
    BY <1>1, <2>1, <2>2, EndedArrive
  <2>4. RowsJudged
    BY <2>1, RowsFrom
  <2> QED BY <1>1, <1>2, <1>3, <2>2, <2>3, <2>4, StandsOn
<1> QED BY <1>5, <1>6, <1>7, <1>8
\* The dispatch, up to the start of its job.
LEMMA DispatchStands ==
    ASSUME IInv, StandInv, Adopt \/ Claim \/ DieStarting
    PROVE  StandInv'
<1> DEFINE n == disp.n
           t == disp.tick
<1>1. /\ n \in 1 .. last /\ tries[n].tick = t /\ t \in Ticks /\ mem \in Rows /\ AtHand(n)
      /\ live \subseteq 1 .. last /\ n \in Numbers
  BY Shapes DEF IInv, Adopt, Claim, DieStarting, AtHand, Held
<1>2. Steady /\ NoNewPlacing
  BY DispatchSteady
<1>3. UNCHANGED <<judged, delivered, merged, work, stray>> /\ UNCHANGED <<last, tries>>
  BY DEF Adopt, Claim, DieStarting, origin, host
<1>4. CASE DieStarting
  <2>1. job' = [job EXCEPT ![n] = "lost"] /\ row' = row /\ Down /\ job[n] = "none"
    BY <1>4 DEF DieStarting, origin, IInv, Flight, Unstarted
  <2>2. job \in [Numbers -> Jobs] /\ "none" \notin Terminal /\ "none" \notin LetGo
    BY DEF IInv, TypeInv, HostOK, Terminal, LetGo
  <2>3. Firm
    <3> HIDE DEF n
    <3> QED BY <1>3, <2>1, <2>2 DEF Firm
  <2>4. RowsJudged
    BY <2>1, RowsFrom DEF Down
  <2> QED BY <1>2, <1>3, <2>1, <2>3, <2>4, StandsDown
<1>5. CASE Adopt \/ Claim
  <2>1. job' = job /\ Firm
    BY <1>3, <1>5, UntouchedIsFirm DEF Adopt, Claim, host
  <2>2. ASSUME NEW rows, Stop(t, rows), rows \in {[mem EXCEPT ![t].state = "open"],
                                                 [mem EXCEPT ![t] = [state |-> "open", attempt |-> n]]}
        PROVE  StandInv'
    <3>1. rows[t].state = "open" /\ \A u \in Ticks \ {t} : rows[u] = mem[u]
      <4> HIDE DEF n, t
      <4>1. /\ [mem EXCEPT ![t].state = "open"][t].state = "open"
            /\ \A u \in Ticks \ {t} : [mem EXCEPT ![t].state = "open"][u] = mem[u]
        BY <1>1, RowIs
      <4>2. /\ [mem EXCEPT ![t] = [state |-> "open", attempt |-> n]][t].state = "open"
            /\ \A u \in Ticks \ {t} : [mem EXCEPT ![t] = [state |-> "open", attempt |-> n]][u] = mem[u]
        BY <1>1, RowIs
      <4> QED BY <2>2, <4>1, <4>2
    <3>2. \A u \in Ticks : rows[u].state = "rejected" => mem[u].state = "rejected"
      BY <3>1
    <3> QED BY <1>1, <1>2, <1>3, <2>1, <2>2, <3>2, StopsOpen
  <2>3. ASSUME job[n] = "lost", Stop(t, [mem EXCEPT ![t].state = "rejected"])
        PROVE  StandInv'
    <3>1. n \notin judged
      BY <2>3, JudgedIsStill
    <3>2. Stop(tries[n].tick, [mem EXCEPT ![tries[n].tick].state = "rejected"])
      BY <1>1, <2>3
    <3> QED BY <1>1, <1>2, <1>3, <2>1, <3>1, <3>2, StopsOne
  <2>4. ASSUME UNCHANGED <<row, settled, bare, fin>>,
               \A u \in Ticks : mem'[u].state = mem[u].state,
               \/ live' = live /\ disp'.n = n
               \/ live' = live \cup {n} /\ disp'.at = "none"
        PROVE  StandInv'
    <3>1. disp.at \notin {"none", "place"}
      BY <1>5 DEF Adopt, Claim
    <3>2. /\ FinGoesOn /\ HandsOn
          /\ \A k : Reached(k)' <=> Reached(k)
      BY <2>4, <3>1 DEF FinGoesOn, HandsOn, AtHand, Reached, Ending, Held
    <3>3. Arrives
      BY <2>4, <3>2, EndedArrive
    <3>4. RowsJudged
      BY <2>4, RowsFrom
    <3> QED BY <1>2, <1>3, <2>1, <3>2, <3>3, <3>4, StandsOn
  <2>5. CASE Adopt
    <3>1. \/ /\ disp' = [disp EXCEPT !.at = "restart"]
             /\ UNCHANGED <<row, mem, live, settled, bare, fin>>
          \/ Stop(t, [mem EXCEPT ![t].state = "open"])
          \/ job[n] = "lost" /\ Stop(t, [mem EXCEPT ![t].state = "rejected"])
          \/ /\ live' = live \cup {n} /\ disp' = NoDisp
             /\ UNCHANGED <<row, mem, settled, bare, fin>>
      BY <2>5 DEF Adopt, origin, window
    <3>2. [disp EXCEPT !.at = "restart"].n = n /\ NoDisp.at = "none"
      BY DEF IInv, TypeInv, DispOK, NoDisp
    <3> HIDE DEF n, t
    <3>3. CASE Stop(t, [mem EXCEPT ![t].state = "open"])
      BY <2>2, <3>3
    <3>4. CASE job[n] = "lost" /\ Stop(t, [mem EXCEPT ![t].state = "rejected"])
      BY <2>3, <3>4
    <3>5. CASE disp' = [disp EXCEPT !.at = "restart"] /\ UNCHANGED <<row, mem, live, settled, bare, fin>>
      <4>1. disp'.n = n /\ live' = live /\ \A u \in Ticks : mem'[u].state = mem[u].state
        BY <3>2, <3>5
      <4> QED BY <2>4, <3>5, <4>1
    <3>6. CASE live' = live \cup {n} /\ disp' = NoDisp /\ UNCHANGED <<row, mem, settled, bare, fin>>
      <4>1. disp'.at = "none" /\ \A u \in Ticks : mem'[u].state = mem[u].state
        BY <3>2, <3>6
      <4> QED BY <2>4, <3>6, <4>1
    <3> QED BY <3>1, <3>3, <3>4, <3>5, <3>6
  <2>6. CASE Claim
    <3>1. \/ /\ mem' = [mem EXCEPT ![t].attempt = n]
             /\ disp' = [disp EXCEPT !.at = "start"]
             /\ UNCHANGED <<row, live, settled, bare, fin>>
          \/ Stop(t, [mem EXCEPT ![t] = [state |-> "open", attempt |-> n]])
      BY <2>6 DEF Claim, origin, window
    <3>2. [disp EXCEPT !.at = "start"].n = n
      BY DEF IInv, TypeInv, DispOK
    <3> HIDE DEF n, t
    <3>3. /\ [mem EXCEPT ![t].attempt = n][t].state = mem[t].state
          /\ \A u \in Ticks \ {t} : [mem EXCEPT ![t].attempt = n][u] = mem[u]
      BY <1>1, RowIs
    <3>4. mem' = [mem EXCEPT ![t].attempt = n] => \A u \in Ticks : mem'[u].state = mem[u].state
      BY <3>3
    <3> QED BY <2>2, <2>4, <3>1, <3>2, <3>4
  <2> QED BY <1>5, <2>5, <2>6
<1> QED BY <1>4, <1>5

\* A job that starts was never judged, and no other of its tick is at hand.
LEMMA StartJobStands == ASSUME IInv, StandInv, StartJob PROVE StandInv'
<1> DEFINE n == disp.n
           t == disp.tick
<1>1. /\ n \in 1 .. last /\ tries[n].tick = t /\ t \in Ticks /\ mem \in Rows
      /\ disp.at \in {"start", "restart"} /\ 1 .. last \subseteq Numbers
      /\ live \subseteq 1 .. last /\ settled \subseteq 1 .. last
      /\ fin.at # "none" => fin.n \in 1 .. last
  <2>1. disp.at \in {"start", "restart"}
    BY DEF StartJob
  <2> QED BY <2>1, Shapes DEF IInv
<1>2. job[n] = "none"
  BY <1>1 DEF IInv, Flight, Unstarted
<1>3. /\ UNCHANGED <<row, last, tries, rel, judged, merged, delivered, stray, settled, bare, fin>>
      /\ job' = [job EXCEPT ![n] = "running"]
      /\ work' = [work EXCEPT ![n] = IF @ = {} THEN {} ELSE @ \cup {"local"}]
      /\ mem' = [mem EXCEPT ![t].state = "open"]
      /\ \/ live' = live /\ disp' = [disp EXCEPT !.at = "note"]
         \/ live' = live \cup {n} /\ disp' = NoDisp
  BY DEF StartJob, origin
<1>4. /\ job \in [Numbers -> Jobs] /\ work \in [Numbers -> SUBSET {"local", "origin"}]
      /\ "none" \notin Terminal /\ "none" \notin LetGo
  BY DEF IInv, TypeInv, HostOK, Terminal, LetGo
<1>5. disp'.at \in {"none", "note"} /\ (disp'.at = "note" => disp'.n = n)
  BY <1>3 DEF NoDisp, IInv, TypeInv, DispOK
<1>6. \A k \in Numbers : /\ k # n => job'[k] = job[k]
                         /\ work'[k] = {} <=> work[k] = {}
  <2> HIDE DEF n
  <2> QED BY <1>3, <1>4
<1>7. Firm
  BY <1>1, <1>2, <1>3, <1>4, <1>6 DEF Firm
<1>8. HandsOn /\ NoNewPlacing
  BY <1>1, <1>3, <1>5 DEF HandsOn, AtHand, Ending, Held, NoNewPlacing
<1>9. LaterGone' /\ JudgedLatest' /\ OthersJudged' /\ PlaceJudged'
  <2>1. \A m \in judged : m \in 1 .. last /\ (HeldCommit(m)' => HeldCommit(m))
    BY <1>3, <1>7, JudgedIsStill, MergedOn
  <2>2. LaterGone' /\ JudgedLatest'
    BY <1>3, <1>8, <2>1 DEF StandInv, LaterGone, JudgedLatest, HandsOn
  <2>3. OthersJudged' /\ PlaceJudged'
    BY <1>3, <1>5, <1>8, <2>1 DEF StandInv, OthersJudged, PlaceJudged, HandsOn
  <2> QED BY <2>2, <2>3
<1>10. /\ FinGoesOn /\ Arrives
  <2>1. \A k : Reached(k)' <=> Reached(k)
    BY <1>3 DEF Reached, Ending
  <2>2. Arrives
    BY <1>3, <2>1, EndedArrive
  <2> QED BY <1>3, <2>2 DEF FinGoesOn
<1>11. Unreleased' /\ UnderReleased' /\ CarryReleased'
  BY <1>3, <1>5 DEF StandInv, Unreleased, UnderReleased, CarryReleased
<1>12. JudgedHeld'
  <2>1. \A u \in Ticks : mem'[u].state = "rejected" => mem[u].state = "rejected"
    <3> HIDE DEF t
    <3>1. /\ [mem EXCEPT ![t].state = "open"][t].state = "open"
          /\ \A u \in Ticks \ {t} : [mem EXCEPT ![t].state = "open"][u] = mem[u]
      BY <1>1, RowIs
    <3> QED BY <1>3, <3>1
  <2>2. \A m \in 1 .. last : Disposes(m)' <=> Disposes(m)
    BY <1>3 DEF Disposes, Escalates, Try, Of, Tier
  <2>3. \A m \in judged : m \in 1 .. last /\ tries[m].tick \in Ticks /\ (HeldCommit(m)' => HeldCommit(m))
    BY <1>1, <1>3, <1>6, JudgedIsStill, Shapes DEF IInv, HeldCommit
  <2> QED BY <1>3, <2>1, <2>2, <2>3 DEF StandInv, JudgedHeld
<1>13. JudgedReady' /\ DeliveredNothing'
  BY <1>3, <1>7, ReadyOn, DeliveredOn DEF JudgedReady
<1> QED BY <1>3, <1>7, <1>9, <1>10, <1>11, <1>12, <1>13, ArrivalsOn, FinOn DEF StandInv
\* What a new attempt carries on from is what it was told to, or what that one
\* delivered: all of it was released.
LEMMA CarriedIsReleased ==
    ASSUME IInv, StandInv, disp.at = "place", disp.carry # 0, NEW base, base = CarryHead(disp.carry),
           base # 0
    PROVE  base \in 1 .. last /\ \A m \in {base} \cup tries[base].under : rel[m].by # "none"
<1> DEFINE from == disp.carry
<1>1. from \in 1 .. last /\ rel[from].by # "none" /\ last \in Nat
      /\ \A n \in 1 .. last : tries[n].under \subseteq 1 .. last
  BY Shapes DEF IInv, TypeInv, DispOK, TriesOK, StandInv, CarryReleased
<1>2. base \in 1 .. last /\ rel[base].by # "none"
  <2>1. CASE base = from
    BY <1>1, <2>1
  <2>2. CASE base # from
    <3>1. base = Base(from) /\ Carries(from)
      BY <2>2 DEF CarryHead, Delivery
    <3>2. tries[from].under \in SUBSET (0 .. last) /\ tries[from].under # {}
      BY <1>1, <3>1 DEF Carries
    <3>3. base \in tries[from].under
      BY <1>1, <3>1, <3>2, Latest DEF Base
    <3> QED BY <1>1, <3>3 DEF StandInv, UnderReleased
  <2> QED BY <2>1, <2>2
<1> QED BY <1>2 DEF StandInv, UnderReleased

LEMMA PlaceStands == ASSUME IInv, StandInv, Place PROVE StandInv'
<1>1. CASE UNCHANGED origin /\ Down
  <2>1. UNCHANGED <<row, last, tries, rel, judged, merged, delivered, job, work, stray, unaddressed>>
    BY <1>1 DEF Place, origin, host
  <2>2. Firm /\ Steady
    BY <2>1, UntouchedIsFirm, UntouchedIsSteady
  <2>3. RowsJudged
    BY <1>1, <2>1, RowsFrom DEF Down
  <2> QED BY <1>1, <2>1, <2>2, <2>3, StandsDown
<1>2. CASE ~ (UNCHANGED origin /\ Down)
  <2> DEFINE t == disp.tick
             n == last + 1
  <2>1. /\ t \in Ticks /\ disp.at = "place" /\ n \in Numbers /\ last' = n /\ n \notin 1 .. last
        /\ 1 .. last' = (1 .. last) \cup {n}
        /\ mem' = Ready(t) /\ row' = Ready(t)
        /\ tries'[n].tick = t /\ \A k \in 1 .. last : tries'[k] = tries[k]
        /\ disp'.at = "claim" /\ disp'.tick = t /\ disp'.n = n
        /\ job[n] = "none" /\ rel[n] = NoRel
        /\ UNCHANGED <<rel, job, work, merged, unaddressed, pc, queue, live, settled, bare, fin>>
    BY <1>2, PlaceIs
  <2>2. UNCHANGED <<judged, delivered, stray>>
    BY <1>2 DEF Place, host
  <2>3. /\ \A k \in 1 .. last : tries[k].tick \in Ticks /\ k \in Nat /\ k < n /\ k \in Numbers
        /\ judged \subseteq 1 .. last /\ bare \subseteq 1 .. last /\ delivered \subseteq 1 .. last
        /\ live \subseteq 1 .. last /\ settled \subseteq 1 .. last
        /\ fin.at # "none" => fin.n \in 1 .. last
        /\ n \in Nat /\ mem \in Rows
    BY Shapes DEF IInv, TypeInv, WindowOK, DoneOK
  <2>4. work[n] = {}
    BY <2>1, Placed DEF IInv
  <2>5. \A u \in Ticks : Ready(t)[u].state = "rejected" => mem[u].state = "rejected"
    <3> HIDE DEF t, n
    <3>1. /\ [mem EXCEPT ![t].state = "open"][t].state = "open"
          /\ \A u \in Ticks \ {t} : [mem EXCEPT ![t].state = "open"][u] = mem[u]
      BY <2>1, <2>3, RowIs
    <3> QED BY <3>1 DEF Ready
  <2>6. JudgedReady'
    BY <2>1, <2>2, <2>3 DEF StandInv, JudgedReady, Carries
  <2>7. Unreleased' /\ UnderReleased' /\ CarryReleased'
    <3>1. Unreleased'
      BY <2>1, <2>3 DEF StandInv, Unreleased
    <3>2. \A m \in tries'[n].under : rel[m].by # "none"
      <4> DEFINE from  == disp.carry
                 base  == IF from = 0 THEN 0 ELSE CarryHead(from)
                 under == IF base = 0 THEN {} ELSE {base} \cup tries[base].under
                 new   == [tick |-> t, tier |-> Tier(disp.failed), under |-> under]
      <4>1. tries' = [tries EXCEPT ![n] = new] /\ tries \in [Numbers -> TryShape]
        BY <1>2 DEF Place, host, IInv, TypeInv, TriesOK
      <4>2. new.under = under
        OBVIOUS
      <4>3. \A m \in under : rel[m].by # "none"
        BY <2>1, CarriedIsReleased
      <4> HIDE DEF new, under
      <4> QED BY <2>1, <4>1, <4>2, <4>3
    <3>3. UnderReleased'
      BY <2>1, <3>2 DEF StandInv, UnderReleased
    <3> QED BY <2>1, <3>1, <3>3 DEF CarryReleased
  <2>8. EndedJobs' /\ BareIsMerged'
    <3>1. \A k : Reached(k)' <=> Reached(k)
      BY <2>1 DEF Reached, Ending
    <3>2. ~ Reached(n)
      BY <2>1, <2>3 DEF Reached, Ending
    <3> QED BY <2>1, <2>2, <2>3, <3>1, <3>2 DEF StandInv, EndedJobs, BareIsMerged, Merged
  <2>9. DeliveredNothing' /\ FinKnows'
    BY <2>1, <2>2 DEF StandInv, DeliveredNothing, FinKnows, Merged
  <2>10. LaterGone' /\ JudgedLatest' /\ OthersJudged' /\ PlaceJudged'
    <3>1. \A k : AtHand(k)' => k = n \/ (AtHand(k) /\ k \in 1 .. last /\ tries[k].tick # t)
      BY <2>1, <2>3 DEF AtHand, Ending, Held, IInv, Flight, OnePlace
    <3>2. \A m \in judged : tries[m].tick = t /\ rel[m].by = "none" => ~ HeldCommit(m)
      BY <2>1 DEF StandInv, PlaceJudged
    <3> HIDE DEF n, t
    <3>3. LaterGone'
      BY <2>1, <2>3, <3>1 DEF StandInv, LaterGone
    <3>4. JudgedLatest'
      BY <2>1, <2>2, <2>3, <3>2 DEF StandInv, JudgedLatest, HeldCommit
    <3>5. OthersJudged'
      BY <2>1, <2>2, <2>3, <3>1, <3>2 DEF StandInv, OthersJudged, HeldCommit
    <3>6. PlaceJudged'
      BY <2>1 DEF PlaceJudged
    <3> QED BY <3>3, <3>4, <3>5, <3>6
  <2>11. JudgedHeld'
    <3> SUFFICES ASSUME NEW m \in judged, rel[m].by = "none", HeldCommit(m),
                        mem'[tries'[m].tick].state = "rejected" \/ row'[tries'[m].tick].state = "rejected"
                 PROVE  ~ Disposes(m)'
      BY <2>1, <2>2 DEF JudgedHeld, HeldCommit
    <3>1. m \in 1 .. last /\ tries'[m] = tries[m] /\ mem[tries[m].tick].state = "rejected"
      BY <2>1, <2>3, <2>5
    <3>2. ~ Disposes(m)
      BY <3>1 DEF StandInv, JudgedHeld
    <3>3. Escalates(m)' => Escalates(m)
      <4>1. {k \in Of(tries[m].tick)' : k <= m} = {k \in Of(tries[m].tick) : k <= m}
        BY <2>1, <2>3, <3>1 DEF Of
      <4>2. Try(m)' = Try(m)
        BY <3>1, <4>1 DEF Try, Of
      <4> QED BY <3>1, <4>2 DEF Escalates, Tier
    <3>4. \A k \in Of(tries[m].tick) : k \in Of(tries[m].tick)'
      BY <2>1, <3>1 DEF Of
    <3> QED BY <2>1, <3>1, <3>2, <3>3, <3>4 DEF Disposes, Of
  <2> QED BY <2>6, <2>7, <2>8, <2>9, <2>10, <2>11 DEF StandInv
<1> QED BY <1>1, <1>2

\* The walk that takes an attempt up, or leaves none to take up.
LEMMA AdmitStands == ASSUME IInv, StandInv, NEW t \in Ticks, Admit(t) PROVE StandInv'
<1> DEFINE held == Fated(t, {"hold"})
           able == Fated(t, {"adopt", "finish"})
           torn == held \cup {k \in Of(t) : rel[k].by = "run"}
           n    == Max(able)
<1>1. /\ UNCHANGED <<row, last, tries, work, live, fin, unaddressed>> /\ disp.at = "none"
      /\ \A u \in Ticks : mem'[u].state = mem[u].state
      /\ \A k \in 1 .. last : tries[k].tick = t /\ Fate(k) = "hold" => rel'[k].by = "run"
  BY AdmitIs
<1>2. /\ UNCHANGED <<judged, merged, delivered, stray>>
      /\ \E quits \in Quits(torn) : job' = TornDown(torn, quits)
  BY DEF Admit
<1>3. /\ torn \subseteq 1 .. last /\ 1 .. last \subseteq Numbers /\ bare \subseteq 1 .. last
      /\ \A k \in 1 .. last : k \in Nat
  BY FatedAre, Shapes DEF IInv, Of, TypeInv, WindowOK
<1>4. Steady
  BY AdmitSteady
<1>5. Firm
  <2> HIDE DEF torn
  <2> QED BY <1>1, <1>2, <1>3, TearDownIsFirm DEF IInv
<1>6. RowsJudged /\ FinGoesOn
  BY <1>1, RowsFrom DEF FinGoesOn
<1>7. JudgedReady' /\ DeliveredNothing' /\ FinKnows' /\ JudgedHeld' /\ Unreleased' /\ UnderReleased'
  BY <1>1, <1>2, <1>4, <1>5, <1>6, ReadyOn, DeliveredOn, FinOn, HeldOn, ReleasedOn
     DEF JudgedReady, JudgedHeld
<1>8. ASSUME NEW k \in 1 .. last, tries[k].tick = t, rel'[k].by = "none",
             Fate(k) \notin {"adopt", "finish"}
      PROVE  rel[k].by = "none" /\ ~ HeldCommit(k) /\ mem[t].state = "rejected"
  <2>1. rel[k].by = "none"
    BY <1>4, <1>8 DEF Steady
  <2>2. Fate(k) = Disposition(k) /\ Fate(k) # "hold"
    BY <1>1, <1>8, <2>1, FateIs DEF IInv
  <2> QED BY <1>8, <2>1, <2>2 DEF Disposition
<1>9. \A m \in judged : /\ HeldCommit(m)' => HeldCommit(m)
                        /\ m \in 1 .. last
                        /\ rel'[m].by = "none" => rel[m].by = "none"
  BY <1>2, <1>4, <1>5, MergedOn, JudgedIsStill DEF Steady
<1>10. ASSUME able # {}, NEW m \in judged, m # n, tries[m].tick = t, rel'[m].by = "none"
      PROVE  ~ HeldCommit(m)'
  <2>1. n \in 1 .. last /\ tries[n].tick = t /\ rel[n].by = "none"
    BY <1>10, TakenUp
  <2>2. CASE m \in able
    <3>1. m < n
      <4>1. able \in SUBSET (0 .. last) /\ last \in Nat
        BY FatedAre, Shapes DEF IInv
      <4> HIDE DEF able
      <4>2. m <= n
        BY <1>10, <2>2, <4>1, Latest
      <4> HIDE DEF n
      <4> QED BY <1>3, <1>9, <1>10, <2>1, <4>2
    <3>2. rel[m].by = "none"
      BY <1>9, <1>10
    <3>3. ~ HeldCommit(m)
      BY <1>10, <2>1, <3>1, <3>2 DEF StandInv, JudgedLatest
    <3> QED BY <1>9, <3>3
  <2>3. CASE m \notin able
    <3>1. m \in 1 .. last /\ Fate(m) \notin {"adopt", "finish"}
      BY <1>9, <1>10, <2>3 DEF Fated, Of
    <3> QED BY <1>8, <1>9, <1>10, <3>1
  <2> QED BY <2>2, <2>3
\* Where a row is open every attempt nobody released may be taken up, the latest first.
<1>13. ASSUME able # {}, Fate(n) # "finish", NEW k \in 1 .. last, n < k, tries[k].tick = t
       PROVE  rel'[k].by # "none"
  <2>1. n \in 1 .. last /\ tries[n].tick = t /\ rel[n].by = "none" /\ Fate(n) = Disposition(n)
    BY <1>13, TakenUp
  <2>2. Fate(n) = "adopt"
    BY <1>13, <2>1, TakenUp
  <2>3. mem[t].state # "rejected"
    BY <2>1, <2>2 DEF Disposition
  <2>4. k \notin able
    <3>1. able \in SUBSET (0 .. last) /\ last \in Nat
      BY FatedAre, Shapes DEF IInv
    <3>2. k \in able => k <= n
      <4> HIDE DEF able
      <4> QED BY <1>13, <3>1, Latest
    <3> HIDE DEF able, n
    <3> QED BY <1>3, <1>13, <2>1, <3>2
  <2>5. Fate(k) \notin {"adopt", "finish"}
    BY <1>13, <2>4 DEF Fated, Of
  <2> QED BY <1>8, <1>13, <2>3, <2>5
<1>14. JudgedLatest'
  <2>1. \A m \in judged : \A k \in 1 .. last :
            /\ m < k /\ tries[m].tick = tries[k].tick
            /\ rel'[m].by = "none" /\ rel'[k].by = "none"
            => ~ HeldCommit(m)'
    BY <1>2, <1>4, <1>5, OthersOn
  <2> QED BY <1>1, <1>2, <2>1 DEF JudgedLatest
\* What is taken in hand now is the latest that may be, or was found merged.
<1>15. ASSUME \A k : AtHand(k)' => AtHand(k) \/ (able # {} /\ k = n),
              bare \subseteq bare', Fate(n) = "finish" => n \in bare'
       PROVE  OthersJudged' /\ LaterGone'
  <2>1. ASSUME NEW m \in judged, NEW k \in 1 .. last, AtHand(k)', m # k,
               tries[m].tick = tries[k].tick, rel'[m].by = "none"
        PROVE  ~ HeldCommit(m)'
    <3>1. CASE AtHand(k)
      <4>1. rel[m].by = "none" /\ m \in 1 .. last
        BY <1>9, <2>1
      <4> QED BY <1>9, <2>1, <3>1, <4>1 DEF StandInv, OthersJudged
    <3>2. CASE able # {} /\ k = n
      <4>1. tries[n].tick = t
        BY <3>2, TakenUp
      <4> HIDE DEF n, able
      <4> QED BY <1>10, <2>1, <3>2, <4>1
    <3> QED BY <1>15, <2>1, <3>1, <3>2
  <2>2. ASSUME NEW m \in 1 .. last, NEW k \in 1 .. last, AtHand(m)', m \notin bare', m < k,
               tries[m].tick = tries[k].tick
        PROVE  rel'[k].by # "none"
    <3>1. CASE AtHand(m)
      <4>1. m \notin bare
        BY <1>15, <2>2
      <4>2. rel[k].by # "none"
        BY <2>2, <3>1, <4>1 DEF StandInv, LaterGone
      <4> QED BY <1>4, <4>2 DEF Steady
    <3>2. CASE able # {} /\ m = n
      <4>1. tries[n].tick = t /\ Fate(n) # "finish"
        BY <1>15, <2>2, <3>2, TakenUp
      <4> HIDE DEF n, able
      <4> QED BY <1>13, <2>2, <3>2, <4>1
    <3> QED BY <1>15, <2>2, <3>1, <3>2
  <2> QED BY <1>1, <1>2, <2>1, <2>2 DEF OthersJudged, LaterGone
<1>11. CASE able # {} /\ Fate(n) = "finish"
  <2>1. UNCHANGED disp /\ settled' = settled \cup {n} /\ bare' = bare \cup {n}
    BY <1>11 DEF Admit
  <2>2. n \in 1 .. last /\ tries[n].tick = t /\ Fate(n) = Disposition(n)
    BY <1>11, TakenUp
  <2> HIDE DEF n
  <2>3. Merged(n)
    <3>1. ~ HeldCommit(n) /\ (work[n] # {} \/ Delivery(n))
      BY <1>11, <2>2 DEF Disposition
    <3> QED BY <3>1 DEF HeldCommit, Delivery, Merged, StandInv, DeliveredNothing
  <2>4. (\A k : AtHand(k)' => AtHand(k) \/ k = n) /\ \A k : Reached(k)' <=> Reached(k) \/ k = n
    BY <1>1, <2>1 DEF AtHand, Reached, Ending, Held
  <2>5. Arrives
    BY <1>3, <2>1, <2>2, <2>3, <2>4 DEF Arrives, StandInv, BareIsMerged
  <2>6. CarryReleased' /\ PlaceJudged'
    BY <1>1, <2>1 DEF CarryReleased, PlaceJudged
  <2>7. OthersJudged' /\ LaterGone'
    <3>1. bare \subseteq bare' /\ n \in bare'
      BY <2>1
    <3> QED BY <1>11, <1>15, <2>4, <3>1 DEF n
  <2> QED BY <1>2, <1>5, <1>7, <1>14, <2>5, <2>6, <2>7, ArrivalsOn DEF StandInv
<1>12. CASE ~ (able # {} /\ Fate(n) = "finish")
  <2> DEFINE carry == {k \in Of(t) : rel[k].carry} \cup {k \in held : ruled[k] = "carry"}
             adopts == [NoDisp EXCEPT !.at = "adopt", !.tick = t, !.n = n]
             places == [NoDisp EXCEPT !.at = "place", !.tick = t,
                                      !.failed = Cardinality(Fated(t, {"failed", "hold"})),
                                      !.carry = Max(carry \cup {0})]
  <2>1. UNCHANGED <<settled, bare>> /\ disp' = IF able # {} THEN adopts ELSE places
    BY <1>12 DEF Admit
  <2>2. /\ adopts.at = "adopt" /\ adopts.n = n
        /\ places.at = "place" /\ places.carry = Max(carry \cup {0})
    BY DEF NoDisp
  <2>3. \A k : Reached(k)' <=> Reached(k)
    BY <1>1, <2>1 DEF Reached, Ending
  <2>4. Arrives
    BY <2>1, <2>3, EndedArrive
  <2>5. OthersJudged' /\ LaterGone'
    <3>1. \A k : AtHand(k)' => AtHand(k) \/ (able # {} /\ k = n)
      <4> HIDE DEF able, n, adopts, places
      <4> QED BY <1>1, <2>1, <2>2 DEF AtHand, Ending, Held
    <3>2. CASE able # {}
      <4>1. bare \subseteq bare' /\ Fate(n) # "finish"
        BY <1>12, <2>1, <3>2
      <4> QED BY <1>15, <3>1, <4>1
    <3>3. CASE able = {}
      <4>1. HandsOn
        BY <2>1, <3>1, <3>3 DEF HandsOn
      <4> QED BY <1>1, <1>2, <1>4, <1>5, <4>1, GoneOn, OthersOn DEF OthersJudged
    <3> QED BY <3>2, <3>3
  <2>7. PlaceJudged'
    <3> SUFFICES ASSUME disp'.at = "place", NEW m \in judged, tries[m].tick = disp'.tick, rel'[m].by = "none"
                 PROVE  ~ HeldCommit(m)'
      BY <1>1, <1>2 DEF PlaceJudged
    <3>1. able = {} /\ disp'.tick = t
      <4>1. places.tick = t
        BY DEF NoDisp
      <4> HIDE DEF adopts, places, able
      <4> QED BY <2>1, <2>2, <4>1
    <3>2. m \in 1 .. last /\ Fate(m) \notin {"adopt", "finish"}
      BY <1>9, <3>1 DEF Fated, Of
    <3> QED BY <1>8, <1>9, <3>1, <3>2
  <2>6. CarryReleased'
    <3>1. \A k \in carry : k \in 1 .. last /\ rel'[k].by # "none"
      <4> SUFFICES ASSUME NEW k \in carry PROVE k \in 1 .. last /\ rel'[k].by # "none"
        OBVIOUS
      <4>1. k \in Of(t) /\ k \in 1 .. last /\ tries[k].tick = t /\ (Fate(k) = "hold" \/ rel[k].carry)
        BY DEF Fated, Of
      <4>2. CASE Fate(k) = "hold"
        BY <1>1, <4>1, <4>2
      <4>3. CASE rel[k].carry
        <5>1. rel[k].by # "none"
          <6>1. ~ NoRel.carry
            BY DEF NoRel
          <6> QED BY <4>1, <4>3, <6>1 DEF StandInv, Unreleased
        <5> QED BY <1>4, <4>1, <5>1 DEF Steady
      <4> QED BY <4>1, <4>2, <4>3
    <3>2. Max(carry \cup {0}) \in carry \cup {0}
      <4>1. carry \cup {0} \in SUBSET (0 .. last) /\ last \in Nat
        BY <3>1, Shapes DEF IInv
      <4> HIDE DEF carry
      <4> QED BY <4>1, Latest
    <3> HIDE DEF carry, able, adopts, places
    <3> QED BY <2>1, <2>2, <3>1, <3>2 DEF CarryReleased
  <2> QED BY <1>2, <1>5, <1>7, <1>14, <2>4, <2>5, <2>6, <2>7, ArrivalsOn DEF StandInv
<1> QED BY <1>11, <1>12
-----------------------------------------------------------------------------
(* The finish. *)

\* A finish that goes on, or ends, and leaves the window alone.
LEMMA FinishStands ==
    ASSUME IInv, StandInv, Firm, Steady, NoNewPlacing, RowsJudged, judged' = judged,
           delivered' \subseteq delivered \cup {n \in judged : work[n] = {}},
           UNCHANGED <<live, settled, disp>>,
           fin'.at # "none" => fin'.n = fin.n /\ fin.at # "none" /\ bare' = bare,
           fin'.at = "none" => bare' = bare \ {fin.n},
           fin.at # "none"
    PROVE  /\ JudgedReady' /\ Unreleased' /\ UnderReleased' /\ CarryReleased'
           /\ EndedJobs' /\ BareIsMerged' /\ DeliveredNothing' /\ JudgedHeld'
           /\ LaterGone' /\ JudgedLatest' /\ OthersJudged' /\ PlaceJudged'
<1>1. JudgedReady'
  BY ReadyOn DEF JudgedReady
<1>2. JudgedHeld'
  BY HeldOn DEF JudgedHeld, Steady
<1>3. HandsOn
  <2>1. \A n : AtHand(n)' => AtHand(n)
    BY DEF AtHand, Ending, Held
  <2>2. ASSUME NEW n, AtHand(n)', n \in bare PROVE n \in bare'
    <3>1. CASE fin'.at # "none"
      BY <2>2, <3>1
    <3>2. CASE fin'.at = "none"
      <4>1. n # fin.n
        <5>1. n \in live \/ n \in settled \/ Held(n)
          BY <2>2, <3>2 DEF AtHand, Ending, Held
        <5>2. \A k \in live \cup settled : tries[k].tick # tries[fin.n].tick
          BY DEF IInv, Flight, OnePlace
        <5>3. Held(n) => tries[n].tick # tries[fin.n].tick
          BY Shapes DEF Held, IInv, Flight, OnePlace
        <5> QED BY <5>1, <5>2, <5>3
      <4> QED BY <2>2, <3>2, <4>1
    <3> QED BY <3>1, <3>2
  <2> QED BY <2>1, <2>2 DEF HandsOn
<1>4. fin.n \in 1 .. last /\ bare \subseteq 1 .. last /\ settled \subseteq 1 .. last
  BY Shapes DEF IInv, TypeInv, WindowOK
<1>5. Arrives
  <2>1. \A n \in settled : n # fin.n
    BY <1>4 DEF IInv, Flight, OnePlace
  <2>2. \A n \in bare : n \in settled \/ n = fin.n
    BY DEF StandInv, BareIsMerged, Reached, Ending
  <2>3. CASE fin'.at # "none"
    <3>1. \A n : Reached(n)' <=> Reached(n)
      BY <2>3 DEF Reached, Ending
    <3> QED BY <2>3, <3>1, EndedArrive
  <2>4. CASE fin'.at = "none"
    <3>1. /\ \A n : Reached(n)' <=> n \in settled
          /\ \A n \in settled : Reached(n)
      BY <2>4 DEF Reached, Ending
    <3>2. \A n \in settled : n \in bare' <=> n \in bare
      BY <2>1, <2>4
    <3>3. \A n \in bare' : n \in settled
      BY <2>2, <2>4
    <3> QED BY <1>4, <2>4, <3>1, <3>2, <3>3 DEF Arrives
  <2> QED BY <2>3, <2>4
<1> QED BY <1>1, <1>2, <1>3, <1>5, ReleasedOn, ArrivalsOn, DeliveredOn, OthersStand

\* Collect finds what was judged ready again, and judges ready only what has ended.
LEMMA CollectJudges ==
    ASSUME IInv, StandInv, Collect, ~ Integrated(fin.n)
    PROVE  /\ fin.n \in judged => Verdict(fin.n) = "ready"
           /\ Verdict(fin.n) = "ready" =>
                  /\ job[fin.n] \in LetGo
                  /\ work[fin.n] # {} \/ Carries(fin.n)
                  /\ ~ (work[fin.n] # {} /\ fin.n \in stray)
                  /\ tries[fin.n].under \cap stray = {}
<1> DEFINE n == fin.n
<1>1. fin.at = "collect" /\ n \notin bare /\ n \in 1 .. last
  BY Shapes DEF Collect, IInv
<1>2. job[n] \in Terminal
  BY <1>1 DEF StandInv, EndedJobs, Reached, Ending
<1>3. n \in judged => Verdict(n) = "ready"
  BY DEF StandInv, JudgedReady, Verdict, Cancelled, LetGo
<1>4. ASSUME Verdict(n) = "ready", n \notin judged
      PROVE  /\ job[n] \in LetGo
             /\ work[n] # {} \/ Carries(n)
             /\ ~ (work[n] # {} /\ n \in stray)
             /\ tries[n].under \cap stray = {}
  BY <1>2, <1>4 DEF Verdict, Cancelled, LetGo, Terminal
<1> QED BY <1>3, <1>4 DEF StandInv, JudgedReady

LEMMA CollectStands == ASSUME IInv, StandInv, Collect PROVE StandInv'
<1> DEFINE n == fin.n
           t == tries[n].tick
<1>1. /\ n \in 1 .. last /\ n \in Numbers /\ 1 .. last \subseteq Numbers /\ t \in Ticks /\ mem \in Rows
      /\ bare \subseteq 1 .. last
      /\ work \in [Numbers -> SUBSET {"local", "origin"}]
  BY Shapes DEF Collect, IInv, TypeInv, HostOK, WindowOK
<1>2. /\ UNCHANGED <<last, tries, job, merged, delivered, stray, live, settled, bare, disp>>
      /\ mem' = [mem EXCEPT ![t].state = "open"]
      /\ work' = work \/ work' = [work EXCEPT ![n] = IF "local" \in @ THEN @ \cup {"origin"} ELSE @]
      /\ row' \in {row, mem, mem'}
      /\ fin.at = "collect" /\ (n \in bare => Integrated(n))
  BY DEF Collect, window
<1>3. /\ mem'[t].state = "open" /\ \A u \in Ticks \ {t} : mem'[u] = mem[u]
  <2> HIDE DEF t
  <2>1. /\ [mem EXCEPT ![t].state = "open"][t].state = "open"
        /\ \A u \in Ticks \ {t} : [mem EXCEPT ![t].state = "open"][u] = mem[u]
    BY <1>1, RowIs
  <2> QED BY <1>2, <2>1
<1>4. \A k \in Numbers : work'[k] = {} <=> work[k] = {}
  <2> HIDE DEF n
  <2> QED BY <1>1, <1>2
<1>5. Firm
  BY <1>2, <1>4 DEF Firm
<1>6. Steady /\ NoNewPlacing
  BY CollectSteady
<1>7. RowsJudged
  BY <1>2, <1>3, RowsFrom
<1>8. /\ fin'.n = n /\ (fin'.at = "release" => fin'.head = Collected(n))
      /\ \/ Integrated(n) /\ fin'.at = "gate" /\ judged' = judged
         \/ ~ Integrated(n) /\ Verdict(n) # "ready" /\ fin'.at = "reject" /\ judged' = judged
         \/ /\ ~ Integrated(n) /\ Verdict(n) = "ready" /\ fin'.at = "release"
            /\ judged' = judged \cup {n} /\ row' = mem'
  <2>1. fin \in FinShape
    BY DEF IInv, TypeInv, FinOK, FinShape
  <2>2. CASE Integrated(n)
    <3>1. fin' = [fin EXCEPT !.at = "gate"] /\ judged' = judged
      BY <2>2 DEF Collect
    <3> QED BY <2>1, <2>2, <3>1 DEF FinShape
  <2>3. CASE ~ Integrated(n) /\ Verdict(n) = "ready"
    <3>1. fin' = [fin EXCEPT !.at = "release", !.head = Collected(n)] /\ judged' = judged \cup {n} /\ row' = mem'
      BY <2>3 DEF Collect
    <3> QED BY <2>1, <2>3, <3>1 DEF FinShape
  <2>4. CASE ~ Integrated(n) /\ Verdict(n) # "ready"
    <3>1. /\ \E again : fin' = [fin EXCEPT !.at = "reject", !.why = Verdict(n), !.again = again]
          /\ judged' = judged
      BY <2>4 DEF Collect
    <3> QED BY <2>1, <2>4, <3>1 DEF FinShape
  <2> QED BY <2>2, <2>3, <2>4
<1>9. JudgedReady'
  <2>1. \A k \in judged : /\ job'[k] \in LetGo
                          /\ work'[k] # {} \/ Carries(k)'
                          /\ ~ (work'[k] # {} /\ k \in stray')
                          /\ tries'[k].under \cap stray' = {}
    BY <1>5, ReadyOn
  <2>2. ASSUME n \in judged', n \notin judged
        PROVE  /\ job'[n] \in LetGo
               /\ work'[n] # {} \/ tries'[n].under # {}
               /\ ~ (work'[n] # {} /\ n \in stray')
               /\ tries'[n].under \cap stray' = {}
    BY <1>1, <1>2, <1>4, <1>8, <2>2, CollectJudges DEF Carries
  <2>3. \A k \in judged' : k \in judged \/ (k = n /\ n \in judged' /\ n \notin judged)
    BY <1>8
  <2> HIDE DEF n
  <2> QED BY <2>1, <2>2, <2>3 DEF JudgedReady, Carries
<1>10. JudgedHeld'
  <2>1. \A k \in judged : /\ rel'[k].by = "none" /\ HeldCommit(k)'
                          /\ mem'[tries[k].tick].state = "rejected" \/ row'[tries[k].tick].state = "rejected"
                          => ~ Disposes(k)'
    BY <1>5, <1>6, <1>7, HeldOn
  <2>2. ASSUME n \in judged', n \notin judged
        PROVE  ~ (mem'[t].state = "rejected" \/ row'[t].state = "rejected")
    BY <1>3, <1>8, <2>2
  <2>3. \A k \in judged' : k \in judged \/ (k = n /\ n \in judged' /\ n \notin judged)
    BY <1>8
  <2> HIDE DEF n
  <2> QED BY <1>2, <2>1, <2>2, <2>3 DEF JudgedHeld
<1>11. FinKnows'
  <2>1. Integrated(n) => Merged(n)
    BY DEF Integrated, Merged, Delivery, StandInv, DeliveredNothing
  <2>2. Collected(n) # n => work[n] = {}
    BY DEF Collected
  <2>3. ~ Integrated(n) /\ n \in judged => Verdict(n) = "ready"
    BY CollectJudges
  <2>4. Merged(n) => Merged(n)'
    BY <1>5, <1>8, MergedOn
  <2> QED BY <1>1, <1>4, <1>8, <2>1, <2>2, <2>3, <2>4 DEF FinKnows
<1>12. HandsOn /\ \A k : Reached(k)' <=> Reached(k)
  BY <1>2, <1>8 DEF HandsOn, AtHand, Reached, Ending, Held
<1>13. Arrives
  BY <1>2, <1>12, EndedArrive
<1>14. DeliveredNothing'
  BY <1>2, <1>5, <1>8, DeliveredOn
\* What is judged now is the only one of its tick at hand, and the latest left.
<1>15. ASSUME n \in judged', n \notin judged
       PROVE  /\ \A k \in 1 .. last : n < k /\ tries[n].tick = tries[k].tick => rel'[k].by # "none"
              /\ \A k \in 1 .. last : AtHand(k)' /\ n # k => tries[n].tick # tries[k].tick
              /\ disp'.at = "place" => tries[n].tick # disp'.tick
  <2>1. AtHand(n) /\ n \notin bare /\ fin.at # "none"
    BY <1>2, <1>8, <1>15 DEF AtHand, Ending
  <2>2. \A k \in 1 .. last : n < k /\ tries[n].tick = tries[k].tick => rel'[k].by # "none"
    BY <1>1, <1>6, <2>1 DEF StandInv, LaterGone, Steady
  <2>3. \A k \in live \cup settled : tries[k].tick # tries[n].tick
    BY <2>1 DEF IInv, Flight, OnePlace
  <2>4. \A k : Held(k) => tries[k].tick # tries[n].tick
    BY <2>1, Shapes DEF Held, IInv, Flight, OnePlace
  <2>5. disp.at = "place" => tries[n].tick # disp.tick
    BY <2>1 DEF IInv, Flight, OnePlace
  <2>6. \A k : AtHand(k) => k = n \/ k \in live \cup settled \/ Held(k)
    BY DEF AtHand, Ending
  <2>7. \A k : AtHand(k)' => AtHand(k)
    BY <1>12 DEF HandsOn
  <2> HIDE DEF n
  <2> QED BY <1>2, <2>2, <2>3, <2>4, <2>5, <2>6, <2>7
<1>16. LaterGone' /\ JudgedLatest' /\ OthersJudged' /\ PlaceJudged'
  <2>1. judged \subseteq judged' /\ \A k \in judged' : k \in judged \/ (k = n /\ n \in judged' /\ n \notin judged)
    BY <1>8
  <2>2. LaterGone'
    BY <1>6, <1>12, GoneOn
  <2>3. JudgedLatest'
    <3>1. \A m \in judged : \A k \in 1 .. last :
              /\ m < k /\ tries[m].tick = tries[k].tick
              /\ rel'[m].by = "none" /\ rel'[k].by = "none"
              => ~ HeldCommit(m)'
      BY <1>5, <1>6, <2>1, OthersOn
    <3> HIDE DEF n
    <3> QED BY <1>2, <1>15, <2>1, <3>1 DEF JudgedLatest
  <2>4. OthersJudged'
    <3>1. \A m \in judged : \A k \in 1 .. last :
              AtHand(k)' /\ m # k /\ tries[m].tick = tries[k].tick /\ rel'[m].by = "none"
              => ~ HeldCommit(m)'
      BY <1>5, <1>6, <1>12, <2>1, OthersOn
    <3> HIDE DEF n
    <3> QED BY <1>2, <1>15, <2>1, <3>1 DEF OthersJudged
  <2>5. PlaceJudged'
    <3>1. disp'.at = "place" => \A m \in judged :
              tries[m].tick = disp.tick /\ rel'[m].by = "none" => ~ HeldCommit(m)'
      BY <1>5, <1>6, <2>1, OthersOn
    <3> HIDE DEF n
    <3> QED BY <1>2, <1>15, <2>1, <3>1 DEF PlaceJudged
  <2> QED BY <2>2, <2>3, <2>4, <2>5
<1>17. judged \subseteq judged'
  BY <1>8
<1> QED BY <1>5, <1>6, <1>9, <1>10, <1>11, <1>12, <1>13, <1>14, <1>16, <1>17, ReleasedOn, ArrivalsOn DEF StandInv
\* A rejection is of what was not judged.
LEMMA RejectStands == ASSUME IInv, StandInv, Reject PROVE StandInv'
<1> DEFINE n     == fin.n
           t     == tries[n].tick
           rows  == [mem EXCEPT ![t].state = "rejected"]
           known == IF fin.why = "boundary" THEN ruled ELSE Named(ruled, rows, {t}, {fin.why})
<1>1. fin.at = "reject" /\ n \in 1 .. last /\ t \in Ticks /\ mem \in Rows /\ n \notin bare /\ n \notin judged
  BY Shapes DEF Reject, IInv, Flight, BareIsNotJudged, StandInv, FinKnows
<1>2. /\ UNCHANGED <<last, tries, judged, merged, delivered, work, stray, live, settled, bare, disp>>
      /\ row' \in {row, rows} /\ fin'.at = "none"
      /\ \E quits \in Quits({n}) : job' = TornDown({n}, quits)
  BY DEF Reject, NoFin
<1>3. mem' = rows \/ mem' = [rows EXCEPT ![t].state = "rejected"]
  <2>1. \/ mem' = rows
        \/ HoldOnly(n, rows, known, fin.why, fin.why # "boundary" /\ HeldCommit(n),
                    fin.why = "missing" /\ job[n] = "failed" /\ work[n] = {})
    BY DEF Reject
  <2> HIDE DEF rows, known
  <2> QED BY <2>1, HoldOnlyIs
<1>4. \A u \in Ticks \ {t} : mem'[u] = mem[u] /\ row'[u] \in {row[u], mem[u]}
  <2> HIDE DEF t
  <2>1. rows \in Rows
    BY <1>1, RejectedRows DEF IInv
  <2>2. \A u \in Ticks \ {t} : rows[u] = mem[u]
    BY <1>1, RowIs
  <2>3. \A u \in Ticks \ {t} : [rows EXCEPT ![t].state = "rejected"][u] = rows[u]
    <3> HIDE DEF rows
    <3> QED BY <1>1, <2>1, RowIs
  <2> HIDE DEF rows
  <2> QED BY <1>2, <1>3, <2>2, <2>3
<1>5. Firm
  <2> {n} \in SUBSET (1 .. last)
    BY <1>1
  <2> HIDE DEF n
  <2> QED BY <1>2, TearDownIsFirm DEF IInv
<1>6. Steady /\ NoNewPlacing
  BY RejectSteady
<1>7. RowsJudged
  <2>1. AtHand(n)
    BY <1>1 DEF AtHand, Ending
  <2> QED BY <1>1, <1>4, <1>6, <2>1, RowsOfOne
<1>8. FinKnows'
  BY <1>2 DEF FinKnows
<1>9. bare' = bare \ {fin.n}
  BY <1>1, <1>2
<1> QED BY <1>1, <1>2, <1>5, <1>6, <1>7, <1>8, <1>9, FinishStands DEF StandInv

\* A conflict releases the attempt, unless the ladder has no step left for it.
LEMMA ConflictStands == ASSUME Recorded, IInv, StandInv, Conflict PROVE StandInv'
<1> DEFINE n    == fin.n
           t    == tries[n].tick
           rows == [mem EXCEPT ![t].state = "rejected"]
           ours == HeldCommit(n) /\ rel[n].by = "none" /\ Disposes(n)
<1>1. fin.at = "merge" /\ n \in 1 .. last /\ t \in Ticks /\ mem \in Rows /\ n \notin bare
  BY Shapes DEF Conflict, IInv, Flight, BareIsNotJudged
<1>2. /\ UNCHANGED <<last, tries, judged, merged, job, work, stray, live, settled, bare, disp>>
      /\ row' = mem /\ fin'.at = "none"
      /\ delivered' = IF fin.head = n THEN delivered ELSE delivered \cup {n}
      /\ mem' = mem \/ mem' = rows
  <2>1. HoldOnly(n, mem, ruled, "other", FALSE, FALSE) => mem' = mem \/ mem' = rows
    BY HoldOnlyIs
  <2> QED BY <2>1 DEF Conflict, NoFin, host
<1>3. delivered' \subseteq delivered \cup {k \in judged : work[k] = {}}
  BY <1>1, <1>2 DEF StandInv, FinKnows
<1>4. \A u \in Ticks \ {t} : mem'[u] = mem[u]
  <2> HIDE DEF t
  <2> QED BY <1>1, <1>2, RowIs
<1>5. Firm
  BY <1>2, UntouchedIsFirm
<1>6. Steady /\ NoNewPlacing
  BY ConflictSteady
<1>7. ours => rel'[n].by # "none"
  <2>1. rel' = [rel EXCEPT ![n] = RunRelease(n, TRUE)] \/ ~ ours
    BY DEF Conflict, Recorded
  <2>2. RunRelease(n, TRUE).by = "run" /\ rel \in [Numbers -> RelShape] /\ n \in Numbers
    BY <1>1, Shapes DEF RunRelease, IInv, TypeInv, RelOK
  <2> HIDE DEF n, ours
  <2> QED BY <2>1, <2>2
<1>8. RowsJudged
  <2>1. AtHand(n)
    BY <1>1 DEF AtHand, Ending
  <2>2. rel'[n].by = "none" => rel[n].by = "none"
    BY <1>1, <1>6 DEF Steady
  <2> QED BY <1>1, <1>2, <1>4, <1>6, <1>7, <2>1, <2>2, RowsOfOne
<1>9. FinKnows'
  BY <1>2 DEF FinKnows
<1>10. bare' = bare \ {fin.n}
  BY <1>1, <1>2
<1> QED BY <1>1, <1>2, <1>3, <1>5, <1>6, <1>8, <1>9, <1>10, FinishStands DEF StandInv

\* What stops at its finish with its row rejected holds nothing.
LEMMA FinishStops ==
    ASSUME IInv, StandInv, HeadMissing \/ MergeNothing \/ GateFails
    PROVE  StandInv'
<1> DEFINE n == fin.n
<1>1. n \in 1 .. last /\ AtHand(n) /\ fin.at # "none"
  BY Shapes DEF IInv, HeadMissing, MergeNothing, GateFails, AtHand, Ending
<1>2. /\ UNCHANGED <<last, tries, judged, merged, delivered, work, stray>>
      /\ Stop(tries[n].tick, [mem EXCEPT ![tries[n].tick].state = "rejected"])
  BY DEF HeadMissing, MergeNothing, GateFails, host
<1>3. Steady
  BY FinishSteady
<1>4. Firm
  <2>1. CASE HeadMissing \/ MergeNothing
    BY <1>2, <2>1, UntouchedIsFirm DEF HeadMissing, MergeNothing, host
  <2>2. CASE GateFails
    <3>1. \E quits \in Quits({n} \ bare) : job' = TornDown({n} \ bare, quits)
      BY <2>2 DEF GateFails
    <3>2. {n} \ bare \in SUBSET (1 .. last)
      BY <1>1
    <3> HIDE DEF n
    <3> QED BY <1>2, <3>1, <3>2, TearDownIsFirm DEF IInv
  <2> QED BY <2>1, <2>2
<1>5. ~ HeldCommit(n)
  <2>1. CASE HeadMissing
    BY <2>1, MergedHolds DEF HeadMissing, StandInv, BareIsMerged
  <2>2. CASE MergeNothing
    <3>1. fin.at = "merge" /\ fin.head # n
      BY <1>1, <2>2 DEF MergeNothing
    <3> QED BY <3>1 DEF StandInv, FinKnows, HeldCommit
  <2>3. CASE GateFails
    BY <2>3, MergedHolds DEF GateFails, StandInv, FinKnows
  <2> QED BY <2>1, <2>2, <2>3
<1> QED BY <1>1, <1>2, <1>3, <1>4, <1>5, StopsOne

\* The finish goes on to the merge, the gate and the close.
LEMMA FinishAdvances ==
    ASSUME IInv, StandInv, ReleaseWorker \/ Merge \/ GatePasses \/ Close
    PROVE  StandInv'
<1> DEFINE n == fin.n
           t == tries[n].tick
<1>1. n \in 1 .. last /\ fin.at # "none" /\ t \in Ticks /\ mem \in Rows /\ n \in Numbers
  BY Shapes DEF IInv, ReleaseWorker, Merge, GatePasses, Close
<1>2. /\ UNCHANGED <<last, tries, rel, judged, work, stray, live, settled, disp>>
      /\ merged \subseteq merged'
  BY DEF ReleaseWorker, Merge, GatePasses, Close, origin, host, window
<1>3. Steady /\ NoNewPlacing
  BY FinishSteady
<1>4. Firm
  <2>1. job' = job \/ \E quits \in Quits({n}) : job' = TornDown({n}, quits)
    BY DEF ReleaseWorker, Merge, GatePasses, Close, host
  <2>2. {n} \in SUBSET (1 .. last)
    BY <1>1
  <2> HIDE DEF n
  <2> QED BY <1>2, <2>1, <2>2, UntouchedIsFirm, TearDownIsFirm DEF IInv
<1>5. RowsJudged
  <2>1. CASE ~ Close
    <3>1. mem' = mem /\ row' \in {row, mem}
      BY <2>1 DEF ReleaseWorker, Merge, GatePasses, origin
    <3> QED BY <3>1, RowsFrom
  <2>2. CASE Close
    <3>1. mem' = [mem EXCEPT ![t].state = "closed"] /\ row' = mem'
      BY <2>2 DEF Close
    <3> HIDE DEF t
    <3>2. mem'[t].state = "closed" /\ \A u \in Ticks \ {t} : mem'[u] = mem[u]
      <4>1. /\ [mem EXCEPT ![t].state = "closed"][t].state = "closed"
            /\ \A u \in Ticks \ {t} : [mem EXCEPT ![t].state = "closed"][u] = mem[u]
        BY <1>1, RowIs
      <4> QED BY <3>1, <4>1
    <3> QED BY <3>1, <3>2, RowsFrom
  <2> QED BY <2>1, <2>2
<1>6. fin \in FinShape
  BY DEF IInv, TypeInv, FinOK, FinShape
<1>7. delivered' \subseteq delivered \cup {k \in judged : work[k] = {}}
  <2>1. CASE Merge
    BY <2>1 DEF Merge, StandInv, FinKnows
  <2>2. CASE ~ Merge
    BY <2>2 DEF ReleaseWorker, GatePasses, Close, origin
  <2> QED BY <2>1, <2>2
<1>8. CASE ReleaseWorker \/ GatePasses
  <2>1. /\ bare' = bare /\ fin'.n = fin.n /\ fin'.head = fin.head
        /\ \/ fin.at = "release" /\ fin'.at = "merge"
           \/ fin.at = "gate" /\ fin'.at = "close"
    BY <1>6, <1>8 DEF ReleaseWorker, GatePasses, window, FinShape
  <2>2. FinKnows'
    BY <1>2, <1>4, <2>1, FinOn DEF FinGoesOn
  <2> QED BY <1>1, <1>2, <1>3, <1>4, <1>5, <1>7, <2>1, <2>2, FinishStands DEF StandInv
<1>9. CASE Merge
  <2>1. /\ bare' = bare /\ fin'.n = fin.n /\ fin'.at = "gate" /\ fin.at = "merge"
        /\ fin.head \in merged'
    BY <1>6, <1>9 DEF Merge, window, FinShape
  <2>2. Merged(n)'
    BY <1>2, <2>1 DEF StandInv, FinKnows, Merged
  <2>3. FinKnows'
    BY <2>1, <2>2 DEF FinKnows, Merged
  <2> QED BY <1>1, <1>2, <1>3, <1>4, <1>5, <1>7, <2>1, <2>3, FinishStands DEF StandInv
<1>10. CASE Close
  <2>1. bare' = bare \ {fin.n} /\ fin'.at = "none"
    BY <1>10 DEF Close, NoFin
  <2>2. FinKnows'
    BY <2>1 DEF FinKnows
  <2> QED BY <1>1, <1>2, <1>3, <1>4, <1>5, <1>7, <2>1, <2>2, FinishStands DEF StandInv
<1> QED BY <1>8, <1>9, <1>10

\* The worker and the person, beside the reconciler.
LEMMA BesideStands ==
    ASSUME IInv, StandInv, NEW n \in Numbers,
           \/ WorkerCommits(n) \/ WorkerPushes(n) \/ WorkerEnds(n)
           \/ \E carry \in BOOLEAN : PersonSettles(n, carry)
    PROVE  StandInv'
<1>1. UNCHANGED <<row, last, tries, judged, merged, delivered, mem, live, settled, bare, disp, fin>>
  BY DEF WorkerCommits, WorkerPushes, WorkerEnds, PersonSettles, origin, memory, window
<1>2. Steady /\ NoNewPlacing
  BY BesideSteady
<1>3. job \in [Numbers -> Jobs] /\ work \in [Numbers -> SUBSET {"local", "origin"}]
  BY DEF IInv, TypeInv, HostOK
<1>4. Firm
  <2>1. CASE WorkerCommits(n) \/ WorkerPushes(n)
    <3>1. /\ job' = job /\ \E place : work' = [work EXCEPT ![n] = @ \cup {place}]
          /\ job[n] = "running" \/ (work[n] # {} /\ stray' = stray)
          /\ stray' \subseteq stray \cup {n}
      BY <2>1 DEF WorkerCommits, WorkerPushes
    <3> QED BY <1>1, <1>3, <3>1 DEF Firm
  <2>2. CASE WorkerEnds(n)
    <3>1. /\ UNCHANGED <<work, stray>>
          /\ \/ job[n] = "running" /\ \E how : job' = [job EXCEPT ![n] = how]
             \/ job[n] = "lingering" /\ job' = [job EXCEPT ![n] = "reported"]
      BY <2>2 DEF WorkerEnds
    <3> QED BY <1>1, <1>3, <3>1 DEF Firm, Terminal, LetGo
  <2>3. ASSUME NEW carry, PersonSettles(n, carry) PROVE Firm
    <3>1. n <= last /\ UNCHANGED <<work, stray>> /\ \E quits \in Quits({n}) : job' = TornDown({n}, quits)
      BY <2>3 DEF PersonSettles
    <3>2. {n} \in SUBSET (1 .. last)
      BY <3>1, Shapes DEF IInv, Numbers
    <3> QED BY <1>1, <3>1, <3>2, TearDownIsFirm DEF IInv
  <2> QED BY <2>1, <2>2, <2>3
<1>5. FinGoesOn /\ HandsOn /\ \A k : Reached(k)' <=> Reached(k)
  BY <1>1 DEF FinGoesOn, HandsOn, AtHand, Reached, Ending, Held
<1>6. Arrives
  BY <1>1, <1>5, EndedArrive
<1>7. RowsJudged
  BY <1>1, RowsFrom
<1> QED BY <1>1, <1>2, <1>4, <1>5, <1>6, <1>7, StandsOn

LEMMA StandStep ==
    ASSUME Recorded, IInv, StandInv, [Next]_vars
    PROVE  StandInv'
<1>1. CASE UNCHANGED vars
  <2>1. UNCHANGED <<row, last, tries, rel, judged, merged, delivered, job, work, stray, mem, live, settled,
                    bare, disp, fin, unaddressed>>
    BY <1>1 DEF vars, origin, host, memory, window
  <2>2. Firm /\ Steady
    BY <2>1, UntouchedIsFirm, UntouchedIsSteady
  <2>3. /\ NoNewPlacing /\ FinGoesOn /\ HandsOn /\ \A k : Reached(k)' <=> Reached(k)
    BY <2>1 DEF NoNewPlacing, FinGoesOn, HandsOn, AtHand, Reached, Ending, Held
  <2>4. Arrives
    BY <2>1, <2>3, EndedArrive
  <2>5. RowsJudged
    BY <2>1, RowsFrom
  <2> QED BY <2>1, <2>2, <2>3, <2>4, <2>5, StandsOn
<1>2. CASE Start \/ Crash \/ Wipe \/ End
  BY <1>2, RunStands
<1>3. CASE \E t \in Ticks : Admit(t) \/ \E denied \in SUBSET Of(t) : AdmitHeld(t, denied)
  BY <1>3, AdmitStands, AdmitHeldStands
<1>4. CASE Adopt \/ Claim \/ DieStarting
  BY <1>4, DispatchStands
<1>5. CASE Place \/ StartJob
  BY <1>5, PlaceStands, StartJobStands
<1>6. CASE Note \/ (\E n \in live : Poll(n) \/ Refuse(n)) \/ \E n \in settled : BeginFinish(n)
  BY <1>6, WindowStands
<1>7. CASE Collect \/ Reject \/ Conflict
  BY <1>7, CollectStands, RejectStands, ConflictStands
<1>8. CASE HeadMissing \/ MergeNothing \/ GateFails
  BY <1>8, FinishStops
<1>9. CASE ReleaseWorker \/ Merge \/ GatePasses \/ Close
  BY <1>9, FinishAdvances
<1>10. CASE \E n \in Numbers : \/ WorkerCommits(n) \/ WorkerPushes(n) \/ WorkerEnds(n)
                               \/ \E carry \in BOOLEAN : PersonSettles(n, carry)
  BY <1>10, BesideStands
<1> QED BY <1>1, <1>2, <1>3, <1>4, <1>5, <1>6, <1>7, <1>8, <1>9, <1>10 DEF Next

LEMMA StandInit == Init => StandInv
<1> SUFFICES ASSUME Init PROVE StandInv
  OBVIOUS
<1>1. /\ last = 0 /\ judged = {} /\ delivered = {} /\ bare = {} /\ live = {} /\ settled = {}
      /\ disp.at = "none" /\ fin.at = "none"
  BY DEF Init, NoDisp, NoFin
<1>2. 1 .. last = {}
  BY <1>1
<1> QED BY <1>1, <1>2 DEF StandInv, JudgedReady, Unreleased, UnderReleased, CarryReleased, EndedJobs,
                          BareIsMerged, DeliveredNothing, FinKnows, LaterGone, JudgedLatest, OthersJudged,
                          PlaceJudged, JudgedHeld

-----------------------------------------------------------------------------
(* Whom the run releases. *)

Stands == \A m \in judged : rel[m].by = "none" /\ rel'[m].by = "run" => fin.at = "merge"

\* The walk releases what a rejected row holds and the ladder has a step for.
LEMMA WalkStands ==
    ASSUME IInv, StandInv, NEW t \in Ticks,
           Admit(t) \/ \E denied \in SUBSET Of(t) : AdmitHeld(t, denied)
    PROVE  Stands
<1> SUFFICES ASSUME NEW m \in judged, rel[m].by = "none", rel'[m].by = "run" PROVE FALSE
  BY DEF Stands
<1>1. m \in 1 .. last /\ m \in Numbers
  BY JudgedIsStill
<1>2. Disposes(m)
  BY <1>1, AdmitSteady, AdmitHeldSteady DEF Steady
<1>3. Fate(m) = "hold"
  <2>1. \E ns \in SUBSET Fated(t, {"hold"}) : Release(ns)
    BY DEF Admit, AdmitHeld
  <2> QED BY <1>1, <2>1 DEF Release, Fated
<1>4. HeldCommit(m) /\ mem[tries[m].tick].state = "rejected"
  BY <1>1, <1>3, HeldHasWork DEF IInv, HeldCommit
<1> QED BY <1>2, <1>4 DEF StandInv, JudgedHeld

LEMMA StandHolds ==
    ASSUME IInv, StandInv, [Next]_vars
    PROVE  Stands
<1>1. CASE \E t \in Ticks : Admit(t) \/ \E denied \in SUBSET Of(t) : AdmitHeld(t, denied)
  BY <1>1, WalkStands
<1>2. CASE Collect
  <2> SUFFICES ASSUME NEW m \in judged, rel[m].by = "none", rel'[m].by = "run" PROVE FALSE
    BY DEF Stands
  <2> DEFINE n == fin.n
  <2>1. \/ rel' = rel
        \/ /\ ~ Integrated(n) /\ Verdict(n) # "ready"
           /\ \E carry : rel' = [rel EXCEPT ![n] = RunRelease(n, carry)]
    BY <1>2 DEF Collect
  <2>2. m = n
    <3>1. m \in Numbers /\ rel \in [Numbers -> RelShape]
      BY JudgedIsStill DEF IInv, TypeInv, RelOK
    <3> HIDE DEF n
    <3> QED BY <2>1, <3>1
  <2> QED BY <1>2, <2>1, <2>2, CollectJudges
<1>3. CASE Reject
  <2> SUFFICES ASSUME NEW m \in judged, rel[m].by = "none", rel'[m].by = "run" PROVE FALSE
    BY DEF Stands
  <2> DEFINE n     == fin.n
             rows  == [mem EXCEPT ![tries[n].tick].state = "rejected"]
             known == IF fin.why = "boundary" THEN ruled ELSE Named(ruled, rows, {tries[n].tick}, {fin.why})
             holds == fin.why # "boundary" /\ HeldCommit(n)
             silent == fin.why = "missing" /\ job[n] = "failed" /\ work[n] = {}
  <2>1. rel' = rel \/ HoldOnly(n, rows, known, fin.why, holds, silent)
    BY <1>3 DEF Reject
  <2>2. n \notin judged
    BY <1>3 DEF Reject, StandInv, FinKnows
  <2>3. m \in Numbers /\ rel \in [Numbers -> RelShape]
    BY JudgedIsStill DEF IInv, TypeInv, RelOK
  <2> HIDE DEF n, rows, known, holds, silent
  <2>4. rel' = rel \/ rel' = [rel EXCEPT ![n] = RunRelease(n, TRUE)]
    BY <2>1, HoldOnlyIs
  <2> QED BY <2>2, <2>3, <2>4
<1>4. CASE Conflict
  BY <1>4 DEF Conflict, Stands
<1>5. ASSUME NEW n \in Numbers, NEW carry, PersonSettles(n, carry) PROVE Stands
  <2>1. rel' = [rel EXCEPT ![n] = [by |-> "person", carry |-> carry, step |-> "none"]]
    BY <1>5 DEF PersonSettles
  <2>2. judged \subseteq Numbers /\ rel \in [Numbers -> RelShape]
    BY JudgedIsStill DEF IInv, TypeInv, RelOK
  <2> QED BY <2>1, <2>2 DEF Stands
<1>6. ASSUME rel' = rel PROVE Stands
  BY <1>6 DEF Stands
<1>7. ASSUME NEW n \in live, Poll(n) \/ Refuse(n) PROVE rel' = rel
  BY <1>7, HoldOnlyIs DEF Poll, Refuse, origin
<1>8. UNCHANGED vars => rel' = rel
  BY DEF vars, origin
<1>9. Start \/ Crash \/ Wipe \/ End \/ Adopt \/ Place \/ Claim \/ StartJob \/ DieStarting \/ Note => rel' = rel
  BY DEF Start, Crash, Wipe, End, Adopt, Place, Claim, StartJob, DieStarting, Note, origin
<1>10. /\ HeadMissing \/ ReleaseWorker \/ Merge \/ MergeNothing \/ GatePasses \/ GateFails \/ Close => rel' = rel
       /\ \A n \in settled : BeginFinish(n) => rel' = rel
  BY DEF HeadMissing, ReleaseWorker, Merge, MergeNothing, GatePasses, GateFails, Close, BeginFinish, origin
<1>11. \A n \in Numbers : WorkerCommits(n) \/ WorkerPushes(n) \/ WorkerEnds(n) => rel' = rel
  BY DEF WorkerCommits, WorkerPushes, WorkerEnds, origin
<1> QED BY <1>1, <1>2, <1>3, <1>4, <1>5, <1>6, <1>7, <1>8, <1>9, <1>10, <1>11 DEF Next

\* The recorded verdict stands (dispatch.go, collect): the run releases an attempt
\* it judged only over a merge conflict, over every restart, where no host is lost
\* with its work and a release the ladder grants is recorded.
THEOREM VerdictStands ==
    ASSUME Recorded
    PROVE  Spec => JudgedStands
<1>1. IInv /\ StandInv /\ [Next]_vars => StandInv' /\ [Stands]_vars
  BY StandStep, StandHolds
<1>2. Spec => [][Stands]_vars
  <2> HIDE DEF Stands
  <2> QED BY <1>1, StandInit, Invariance, PTL DEF Spec
<1> QED BY <1>2 DEF JudgedStands, Stands

=============================================================================
