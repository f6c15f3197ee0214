----------------------- MODULE RunStorePromiseProofs -----------------------
(***************************************************************************)
(* What the run-state store promises its callers, for every number of      *)
(* writers, every set of records and every bound: what was told landed is  *)
(* durable and stays in sight and in order, a grant is given once, what    *)
(* was refused stays out, the tag marks one end, and the store implements  *)
(* the ledger.                                                             *)
(***************************************************************************)
EXTENDS RunStoreChainProofs

\* Two processes never write the same record: a dispatch marker names its
\* dispatcher, an evidence record and a checkpoint the process that wrote them.
\* A retry after a lost reply compares its record with what is at the head
\* (remote.go, ownWrite); between two processes the comparison tells them apart.
BodiesDiffer == \A v, w \in Writers : Body[v] = Body[w] => v = w

-----------------------------------------------------------------------------
(* What a writer was told landed *)

\* A writer that has read origin bases its chain on a view with what it landed.
AckedSeen ==
    \A a \in acked : a.path \in Records /\ store[a.by].fetched =>
                        Base(store[a.by])[a.path] # Absent

AckedInv == AckedIsDurable /\ AckedSeen /\ OrderKept

\* A push that carries exactly what another did is that push: each record says
\* whose it is and at which call it was made.
LEMMA SameIsOwn ==
    ASSUME BodiesDiffer, NEW p \in Pushes, NEW q \in Pushes, SameContent(p, q),
           NEW v \in Writers, NEW w \in Writers, NEW m, NEW n,
           Made(p.recs, v, m), Made(q.recs, w, n)
    PROVE  Ids(q.recs) = Ids(p.recs)
<1> DEFINE a == p.recs[1]
           b == q.recs[1]
<1>1. /\ DOMAIN p.recs = 1 .. 1 /\ DOMAIN q.recs = 1 .. 1
  <2>1. p.recs \in Seq(HeldWrites) /\ q.recs \in Seq(HeldWrites)
    BY DEF Pushes
  <2> QED BY <2>1, ChainDomain DEF SameContent
<1>2. a \in HeldWrites /\ b \in HeldWrites
  <2>1. p.recs \in Seq(HeldWrites) /\ q.recs \in Seq(HeldWrites)
    BY DEF Pushes
  <2> QED BY <1>1, <2>1, ChainDomain
<1>3. a.path = b.path /\ a.blob = b.blob
  <2>1. \A f \in {"kind", "path", "blob"} : a[f] = b[f]
    BY DEF SameContent
  <2>2. a["path"] = b["path"] /\ a["blob"] = b["blob"]
    BY <2>1
  <2> QED BY <2>2
<1>4. /\ a.by = v /\ a.blob.at = a.op /\ a.blob.body = Body[v]
      /\ b.by = w /\ b.blob.at = b.op /\ b.blob.body = Body[w]
  BY <1>1 DEF Made, MadeBy
<1>5. v = w
  BY <1>3, <1>4 DEF BodiesDiffer
<1>6. Id(a) = Id(b)
  BY <1>3, <1>4, <1>5 DEF Id
<1>7. Ids(p.recs) = {Id(a)} /\ Ids(q.recs) = {Id(b)}
  BY <1>1 DEF Ids
<1> QED BY <1>6, <1>7

\* What a writer takes for its own landing is its own landing.
LEMMA OwnIsLanded ==
    ASSUME BodiesDiffer, IInv, MadeInv, NEW w \in Writers, OwnLanded(w)
    PROVE  Ids(store[w].held) \subseteq landed
<1>1. flush[w].phase = "refused" /\ OwnWrite(w)
  BY DEF OwnLanded, InPhase
<1>2. /\ origin.last \in Pushes /\ origin.last.by \in Writers
      /\ \A p \in flush[w].sent : p \in Pushes
  BY IInvParts DEF RestOK, Branches, Pushes, FlushOK, Flushes
<1>3. /\ Made(origin.last.recs, origin.last.by, ops[origin.last.by])
      /\ Ids(origin.last.recs) \subseteq landed
  BY DEF MadeInv, LastMade
<1>4. \A p \in flush[w].sent : Made(p.recs, w, ops[w]) /\ Ids(store[w].held) \subseteq Ids(p.recs)
  BY <1>1 DEF MadeInv, SentMade
<1>5. CASE origin.last \in flush[w].sent
  BY <1>3, <1>4, <1>5
<1>6. CASE \E p \in flush[w].sent : SameContent(origin.last, p)
  <2>1. PICK p \in flush[w].sent : SameContent(origin.last, p)
    BY <1>6
  <2>2. Ids(p.recs) = Ids(origin.last.recs)
    BY <1>2, <1>3, <1>4, <2>1, SameIsOwn
  <2> QED BY <1>3, <1>4, <2>2
<1> QED BY <1>1, <1>5, <1>6 DEF OwnWrite

LEMMA QuietAcked ==
    ASSUME IInv, IInv', MadeInv, AckedInv, NEW w \in Writers, Quiet(w)
    PROVE  AckedInv'
<1> DEFINE s == store[w]
           t == store'[w]
<1>1. /\ acked' = acked /\ landed' = landed /\ BaseMoves(s, t) /\ ChainMoves(w, s, t)
      /\ \A v \in Writers \ {w} : store'[v] = store[v]
  BY DEF Quiet, OthersStay
<1>2. \A a \in acked : a \in landed /\ a.by \in Writers /\ a.op \in Nat
  BY IInvParts DEF AckedInv, AckedIsDurable, RestOK, RecordIds
<1>3. AckedIsDurable'
  BY <1>1 DEF AckedInv, AckedIsDurable
<1>4. ASSUME NEW a \in acked, a.path \in Records, store'[a.by].fetched
      PROVE  Base(store'[a.by])[a.path] # Absent
  <2>1. CASE a.by = w
    <3>1. origin.view[a.path] # Absent
      BY <1>2, <1>4 DEF MadeInv, LandedMade
    <3>2. s.fetched => Base(s)[a.path] # Absent
      BY <1>4, <2>1 DEF AckedInv, AckedSeen
    <3> QED BY <1>1, <1>4, <2>1, <3>1, <3>2 DEF BaseMoves
  <2>2. CASE a.by # w
    BY <1>1, <1>2, <1>4, <2>2 DEF AckedInv, AckedSeen
  <2> QED BY <2>1, <2>2
<1>5. ASSUME NEW a \in acked, NEW i \in DOMAIN store'[a.by].held
      PROVE  store'[a.by].held[i].op > a.op
  <2>1. CASE a.by # w
    BY <1>1, <1>2, <2>1 DEF AckedInv, OrderKept
  <2>2. CASE a.by = w
    <3>1. /\ \A j \in DOMAIN s.held : s.held[j].op > a.op
          /\ s.held \in Seq(HeldWrites) /\ t.held \in Seq(HeldWrites)
          /\ i \in DOMAIN t.held
      BY <1>5, <2>2, QuietFacts DEF AckedInv, OrderKept
    <3>2. /\ DOMAIN s.held = 1 .. Len(s.held) /\ DOMAIN t.held = 1 .. Len(t.held)
          /\ Len(s.held) \in Nat /\ Len(t.held) \in Nat
      BY <3>1, ChainDomain
    <3>3. CASE t.held = <<>>
      BY <3>1, <3>3
    <3>4. CASE t.held = s.held
      BY <2>2, <3>1, <3>4
    <3>5. CASE t.held = Front(s.held) /\ s.held # <<>>
      <4>1. /\ Len(t.held) = Len(s.held) - 1
            /\ \A j \in 1 .. Len(s.held) - 1 : t.held[j] = s.held[j]
        BY <3>1, <3>5, FrontType
      <4> QED BY <2>2, <3>1, <3>2, <4>1
    <3>6. CASE Grown(w, s, t)
      <4>1. PICK r \in HeldWrites : t.held = Append(s.held, r) /\ r.op = ops[w]
        BY <3>6 DEF Grown, Joins
      <4>2. /\ t.held[Len(s.held) + 1] = r /\ Len(t.held) = Len(s.held) + 1
            /\ \A j \in 1 .. Len(s.held) : t.held[j] = s.held[j]
        BY <3>1, <4>1, AppendType
      <4>3. a.op < ops[w]
        BY <1>2, <2>2 DEF MadeInv, LandedMade
      <4>4. ops[w] \in Nat /\ a.op \in Nat
        BY <1>2, QuietFacts
      <4>5. CASE i \in 1 .. Len(s.held)
        BY <2>2, <3>1, <3>2, <4>2, <4>5
      <4>6. CASE i = Len(s.held) + 1
        BY <2>2, <4>1, <4>2, <4>3, <4>4, <4>6
      <4> QED BY <3>1, <3>2, <4>2, <4>5, <4>6
    <3> QED BY <1>1, <3>3, <3>4, <3>5, <3>6 DEF ChainMoves, Rebased
  <2> QED BY <2>1, <2>2
<1> QED BY <1>1, <1>3, <1>4, <1>5 DEF AckedInv, AckedSeen, OrderKept

\* A writer that is told of a landing has origin's view and nothing in its chain.
LEMMA ToldAcked ==
    ASSUME IInv, IInv', MadeInv', AckedInv, NEW w \in Writers,
           store'[w].held = <<>>, Base(store'[w]) = origin'.view,
           \A v \in Writers \ {w} : store'[v] = store[v],
           acked' = acked \cup Ids(store[w].held), acked' \subseteq landed',
           Made(store[w].held, w, ops[w])
    PROVE  AckedInv'
<1>1. \A a \in acked' : /\ a \in landed' /\ a.by \in Writers /\ a.op \in Nat
                        /\ a.by # w => a \in acked
  <2>1. \A a \in acked' : a.by \in Writers /\ a.op \in Nat
    BY IInvPartsNext DEF RestOK, RecordIds
  <2>2. \A a \in Ids(store[w].held) : a.by = w
    BY DEF Ids, Id, Made, MadeBy
  <2> QED BY <2>1, <2>2
<1>2. AckedIsDurable'
  BY DEF AckedIsDurable
<1>3. ASSUME NEW a \in acked', a.path \in Records, store'[a.by].fetched
      PROVE  Base(store'[a.by])[a.path] # Absent
  <2>1. CASE a.by = w
    BY <1>1, <1>3, <2>1 DEF MadeInv, LandedMade
  <2>2. CASE a.by # w
    BY <1>1, <1>3, <2>2 DEF AckedInv, AckedSeen
  <2> QED BY <2>1, <2>2
<1>4. ASSUME NEW a \in acked', NEW i \in DOMAIN store'[a.by].held
      PROVE  store'[a.by].held[i].op > a.op
  <2>1. a.by # w
    BY <1>4
  <2> QED BY <1>1, <1>4, <2>1 DEF AckedInv, OrderKept
<1> QED BY <1>2, <1>3, <1>4 DEF AckedInv, AckedSeen, OrderKept

LEMMA PushAckedAcked ==
    ASSUME IInv, IInv', MadeInv, MadeInv', AckedInv, NEW w \in Writers, PushAcked(w)
    PROVE  AckedInv'
<1>1. PICK s : s = [store[w] EXCEPT !.head = origin.ver + 1]
  OBVIOUS
<1>2. s \in Stores /\ Land(w, s) /\ Arrive(ThePush(w)) /\ s.view = store[w].view
  BY <1>1, AckedHead DEF PushAcked
<1>3. /\ store'[w].held = <<>> /\ store'[w].view = store[w].view
      /\ \A v \in Writers \ {w} : store'[v] = store[v]
      /\ acked' = acked \cup Ids(store[w].held)
  BY <1>2, LandFacts
<1>4. origin'.view = Over(origin.view, store[w].held)
  BY <1>2, AckedPush, ArriveInv
<1>5. store[w].held # <<>>
  BY IInvParts DEF Pushing, PushAcked, InPhase
<1>6. Base(store'[w]) = origin'.view
  BY <1>3, <1>4, <1>5, StoreFacts DEF PushAcked, Base
<1>7. landed' = landed \cup Ids(store[w].held)
  BY <1>2, AckedPush DEF Arrive
<1>8. acked' \subseteq landed'
  BY <1>3, <1>7 DEF AckedInv, AckedIsDurable
<1> QED BY <1>3, <1>6, <1>8, AckedPush, ToldAcked

LEMMA OwnLandedAcked ==
    ASSUME BodiesDiffer, IInv, IInv', MadeInv, MadeInv', AckedInv, NEW w \in Writers,
           OwnLanded(w)
    PROVE  AckedInv'
<1>1. PICK s : s = Fetched(store[w])
  OBVIOUS
<1>2. s \in Stores /\ s.view = origin.view
  BY <1>1, StoreFacts DEF Fetched, Stores, Branches
<1>3. Land(w, s) /\ origin' = origin /\ landed' = landed
  BY <1>1 DEF OwnLanded, remote
<1>4. /\ store'[w].held = <<>> /\ store'[w].view = origin.view
      /\ \A v \in Writers \ {w} : store'[v] = store[v]
      /\ acked' = acked \cup Ids(store[w].held)
  BY <1>2, <1>3, LandFacts
<1>5. Base(store'[w]) = origin'.view
  BY <1>3, <1>4 DEF Base
<1>6. acked' \subseteq landed'
  BY <1>3, <1>4, OwnIsLanded DEF AckedInv, AckedIsDurable
<1>7. Made(store[w].held, w, ops[w])
  BY DEF MadeInv, ChainsMade
<1> QED BY <1>4, <1>5, <1>6, <1>7, ToldAcked

LEMMA InitAcked == Init => AckedInv
BY DEF Init, AckedInv, AckedIsDurable, AckedSeen, OrderKept

LEMMA NextAcked ==
    ASSUME BodiesDiffer
    PROVE  IInv /\ IInv' /\ MadeInv /\ MadeInv' /\ AckedInv /\ [Next]_vars => AckedInv'
<1> SUFFICES ASSUME IInv, IInv', MadeInv, MadeInv', AckedInv, [Next]_vars PROVE AckedInv'
  OBVIOUS
<1>1. CASE UNCHANGED vars
  BY <1>1 DEF vars, histories, AckedInv, AckedIsDurable, AckedSeen, OrderKept
<1>2. ASSUME NEW push \in inflight, LateArrival(push) PROVE AckedInv'
  BY <1>2 DEF LateArrival, Arrive, AckedInv, AckedIsDurable, AckedSeen, OrderKept
<1> QED BY <1>1, <1>2, StepKinds, QuietAcked, PushAckedAcked, OwnLandedAcked

LEMMA AckedKept ==
    ASSUME BodiesDiffer
    PROVE  Spec => []AckedInv
<1>1. Init => AckedInv
  BY InitAcked
<1>2. IInv /\ IInv' /\ MadeInv /\ MadeInv' /\ AckedInv /\ [Next]_vars => AckedInv'
  BY NextAcked
<1> QED BY <1>1, <1>2, Invariance, ChainsFit, PTL DEF Spec

\* Durable means pushed: what a writer was told landed is on the branch, also
\* when it learned of it from a push it never heard back about (remote.go).
THEOREM AckedMeansLanded ==
    ASSUME BodiesDiffer
    PROVE  Spec => []AckedIsDurable
<1>1. AckedInv => AckedIsDurable
  BY DEF AckedInv
<1> QED BY <1>1, AckedKept, PTL

\* The effect a marker guards happens once: of all the creates of one path, at
\* most one is told "created" (store.go, CreateIfAbsent).
THEOREM GrantsAreUnique ==
    ASSUME BodiesDiffer
    PROVE  Spec => []AtMostOneGrant
<1>1. IInv /\ MadeInv /\ AckedInv => AtMostOneGrant
  <2> SUFFICES ASSUME IInv, MadeInv, AckedInv, NEW a \in acked, NEW b \in acked,
                      a.path \in Markers, a.path = b.path
               PROVE  a = b
    BY DEF AtMostOneGrant
  <2>1. a \in RecordIds /\ b \in RecordIds /\ a \in landed /\ b \in landed
    BY IInvParts DEF RestOK, AckedInv, AckedIsDurable
  <2>2. GrantOf(a) = GrantOf(b)
    BY <2>1 DEF MadeInv, LandedMade
  <2>3. Body[a.by] = Body[b.by] /\ a.op = b.op
    BY <2>2 DEF GrantOf
  <2>4. a.by = b.by
    BY <2>1, <2>3 DEF BodiesDiffer, RecordIds
  <2> QED BY <2>1, <2>3, <2>4 DEF RecordIds
<1> QED BY <1>1, Invariance, ChainsFit, AckedKept, PTL

\* A writer that has read origin since it started sees every record it was told
\* landed, through refused pushes, dropped chains and rebuilds (held.go).
THEOREM WritesAreRead ==
    ASSUME BodiesDiffer
    PROVE  Spec => []ReadsItsWrites
<1>1. IInv /\ AckedInv => ReadsItsWrites
  <2> SUFFICES ASSUME IInv, AckedInv, NEW a \in acked, a.path \in Records,
                      store[a.by].fetched
               PROVE  store[a.by].view[a.path] # Absent
    BY DEF ReadsItsWrites
  <2>1. a.by \in Writers
    BY IInvParts DEF RestOK, RecordIds
  <2>2. Base(store[a.by])[a.path] # Absent
    BY DEF AckedInv, AckedSeen
  <2>3. /\ Base(store[a.by]) \in Views /\ store[a.by].held \in Seq(HeldWrites)
        /\ store[a.by].view = Over(Base(store[a.by]), store[a.by].held)
    BY <2>1, StoreFacts
  <2> QED BY <2>2, <2>3, OverIsView
<1> QED BY <1>1, Invariance, AckedKept, PTL

\* A record never overtakes one its writer chained before it (held.go).
THEOREM ChainOrderKept ==
    ASSUME BodiesDiffer
    PROVE  Spec => []OrderKept
<1>1. AckedInv => OrderKept
  BY DEF AckedInv
<1> QED BY <1>1, AckedKept, PTL

-----------------------------------------------------------------------------
(* The store implements the ledger *)

LEMMA AckedGrows ==
    ASSUME IInv, [Next]_vars
    PROVE  acked \subseteq acked'
<1>1. ASSUME NEW w \in Writers, PushAcked(w) \/ OwnLanded(w) PROVE acked \subseteq acked'
  BY <1>1 DEF PushAcked, OwnLanded, Land
<1>2. ASSUME NEW push \in inflight, LateArrival(push) PROVE acked' = acked
  BY <1>2 DEF LateArrival
<1>3. CASE UNCHANGED vars
  BY <1>3 DEF vars, histories
<1> QED BY <1>1, <1>2, <1>3, StepKinds DEF Quiet

\* A path that advances shows what it showed, or a later record.
LEMMA PathFollows ==
    ASSUME IInv, IInv', MadeInv, [Next]_vars, NEW p \in Advancing
    PROVE  Ledger!Follows(origin'.view[p], origin.view[p])
<1>1. CASE origin' = origin
  BY <1>1 DEF Ledger!Follows
<1>2. CASE origin' # origin
  <2> DEFINE old == origin.view[p]
             new == origin'.view[p]
  <2>1. PICK push \in Pushes : Arrive(push) /\ Sound(push.recs, origin.view)
    BY <1>2, BranchMoves
  <2> DEFINE k == Written(push.recs, p, Len(push.recs))
  <2>2. /\ p \in Records /\ push.recs \in Seq(HeldWrites) /\ origin.view \in Views
        /\ origin'.view \in Views /\ origin'.view = Over(origin.view, push.recs)
    BY <2>1, AdvancingPaths, ArriveInv, IInvParts DEF RestOK, Branches, Pushes
  <2>3. old \in Blobs \cup {Absent} /\ new \in Blobs \cup {Absent} /\ k \in Nat
    BY <2>2, WrittenType, ChainDomain DEF Views
  <2>4. Rank(p, new) = Rank(p, old) + k
    BY <2>1, ArriveAdvances
  <2>5. CASE \A i \in DOMAIN push.recs : push.recs[i].path # p
    BY <2>2, <2>5, OverUnwritten DEF Ledger!Follows
  <2>6. CASE \E i \in DOMAIN push.recs : push.recs[i].path = p
    <3>1. PICK i \in DOMAIN push.recs : push.recs[i].path = p
      BY <2>6
    <3>2. DOMAIN push.recs = 1 .. Len(push.recs) /\ Len(push.recs) \in Nat
      BY <2>2, ChainDomain
    <3>3. k # 0
      <4>1. i \in WrittenAt(push.recs, p, Len(push.recs))
        BY <3>1, <3>2 DEF WrittenAt
      <4>2. IsFiniteSet(WrittenAt(push.recs, p, Len(push.recs)))
        BY <3>2, WrittenType
      <4> QED BY <4>1, <4>2, FS_EmptySet DEF Written
    <3>4. old # Absent => new # Absent
      BY <2>2, OverIsView
    <3> HIDE DEF k, new, old
    <3>5. CASE old = Absent
      BY <3>5 DEF Ledger!Follows, new, old
    <3>6. CASE old # Absent
      <4>1. new # Absent /\ new \in Blobs /\ old \in Blobs
        BY <2>3, <3>4, <3>6
      <4>2. new.seq \in Nat /\ old.seq \in Nat
        BY <4>1 DEF Blobs
      <4>3. Rank(p, new) = (IF p \in Registers THEN new.seq + 1 ELSE new.seq)
            /\ Rank(p, old) = (IF p \in Registers THEN old.seq + 1 ELSE old.seq)
        BY <3>6, <4>1 DEF Rank
      <4>4. k \in Nat /\ k # 0
        BY <2>3, <3>3
      <4>5. new.seq > old.seq
        BY <2>4, <4>2, <4>3, <4>4
      <4> QED BY <3>6, <4>1, <4>5 DEF Ledger!Follows, new, old
    <3> QED BY <3>5, <3>6
  <2> QED BY <2>5, <2>6
<1> QED BY <1>1, <1>2

\* A marker that is on the branch stays as it is.
LEMMA MarkerStays ==
    ASSUME IInv, MadeInv, [Next]_vars, NEW p \in Markers, origin.view[p] # Absent
    PROVE  origin'.view[p] = origin.view[p]
<1>1. CASE origin' = origin
  BY <1>1
<1>2. CASE origin' # origin
  <2>1. PICK push \in Pushes : Arrive(push) /\ Sound(push.recs, origin.view)
    BY <1>2, BranchMoves
  <2>2. SafeChain(push.recs, origin.view)
    BY <2>1 DEF Sound, Placed, Guarded, SafeChain
  <2> QED BY <2>1, <2>2, ArriveKeepsMarkers
<1> QED BY <1>1, <1>2

\* The creates of a path that were told "created", as the records they put there.
GrantsAt(p, told) == {GrantOf(a) : a \in {b \in told : b.path = p}}

LEMMA GrantStep ==
    ASSUME IInv, IInv', MadeInv, MadeInv', AckedInv, AckedInv', [Next]_vars, NEW p \in Markers
    PROVE  \/ GrantsAt(p, acked') = GrantsAt(p, acked)
           \/ GrantsAt(p, acked') = {origin'.view[p]} \ {Absent}
<1>1. acked \subseteq acked'
  BY AckedGrows
<1>2. \A a \in acked' : a.path = p => GrantOf(a) = origin'.view[p] /\ origin'.view[p] # Absent
  BY DEF AckedInv, AckedIsDurable, MadeInv, LandedMade, Records
<1>3. CASE \E a \in acked' : a.path = p
  <2>1. GrantsAt(p, acked') = {origin'.view[p]} \ {Absent}
    BY <1>2, <1>3 DEF GrantsAt
  <2> QED BY <2>1
<1>4. CASE ~ \E a \in acked' : a.path = p
  <2>1. GrantsAt(p, acked') = {} /\ GrantsAt(p, acked) = {}
    BY <1>1, <1>4 DEF GrantsAt
  <2> QED BY <2>1
<1> QED BY <1>3, <1>4

LEMMA InitLedger == Init => Ledger!Init
<1> SUFFICES ASSUME Init PROVE Ledger!Init
  OBVIOUS
<1>1. origin.view = [p \in Markers \cup (Registers \cup {Checkpoint}) |-> Absent]
  BY DEF Init, EmptyView, Records
<1>2. acked = {}
  BY DEF Init
<1> QED BY <1>1, <1>2 DEF Ledger!Init

LEMMA NextLedger ==
    ASSUME IInv, IInv', MadeInv, MadeInv', AckedInv, AckedInv', [Next]_vars
    PROVE  Ledger!Step
<1>1. \A p \in Markers : origin.view[p] # Absent => origin'.view[p] = origin.view[p]
  BY MarkerStays
<1>2. \A p \in Registers \cup {Checkpoint} : Ledger!Follows(origin'.view[p], origin.view[p])
  BY PathFollows DEF Advancing
<1>3. ASSUME NEW p \in Markers
      PROVE  \/ [q \in Markers |-> {GrantOf(a) : a \in {b \in acked : b.path = q}}]'[p]
                  = [q \in Markers |-> {GrantOf(a) : a \in {b \in acked : b.path = q}}][p]
             \/ [q \in Markers |-> {GrantOf(a) : a \in {b \in acked : b.path = q}}]'[p]
                  = {origin'.view[p]} \ {Absent}
  BY GrantStep DEF GrantsAt
<1> QED BY <1>1, <1>2, <1>3 DEF Ledger!Step

\* The store implements the ledger: batches land atomically, a path only moves
\* on, and a grant is given once, by the record that is there (doc.go).
THEOREM StoreImplementsLedger ==
    ASSUME BodiesDiffer
    PROVE  Spec => ImplementsLedger
<1>1. Init => Ledger!Init
  BY InitLedger
<1>2. IInv /\ IInv' /\ MadeInv /\ MadeInv' /\ AckedInv /\ AckedInv' /\ [Next]_vars
        => [Ledger!Step]_Ledger!ledger
  BY NextLedger
<1> QED BY <1>1, <1>2, Invariance, ChainsFit, AckedKept, PTL
        DEF Spec, ImplementsLedger, Ledger!Spec

-----------------------------------------------------------------------------
(* What a writer was told did not land *)

\* The records of the pushes nobody heard back about.
FlightIds == UNION {Ids(p.recs) : p \in inflight}

\* A record is in its writer's chain, or has landed, or may land, or is disowned,
\* and what is disowned is none of the others.
HonestInv ==
    /\ \A w \in Writers : Ids(store[w].held) \cap (landed \cup disowned \cup FlightIds) = {}
    /\ disowned \cap (landed \cup FlightIds) = {}
    /\ \A a \in disowned : a.op < ops[a.by]

LEMMA LastIsApart ==
    ASSUME NEW chain \in Seq(HeldWrites), chain # <<>>, Ordered(chain)
    PROVE  Id(Last(chain)) \notin Ids(Front(chain))
<1>1. /\ DOMAIN Front(chain) = 1 .. Len(chain) - 1 /\ DOMAIN chain = 1 .. Len(chain)
      /\ Len(chain) \in Nat
  <2>1. Front(chain) \in Seq(HeldWrites) /\ Len(Front(chain)) = Len(chain) - 1
    BY FrontType
  <2> QED BY <2>1, ChainDomain
<1>2. /\ \A i \in 1 .. Len(chain) - 1 : Front(chain)[i] = chain[i]
      /\ Last(chain) = chain[Len(chain)] /\ Len(chain) \in DOMAIN chain
  BY FrontType
<1> SUFFICES ASSUME NEW i \in 1 .. Len(chain) - 1, Id(chain[i]) = Id(chain[Len(chain)])
             PROVE  FALSE
  BY <1>1, <1>2, IdsOf
<1>3. chain[i].op < chain[Len(chain)].op
  BY <1>1 DEF Ordered
<1>4. chain[i].op = chain[Len(chain)].op
  BY DEF Id
<1>5. chain[i].op \in Nat
  <2>1. chain[i] \in HeldWrites
    BY <1>1, ChainDomain
  <2> QED BY <2>1 DEF HeldWrites
<1> QED BY <1>3, <1>4, <1>5

\* What is in a chain says whose it is, and is made before the next call.
LEMMA ChainIds ==
    ASSUME NEW chain, NEW w, NEW n, Made(chain, w, n), NEW a \in Ids(chain)
    PROVE  a.by = w /\ a.op < n
BY DEF Ids, Id, Made, MadeBy

\* A chain keeps its records, loses some, or gains one made at this call.
LEMMA QuietHeld ==
    ASSUME IInv, IInv', MadeInv, NEW w \in Writers, Quiet(w)
    PROVE  \/ Ids(store'[w].held) \subseteq Ids(store[w].held)
           \/ /\ Len(store'[w].held) = Len(store[w].held) + 1
              /\ \E a : /\ a.by = w /\ a.op = ops[w]
                        /\ Ids(store'[w].held) \subseteq Ids(store[w].held) \cup {a}
<1> DEFINE s == store[w]
           t == store'[w]
<1>1. s.held \in Seq(HeldWrites) /\ t.held \in Seq(HeldWrites) /\ ChainMoves(w, s, t)
  BY QuietFacts DEF Quiet
<1>2. CASE t.held = <<>>
  BY <1>2 DEF Ids
<1>3. CASE t.held = s.held
  BY <1>3
<1>4. CASE t.held = Front(s.held) /\ s.held # <<>>
  BY <1>1, <1>4, IdsFront
<1>5. CASE Grown(w, s, t)
  <2>1. PICK r \in HeldWrites : t.held = Append(s.held, r) /\ r.op = ops[w] /\ r.by = w
    BY <1>5 DEF Grown, Joins, MadeBy
  <2>2. /\ t.held[Len(s.held) + 1] = r /\ Len(t.held) = Len(s.held) + 1
        /\ \A j \in 1 .. Len(s.held) : t.held[j] = s.held[j]
    BY <1>1, <2>1, AppendType
  <2>3. /\ DOMAIN s.held = 1 .. Len(s.held) /\ DOMAIN t.held = 1 .. Len(t.held)
        /\ Len(s.held) \in Nat
    BY <1>1, ChainDomain
  <2>4. Ids(t.held) \subseteq Ids(s.held) \cup {Id(r)}
    <3> SUFFICES ASSUME NEW i \in 1 .. Len(s.held) + 1
                 PROVE  Id(t.held[i]) \in Ids(s.held) \cup {Id(r)}
      BY <2>2, <2>3, IdsOf
    <3>1. CASE i = Len(s.held) + 1
      BY <2>2, <3>1
    <3>2. CASE i \in 1 .. Len(s.held)
      BY <2>2, <2>3, <3>2, IdsOf
    <3> QED BY <2>3, <3>1, <3>2
  <2>5. Id(r).by = w /\ Id(r).op = ops[w]
    BY <2>1 DEF Id
  <2> QED BY <2>2, <2>4, <2>5
<1> QED BY <1>1, <1>2, <1>3, <1>4, <1>5 DEF ChainMoves, Rebased

\* Without lost replies a push goes under way only as its writer's chain is dropped.
LEMMA QuietFlight ==
    ASSUME ~LosesReplies, NEW w \in Writers, Quiet(w)
    PROVE  \/ FlightIds' \subseteq FlightIds
           \/ /\ FlightIds' \subseteq FlightIds \cup Ids(store[w].held)
              /\ store'[w].held = <<>> /\ disowned' = disowned
<1>1. CASE inflight' \subseteq inflight
  BY <1>1 DEF FlightIds
<1>2. CASE /\ inflight' \subseteq inflight \cup {ThePush(w)} /\ store'[w].held = <<>>
           /\ ~(inflight' \subseteq inflight)
  <2>1. ThePush(w).recs = store[w].held
    BY DEF ThePush, Push
  <2>2. FlightIds' \subseteq FlightIds \cup Ids(store[w].held)
    BY <1>2, <2>1 DEF FlightIds
  <2>3. disowned' = disowned
    BY <1>2 DEF Quiet, Disowns
  <2> QED BY <1>2, <2>2, <2>3
<1> QED BY <1>1, <1>2 DEF Quiet

\* What leaves a chain as disowned is in it no more.
LEMMA QuietDisowned ==
    ASSUME IInv, IInv', MadeInv, NEW w \in Writers, Quiet(w)
    PROVE  /\ disowned' \subseteq disowned \cup Ids(store[w].held)
           /\ \/ disowned' = disowned
              \/ Ids(store'[w].held) \cap disowned' \subseteq disowned
                 /\ Ids(store'[w].held) \subseteq Ids(store[w].held)
<1> DEFINE s == store[w]
           t == store'[w]
<1>1. s.held \in Seq(HeldWrites) /\ Disowns(s, t) /\ Ordered(s.held)
  BY QuietFacts DEF Quiet, MadeInv, ChainsMade
<1>2. CASE disowned' = disowned
  BY <1>2
<1>3. CASE t.held = <<>> /\ disowned' \subseteq disowned \cup Ids(s.held)
  BY <1>3 DEF Ids
<1>4. CASE /\ s.held # <<>> /\ t.held = Front(s.held)
           /\ disowned' = disowned \cup {Id(Last(s.held))}
  BY <1>1, <1>4, IdsFront, LastIsApart
<1> QED BY <1>1, <1>2, <1>3, <1>4 DEF Disowns

LEMMA FlightAges ==
    ASSUME IInv, MadeInv, NEW a \in FlightIds
    PROVE  a.by \in Writers /\ a.op < ops[a.by]
<1>1. PICK p \in inflight : a \in Ids(p.recs)
  BY DEF FlightIds
<1>2. p \in Pushes /\ Made(p.recs, p.by, ops[p.by])
  BY IInvParts DEF RestOK, MadeInv, FlightMade
<1> QED BY <1>1, <1>2, ChainIds DEF Pushes

LEMMA QuietHonest ==
    ASSUME ~LosesReplies, IInv, IInv', MadeInv, HonestInv, NEW w \in Writers, Quiet(w)
    PROVE  HonestInv'
<1> DEFINE s == store[w]
           t == store'[w]
           out == landed \cup disowned \cup FlightIds
<1>1. /\ landed' = landed
      /\ \A v \in Writers : ops[v] \in Nat /\ ops'[v] \in Nat /\ ops[v] <= ops'[v]
      /\ \A v \in Writers \ {w} : store'[v] = store[v]
  BY QuietFacts DEF Quiet
<1>2. \A v \in Writers : \A a \in Ids(store[v].held) : a.by = v /\ a.op < ops[v]
  BY ChainIds DEF MadeInv, ChainsMade
<1>3. \A v \in Writers : Ids(store[v].held) \cap out = {}
  BY DEF HonestInv
<1>4. \A a \in out : a.by \in Writers /\ a.op \in Nat /\ a.op < ops[a.by]
  <2>1. \A a \in landed \cup disowned : a.by \in Writers /\ a.op \in Nat
    BY IInvParts DEF RestOK, RecordIds
  <2>2. \A a \in FlightIds : a.op \in Nat
    <3> SUFFICES ASSUME NEW p \in inflight, NEW a \in Ids(p.recs) PROVE a.op \in Nat
      BY DEF FlightIds
    <3>1. p \in Pushes
      BY IInvParts DEF RestOK
    <3>2. Ids(p.recs) \subseteq RecordIds
      BY <3>1, IdsType DEF Pushes
    <3> QED BY <3>2 DEF RecordIds
  <2> QED BY <2>1, <2>2, FlightAges DEF MadeInv, LandedMade, HonestInv
<1>5. FlightIds' \subseteq FlightIds \cup Ids(s.held) /\ disowned' \subseteq disowned \cup Ids(s.held)
  BY QuietFlight, QuietDisowned
<1>6. Ids(t.held) \cap (landed \cup disowned' \cup FlightIds') = {}
  <2>1. CASE t.held = <<>>
    BY <2>1 DEF Ids
  <2>2. CASE t.held # <<>> /\ Ids(t.held) \subseteq Ids(s.held)
    BY <1>3, <2>2, QuietFlight, QuietDisowned
  <2>3. CASE t.held # <<>> /\ ~(Ids(t.held) \subseteq Ids(s.held))
    <3>1. disowned' = disowned /\ FlightIds' \subseteq FlightIds
      BY <2>3, QuietFlight, QuietDisowned
    <3>2. PICK a : /\ a.by = w /\ a.op = ops[w]
                   /\ Ids(t.held) \subseteq Ids(s.held) \cup {a}
      BY <2>3, QuietHeld
    <3>3. a \notin out
      BY <1>1, <1>4, <3>2
    <3> QED BY <1>3, <3>1, <3>2, <3>3
  <2> QED BY <2>1, <2>2, <2>3
<1>7. ASSUME NEW v \in Writers \ {w}
      PROVE  Ids(store'[v].held) \cap (landed \cup disowned' \cup FlightIds') = {}
  <2>1. Ids(store[v].held) \cap Ids(s.held) = {}
    BY <1>2
  <2> QED BY <1>1, <1>3, <1>5, <2>1
<1>8. disowned' \cap (landed \cup FlightIds') = {}
  <2>1. disowned \cap (landed \cup FlightIds) = {} /\ Ids(s.held) \cap out = {}
    BY <1>3 DEF HonestInv
  <2>2. CASE FlightIds' \subseteq FlightIds
    BY <1>5, <2>1, <2>2
  <2>3. CASE disowned' = disowned
    BY <1>5, <2>1, <2>3
  <2> QED BY <2>2, <2>3, QuietFlight
<1>9. ASSUME NEW a \in disowned' PROVE a.op < ops'[a.by]
  <2>1. a.by \in Writers /\ a.op \in Nat
    BY IInvPartsNext DEF RestOK, RecordIds
  <2>2. a.op < ops[a.by]
    BY <1>2, <1>5 DEF HonestInv
  <2> QED BY <1>1, <2>1, <2>2
<1>10. ASSUME NEW v \in Writers
       PROVE  Ids(store'[v].held) \cap (landed' \cup disowned' \cup FlightIds') = {}
  BY <1>1, <1>6, <1>7
<1> QED BY <1>1, <1>8, <1>9, <1>10 DEF HonestInv

\* A push lands whole: what lands was in a chain or under way.
LEMMA PushAckedHonest ==
    ASSUME IInv, MadeInv, HonestInv, NEW w \in Writers, PushAcked(w)
    PROVE  HonestInv'
<1>1. PICK s : s = [store[w] EXCEPT !.head = origin.ver + 1]
  OBVIOUS
<1>2. s \in Stores /\ Land(w, s) /\ Arrive(ThePush(w)) /\ ops' = ops /\ disowned' = disowned
  BY <1>1, AckedHead DEF PushAcked
<1>3. store'[w].held = <<>> /\ \A v \in Writers \ {w} : store'[v] = store[v]
  BY <1>2, LandFacts
<1>4. landed' = landed \cup Ids(store[w].held) /\ FlightIds' = {}
  BY <1>2, AckedPush DEF Arrive, FlightIds
<1>5. \A v \in Writers : \A a \in Ids(store[v].held) : a.by = v
  BY ChainIds DEF MadeInv, ChainsMade
<1>6. ASSUME NEW v \in Writers
      PROVE  Ids(store'[v].held) \cap (landed' \cup disowned' \cup FlightIds') = {}
  <2>1. CASE v = w
    BY <1>3, <2>1 DEF Ids
  <2>2. CASE v # w
    <3>1. Ids(store[v].held) \cap Ids(store[w].held) = {}
      BY <1>5, <2>2
    <3> QED BY <1>2, <1>3, <1>4, <2>2, <3>1 DEF HonestInv
  <2> QED BY <2>1, <2>2
<1> QED BY <1>2, <1>4, <1>6 DEF HonestInv

LEMMA OwnLandedHonest ==
    ASSUME IInv, HonestInv, NEW w \in Writers, OwnLanded(w)
    PROVE  HonestInv'
<1>1. PICK s : s = Fetched(store[w])
  OBVIOUS
<1>2. s \in Stores
  BY <1>1, StoreFacts DEF Fetched, Stores, Branches
<1>3. /\ Land(w, s) /\ ops' = ops /\ disowned' = disowned /\ inflight' = inflight
      /\ landed' = landed
  BY <1>1 DEF OwnLanded, remote
<1>4. store'[w].held = <<>> /\ \A v \in Writers \ {w} : store'[v] = store[v]
  BY <1>2, <1>3, LandFacts
<1>5. FlightIds' = FlightIds
  BY <1>3 DEF FlightIds
<1>6. ASSUME NEW v \in Writers
      PROVE  Ids(store'[v].held) \cap (landed' \cup disowned' \cup FlightIds') = {}
  <2>1. CASE v = w
    BY <1>4, <2>1 DEF Ids
  <2>2. CASE v # w
    BY <1>3, <1>4, <1>5, <2>2 DEF HonestInv
  <2> QED BY <2>1, <2>2
<1> QED BY <1>3, <1>5, <1>6 DEF HonestInv

LEMMA LateArrivalHonest ==
    ASSUME HonestInv, NEW push \in inflight, LateArrival(push)
    PROVE  HonestInv'
<1>1. /\ FlightIds' = {} /\ store' = store /\ disowned' = disowned /\ ops' = ops
      /\ landed' \subseteq landed \cup FlightIds
  BY DEF LateArrival, Arrive, FlightIds
<1> QED BY <1>1 DEF HonestInv

LEMMA InitHonest == Init => HonestInv
BY DEF Init, HonestInv, FlightIds, Opened, Ids

LEMMA NextHonest ==
    ASSUME ~LosesReplies
    PROVE  IInv /\ IInv' /\ MadeInv /\ HonestInv /\ [Next]_vars => HonestInv'
<1> SUFFICES ASSUME IInv, IInv', MadeInv, HonestInv, [Next]_vars PROVE HonestInv'
  OBVIOUS
<1>1. CASE UNCHANGED vars
  <2>1. FlightIds' = FlightIds
    BY <1>1 DEF vars, remote, FlightIds
  <2> QED BY <1>1, <2>1 DEF vars, histories, HonestInv
<1> QED BY <1>1, StepKinds, QuietHonest, PushAckedHonest, OwnLandedHonest, LateArrivalHonest

\* What a writer was told did not land never lands, not even late (store.go,
\* the conflicts and HeldConflictError), as long as replies are not lost.
THEOREM RefusalsAreHonest ==
    ASSUME ~LosesReplies
    PROVE  Spec => []HonestRefusal
<1>1. Init => HonestInv
  BY InitHonest
<1>2. IInv /\ IInv' /\ MadeInv /\ HonestInv /\ [Next]_vars => HonestInv'
  BY NextHonest
<1>3. HonestInv => HonestRefusal
  BY DEF HonestInv, HonestRefusal
<1> QED BY <1>1, <1>2, <1>3, Invariance, ChainsFit, PTL DEF Spec

-----------------------------------------------------------------------------
(* The run tag *)

\* What a store takes for the end of the run was one when it read it.
EndsRead ==
    /\ Ended(origin.view) => origin.ver \in ended
    /\ \A w \in Writers :
          store[w].fetched /\ Ended(Base(store[w])) => store[w].head \in ended
\* The branch shows the last record of the push that moved it last.
LastShows ==
    LET last == Last(origin.last.recs)
    IN  origin.last.recs # <<>> /\ last.path \in Records =>
            origin.view[last.path] = last.blob
\* The branch had been at an end of the run when it came to version n.
AfterEnd(n) == \E v \in ended : v <= n
\* A flush that will place the tag stands on an end of the run, or has one as its
\* last record, and so has every push it sent.
TagsAfterEnd ==
    \A w \in Writers :
        /\ flush[w].phase = "tag" => AfterEnd(store[w].head)
        /\ flush[w].phase \in {"push", "refused"} =>
              /\ flush[w].call = "tag" => AfterEnd(store[w].head)
              /\ flush[w].call = "final" /\ flush[w].lost = "" =>
                    /\ Ends(Last(store[w].held))
                    /\ \A p \in flush[w].sent :
                          p.recs # <<>> /\ Last(p.recs) = Last(store[w].held)

TaggedInv == EndsRead /\ LastShows /\ TagsAfterEnd

LEMMA LastIsIn ==
    ASSUME NEW chain \in Seq(HeldWrites), chain # <<>>
    PROVE  /\ Len(chain) \in DOMAIN chain /\ Last(chain) = chain[Len(chain)]
           /\ Last(chain) \in HeldWrites
           /\ \A j \in DOMAIN chain : j <= Len(chain)
<1>1. DOMAIN chain = 1 .. Len(chain) /\ Len(chain) \in Nat
  BY ChainDomain
<1>2. Last(chain) = chain[Len(chain)] /\ Len(chain) \in DOMAIN chain
  BY FrontType
<1> QED BY <1>1, <1>2, ChainDomain

LEMMA OneRecord ==
    ASSUME NEW chain \in Seq(HeldWrites), Len(chain) = 1
    PROVE  chain # <<>> /\ Last(chain) = chain[1]
<1>1. chain # <<>>
  <2>1. chain = <<>> => Len(chain) = 0
    BY EmptySeq
  <2> QED BY <2>1
<1> QED BY <1>1, LastIsIn

\* The last record of a chain is what the view under it shows.
LEMMA LastIsShown ==
    ASSUME NEW view \in Views, NEW chain \in Seq(HeldWrites), chain # <<>>,
           Last(chain).path \in Records
    PROVE  Over(view, chain)[Last(chain).path] = Last(chain).blob
BY LastIsIn, OverWritten

\* Nothing waits in a chain, between calls, that is the end of the run: where the
\* view shows one, origin has it.
LEMMA WaitsForNoEnd ==
    ASSUME NEW view \in Views, NEW chain \in Seq(HeldWrites), Ended(Over(view, chain)),
           \A i \in DOMAIN chain : Placed(chain[i]) /\ Waits(chain[i])
    PROVE  Ended(view)
<1>1. Checkpoint \in Records
  BY DEF Records
<1>2. CASE \A i \in DOMAIN chain : chain[i].path # Checkpoint
  BY <1>1, <1>2, OverUnwritten DEF Ended
<1>3. CASE \E i \in DOMAIN chain : chain[i].path = Checkpoint
  <2>1. PICK i \in DOMAIN chain : /\ chain[i].path = Checkpoint
                                  /\ Over(view, chain)[Checkpoint] = chain[i].blob
    <3>1. PICK k \in DOMAIN chain : chain[k].path = Checkpoint
      BY <1>3
    <3>2. PICK i \in DOMAIN chain :
             /\ chain[i].path = Checkpoint
             /\ \A j \in DOMAIN chain : chain[j].path = Checkpoint => j <= i
      BY <3>1, LastOfPath
    <3> QED BY <1>1, <3>2, OverWritten
  <2>2. chain[i].blob.state \notin EndStates
    BY <2>1, ConstantsAssumption DEF Placed, Waits, Records
  <2> QED BY <2>1, <2>2 DEF Ended
<1> QED BY <1>2, <1>3

LEMMA QuietEndsRead ==
    ASSUME TaggedInv, NEW w \in Writers, Quiet(w)
    PROVE  EndsRead'
<1>1. origin' = origin /\ ended' = ended /\ BaseMoves(store[w], store'[w])
      /\ \A v \in Writers \ {w} : store'[v] = store[v]
  BY DEF Quiet, OthersStay
<1>2. store'[w].fetched /\ Ended(Base(store'[w])) => store'[w].head \in ended
  BY <1>1 DEF BaseMoves, TaggedInv, EndsRead, Ended
<1>3. ASSUME NEW v \in Writers
      PROVE  store'[v].fetched /\ Ended(Base(store'[v])) => store'[v].head \in ended
  <2>1. CASE v = w
    BY <1>2, <2>1
  <2>2. CASE v # w
    BY <1>1, <2>2 DEF TaggedInv, EndsRead
  <2> QED BY <2>1, <2>2
<1>4. Ended(origin'.view) => origin'.ver \in ended'
  BY <1>1 DEF TaggedInv, EndsRead
<1> QED BY <1>1, <1>3, <1>4 DEF EndsRead, Base, Ended

LEMMA QuietTagged ==
    ASSUME IInv, IInv', MadeInv, MadeInv', TaggedInv, NEW w \in Writers, Quiet(w)
    PROVE  TaggedInv'
<1> DEFINE s == store[w]
           t == store'[w]
           f == flush[w]
           g == flush'[w]
<1>1. /\ s.held \in Seq(HeldWrites) /\ t.held \in Seq(HeldWrites)
      /\ origin' = origin /\ ended' = ended /\ FlushMoves(w, s, t, f, g)
      /\ \A v \in Writers \ {w} : store'[v] = store[v] /\ flush'[v] = flush[v]
  BY QuietFacts DEF Quiet
<1>2. EndsRead'
  BY QuietEndsRead
<1>3. LastShows'
  BY <1>1 DEF LastShows, TaggedInv
<1>4. /\ ended \subseteq Nat /\ s.head \in Nat /\ t.head \in Nat /\ s.head <= origin.ver
      /\ origin.ver \in Nat
  <2>1. StoreInv(s, origin) /\ s \in Stores /\ t \in Stores /\ origin \in Branches
    BY IInvParts, IInvPartsNext DEF StoresInv, RestOK
  <2> QED BY <2>1, IInvParts DEF StoreInv, Stores, Branches, RestOK
<1>5. t.fetched /\ Ended(Base(t)) => AfterEnd(t.head)
  BY <1>1, <1>2, <1>4 DEF EndsRead, Base, Ended, AfterEnd
<1>6. AfterEnd(s.head) /\ t.fetched => AfterEnd(t.head)
  <2> SUFFICES ASSUME NEW v \in ended, v <= s.head, t.fetched PROVE v <= t.head
    BY DEF AfterEnd
  <2>1. t.head = s.head \/ t.head = origin.ver
    BY DEF Quiet, BaseMoves
  <2> QED BY <1>4, <2>1
<1>7. g.phase = "tag" => AfterEnd(t.head)
  <2>1. CASE t.held = <<>> /\ t.fetched /\ Ended(t.view)
    BY <1>5, <2>1 DEF Base
  <2>2. CASE f.phase = "tag" /\ t = s
    BY <2>2 DEF TaggedInv, TagsAfterEnd
  <2> QED BY <1>1, <2>1, <2>2 DEF FlushMoves
<1>8. ASSUME g.phase \in {"push", "refused"}
      PROVE  /\ g.call = "tag" => AfterEnd(t.head)
             /\ g.call = "final" /\ g.lost = "" =>
                   /\ Ends(Last(t.held))
                   /\ \A p \in g.sent : p.recs # <<>> /\ Last(p.recs) = Last(t.held)
  <2>1. t.held # <<>>
    BY <1>8, IInvPartsNext DEF Pushing
  <2>2. t \in Stores /\ StoreInv(t, origin') /\ t.fetched
    BY <2>1, IInvPartsNext DEF StoresInv, StoreInv
  <2>3. CASE Started(s, t, f, g)
    <3>1. ASSUME g.call = "tag" PROVE AfterEnd(t.head)
      <4>1. f.phase = "idle" /\ t.held = s.held /\ Ended(t.view)
        BY <2>3, <3>1 DEF Started
      <4>2. \A i \in DOMAIN s.held : Waits(s.held[i]) /\ Placed(s.held[i])
        BY <4>1 DEF MadeInv, ChainsWait, ChainsMade, Sound
      <4>3. t.baseView \in Views /\ t.view = Over(t.baseView, t.held) /\ Base(t) = t.baseView
        BY <2>1, <2>2 DEF StoreInv, Stores, Base
      <4>4. Ended(Base(t))
        BY <1>1, <4>1, <4>2, <4>3, WaitsForNoEnd
      <4> QED BY <1>5, <2>2, <4>4
    <3> QED BY <2>3, <3>1 DEF Started
  <2>4. CASE GoesOn(w, s, t, f, g)
    <3>1. f.phase \in {"push", "refused"} /\ g.call = f.call
      BY <2>4 DEF GoesOn
    <3>2. g.call = "tag" => AfterEnd(t.head)
      BY <1>6, <2>2, <3>1 DEF TaggedInv, TagsAfterEnd
    <3>3. ASSUME g.call = "final", g.lost = ""
          PROVE  /\ Ends(Last(t.held))
                 /\ \A p \in g.sent : p.recs # <<>> /\ Last(p.recs) = Last(t.held)
      <4>1. /\ f.call = "final" /\ f.lost = "" /\ t.held = s.held
            /\ g.sent \subseteq f.sent \cup {ThePush(w)}
        BY <2>4, <3>3 DEF GoesOn
      <4>2. /\ Ends(Last(s.held))
            /\ \A p \in f.sent : p.recs # <<>> /\ Last(p.recs) = Last(s.held)
        BY <3>1, <4>1 DEF TaggedInv, TagsAfterEnd
      <4>3. ThePush(w).recs = s.held
        BY DEF ThePush, Push
      <4> QED BY <2>1, <4>1, <4>2, <4>3
    <3> QED BY <3>2, <3>3
  <2> QED BY <1>1, <1>8, <2>3, <2>4 DEF FlushMoves
<1>9. ASSUME NEW v \in Writers
      PROVE  /\ flush'[v].phase = "tag" => AfterEnd(store'[v].head)
             /\ flush'[v].phase \in {"push", "refused"} =>
                   /\ flush'[v].call = "tag" => AfterEnd(store'[v].head)
                   /\ flush'[v].call = "final" /\ flush'[v].lost = "" =>
                         /\ Ends(Last(store'[v].held))
                         /\ \A p \in flush'[v].sent :
                               p.recs # <<>> /\ Last(p.recs) = Last(store'[v].held)
  <2>1. CASE v = w
    BY <1>7, <1>8, <2>1
  <2>2. CASE v # w
    BY <1>1, <2>2 DEF TaggedInv, TagsAfterEnd
  <2> QED BY <2>1, <2>2
<1> QED BY <1>1, <1>2, <1>3, <1>9 DEF TaggedInv, TagsAfterEnd, AfterEnd

\* A push that lands shows its last record and marks the end it brings.
LEMMA ArriveTagged ==
    ASSUME IInv, NEW push \in Pushes, Arrive(push), TaggedInv
    PROVE  /\ LastShows' /\ ended \subseteq ended'
           /\ Ended(origin'.view) => origin'.ver \in ended'
<1>1. /\ origin.view \in Views /\ push.recs \in Seq(HeldWrites)
      /\ origin'.view = Over(origin.view, push.recs) /\ origin'.last = push
  BY IInvParts, ArriveInv DEF RestOK, Branches, Pushes, Arrive
<1>2. LastShows'
  BY <1>1, LastIsShown DEF LastShows
<1>3. /\ origin'.ver = origin.ver + 1
      /\ ended' = IF Ended(origin'.view) THEN ended \cup {origin.ver + 1} ELSE ended
  BY DEF Arrive, Ended
<1> QED BY <1>2, <1>3

\* A writer that is told of a landing goes on to the tag at or after an end only.
LEMMA ToldTagged ==
    ASSUME IInv, TaggedInv, NEW w \in Writers, ended \subseteq ended', LastShows',
           Ended(origin'.view) => origin'.ver \in ended',
           store'[w].held = <<>>, Base(store'[w]) = origin'.view,
           store'[w].head = origin'.ver,
           flush'[w].phase \in {"idle", "tag"},
           flush'[w].phase = "tag" => \E v \in ended' : v <= origin'.ver,
           \A v \in Writers \ {w} : store'[v] = store[v] /\ flush'[v] = flush[v]
    PROVE  TaggedInv'
<1>1. EndsRead'
  <2> SUFFICES ASSUME NEW v \in Writers, store'[v].fetched, Ended(Base(store'[v]))
               PROVE  store'[v].head \in ended'
    BY DEF EndsRead, Ended, Base
  <2>1. CASE v = w
    BY <2>1
  <2>2. CASE v # w
    BY <2>2 DEF TaggedInv, EndsRead
  <2> QED BY <2>1, <2>2
<1>2. TagsAfterEnd'
  <2> SUFFICES ASSUME NEW v \in Writers
               PROVE  /\ flush'[v].phase = "tag" => AfterEnd(store[v].head)'
                      /\ flush'[v].phase \in {"push", "refused"} =>
                            /\ flush'[v].call = "tag" => AfterEnd(store[v].head)'
                            /\ flush'[v].call = "final" /\ flush'[v].lost = "" =>
                                  /\ Ends(Last(store'[v].held))
                                  /\ \A p \in flush'[v].sent :
                                        p.recs # <<>> /\ Last(p.recs) = Last(store'[v].held)
    BY DEF TagsAfterEnd
  <2>1. CASE v = w
    BY <2>1 DEF AfterEnd
  <2>2. CASE v # w
    BY <2>2 DEF TaggedInv, TagsAfterEnd, AfterEnd
  <2> QED BY <2>1, <2>2
<1> QED BY <1>1, <1>2 DEF TaggedInv

\* The end of the run a flush carries is its chain's last record.
LEMMA FinalEnds ==
    ASSUME IInv, TaggedInv, NEW w \in Writers, flush[w].phase \in {"push", "refused"},
           flush[w].call = "final", flush[w].lost = ""
    PROVE  /\ store[w].held # <<>> /\ Ends(Last(store[w].held))
           /\ \A p \in flush[w].sent : p.recs # <<>> /\ Last(p.recs) = Last(store[w].held)
BY IInvParts DEF Pushing, TaggedInv, TagsAfterEnd

LEMMA PushAckedTagged ==
    ASSUME IInv, IInv', MadeInv, TaggedInv, NEW w \in Writers, PushAcked(w)
    PROVE  TaggedInv'
<1>1. PICK s : s = [store[w] EXCEPT !.head = origin.ver + 1]
  OBVIOUS
<1>2. /\ s \in Stores /\ Land(w, s) /\ Arrive(ThePush(w)) /\ s.head = origin.ver + 1
      /\ s.view = store[w].view
  BY <1>1, AckedHead DEF PushAcked
<1>3. /\ store'[w].held = <<>> /\ store'[w].view = store[w].view
      /\ store'[w].head = origin.ver + 1
      /\ \A v \in Writers \ {w} : store'[v] = store[v] /\ flush'[v] = flush[v]
      /\ flush'[w].phase \in {"idle", "tag"}
      /\ flush'[w].phase = "tag" => \/ flush[w].call = "tag"
                                    \/ flush[w].call = "final" /\ flush[w].lost = ""
  BY <1>2, LandFacts
<1>4. /\ origin'.view = Over(origin.view, store[w].held) /\ origin'.ver = origin.ver + 1
      /\ origin.view \in Views /\ store[w].held \in Seq(HeldWrites)
  BY <1>2, AckedPush, ArriveInv, IInvParts, StoreFacts DEF Arrive, RestOK, Branches
<1>5. flush[w].phase = "push" /\ store[w].held # <<>> /\ store[w].head = origin.ver
  BY IInvParts DEF Pushing, PushAcked, InPhase
<1>6. Base(store'[w]) = origin'.view
  BY <1>3, <1>4, <1>5, StoreFacts DEF Base
<1>7. /\ LastShows' /\ ended \subseteq ended'
      /\ Ended(origin'.view) => origin'.ver \in ended'
  BY <1>2, AckedPush, ArriveTagged
<1>8. flush'[w].phase = "tag" => \E v \in ended' : v <= origin'.ver
  <2>1. CASE flush[w].call = "tag"
    <3>1. PICK v \in ended : v <= store[w].head
      BY <1>5, <2>1 DEF TaggedInv, TagsAfterEnd, AfterEnd
    <3>2. v \in Nat /\ origin.ver \in Nat
      BY IInvParts DEF RestOK, Branches
    <3> QED BY <1>4, <1>5, <1>7, <3>1, <3>2
  <2>2. CASE flush[w].call = "final" /\ flush[w].lost = ""
    <3>1. store[w].held # <<>> /\ Ends(Last(store[w].held))
      BY <1>5, <2>2, FinalEnds
    <3>2. origin'.view[Checkpoint] = Last(store[w].held).blob
      BY <1>4, <3>1, LastIsShown DEF Ends, Records
    <3>3. Last(store[w].held).blob # Absent
      <4>1. Last(store[w].held) \in HeldWrites
        BY <1>4, <3>1, LastIsIn
      <4>2. Last(store[w].held).blob \in Blobs
        BY <4>1 DEF HeldWrites
      <4> QED BY <4>2, ConstantsAssumption
    <3>4. origin'.ver \in ended'
      BY <1>7, <3>1, <3>2, <3>3 DEF Ended, Ends
    <3>5. origin'.ver <= origin'.ver
      BY <1>4, IInvParts DEF RestOK, Branches
    <3> QED BY <3>4, <3>5
  <2> QED BY <1>3, <2>1, <2>2
<1>9. store'[w].head = origin'.ver
  BY <1>3, <1>4
<1> QED BY <1>3, <1>6, <1>7, <1>8, <1>9, ToldTagged

\* What moved the branch is this flush's own: it shows the flush's last record.
LEMMA OwnWriteShows ==
    ASSUME IInv, TaggedInv, NEW w \in Writers, flush[w].phase = "refused", OwnWrite(w),
           flush[w].call = "final", flush[w].lost = ""
    PROVE  Ended(origin.view)
<1> DEFINE end == Last(store[w].held)
           last == origin.last
<1>1. /\ store[w].held # <<>> /\ Ends(end) /\ store[w].held \in Seq(HeldWrites)
      /\ \A p \in flush[w].sent : p.recs # <<>> /\ Last(p.recs) = end
  BY FinalEnds, StoreFacts
<1>2. end.blob # Absent
  <2>1. end \in HeldWrites
    BY <1>1, LastIsIn
  <2>2. end.blob \in Blobs
    BY <2>1 DEF HeldWrites
  <2> QED BY <2>2, ConstantsAssumption
<1>3. last.recs # <<>> /\ Last(last.recs).path = end.path /\ Last(last.recs).blob = end.blob
  <2>1. CASE last \in flush[w].sent
    BY <1>1, <2>1
  <2>2. CASE \E p \in flush[w].sent : SameContent(last, p)
    <3>1. PICK p \in flush[w].sent : SameContent(last, p)
      BY <2>2
    <3>2. p \in Pushes /\ last \in Pushes
      BY IInvParts DEF RestOK, Branches, FlushOK, Flushes
    <3>3. last.recs \in Seq(HeldWrites) /\ p.recs \in Seq(HeldWrites)
      BY <3>2 DEF Pushes
    <3>4. Len(last.recs) = 1 /\ Len(p.recs) = 1
      BY <3>1 DEF SameContent
    <3>5. last.recs # <<>> /\ p.recs # <<>>
      BY <3>3, <3>4, OneRecord
    <3>6. Last(last.recs) = last.recs[1] /\ Last(p.recs) = p.recs[1]
      BY <3>3, <3>4, OneRecord
    <3>7. last.recs[1].path = p.recs[1].path /\ last.recs[1].blob = p.recs[1].blob
      <4>1. \A f \in {"kind", "path", "blob"} : last.recs[1][f] = p.recs[1][f]
        BY <3>1 DEF SameContent
      <4>2. last.recs[1]["path"] = p.recs[1]["path"] /\ last.recs[1]["blob"] = p.recs[1]["blob"]
        BY <4>1
      <4> QED BY <4>2
    <3>8. Last(p.recs) = end
      BY <1>1, <3>1
    <3> QED BY <3>5, <3>6, <3>7, <3>8
  <2> QED BY <2>1, <2>2 DEF OwnWrite
<1>4. origin.view[Checkpoint] = end.blob
  BY <1>1, <1>3 DEF TaggedInv, LastShows, Ends, Records
<1> QED BY <1>1, <1>2, <1>4 DEF Ended, Ends

LEMMA OwnLandedTagged ==
    ASSUME IInv, TaggedInv, NEW w \in Writers, OwnLanded(w)
    PROVE  TaggedInv'
<1>1. PICK s : s = Fetched(store[w])
  OBVIOUS
<1>2. s \in Stores /\ s.view = origin.view /\ s.head = origin.ver
  BY <1>1, StoreFacts DEF Fetched, Stores, Branches
<1>3. /\ Land(w, s) /\ origin' = origin /\ ended' = ended
      /\ flush[w].phase = "refused" /\ OwnWrite(w)
  BY <1>1 DEF OwnLanded, remote, InPhase
<1>4. /\ store'[w].held = <<>> /\ store'[w].view = origin.view
      /\ store'[w].head = origin.ver
      /\ \A v \in Writers \ {w} : store'[v] = store[v] /\ flush'[v] = flush[v]
      /\ flush'[w].phase \in {"idle", "tag"}
      /\ flush'[w].phase = "tag" => \/ flush[w].call = "tag"
                                    \/ flush[w].call = "final" /\ flush[w].lost = ""
  BY <1>2, <1>3, LandFacts
<1>5. /\ LastShows' /\ ended \subseteq ended'
      /\ Ended(origin'.view) => origin'.ver \in ended'
  BY <1>3 DEF TaggedInv, EndsRead, LastShows
<1>6. flush'[w].phase = "tag" => \E v \in ended' : v <= origin'.ver
  <2>1. /\ store[w].head \in Nat /\ store[w].head <= origin.ver /\ origin.ver \in Nat
        /\ ended \subseteq Nat
    BY IInvParts DEF RestOK, Branches, Stores, StoresInv, StoreInv
  <2>2. CASE flush[w].call = "tag"
    <3>1. PICK v \in ended : v <= store[w].head
      BY <1>3, <2>2 DEF TaggedInv, TagsAfterEnd, AfterEnd
    <3> QED BY <1>3, <2>1, <3>1
  <2>3. CASE flush[w].call = "final" /\ flush[w].lost = ""
    <3>1. origin.ver \in ended
      BY <1>3, <2>3, OwnWriteShows DEF TaggedInv, EndsRead
    <3> QED BY <1>3, <2>1, <3>1
  <2> QED BY <1>4, <2>2, <2>3
<1>7. Base(store'[w]) = origin'.view /\ store'[w].head = origin'.ver
  BY <1>3, <1>4 DEF Base
<1> QED BY <1>4, <1>5, <1>6, <1>7, ToldTagged

LEMMA LateArrivalTagged ==
    ASSUME IInv, TaggedInv, NEW push \in inflight, LateArrival(push)
    PROVE  TaggedInv'
<1>1. push \in Pushes /\ Arrive(push) /\ store' = store /\ flush' = flush
  BY IInvParts DEF LateArrival, RestOK
<1>2. /\ LastShows' /\ ended \subseteq ended'
      /\ Ended(origin'.view) => origin'.ver \in ended'
  BY <1>1, ArriveTagged
<1>3. EndsRead' /\ TagsAfterEnd'
  BY <1>1, <1>2 DEF TaggedInv, EndsRead, TagsAfterEnd, AfterEnd, Ended, Base
<1> QED BY <1>2, <1>3 DEF TaggedInv

LEMMA InitTagged == Init => TaggedInv
<1> SUFFICES ASSUME Init PROVE TaggedInv
  OBVIOUS
<1>1. /\ ~Ended(origin.view) /\ origin.last.recs = <<>>
      /\ \A w \in Writers : ~store[w].fetched /\ flush[w].phase = "idle"
  BY DEF Init, Opened, NotFlushing, NoPush, EmptyView, Ended, Records
<1> QED BY <1>1 DEF TaggedInv, EndsRead, LastShows, TagsAfterEnd

LEMMA NextTagged ==
    IInv /\ IInv' /\ MadeInv /\ MadeInv' /\ TaggedInv /\ [Next]_vars => TaggedInv'
<1> SUFFICES ASSUME IInv, IInv', MadeInv, MadeInv', TaggedInv, [Next]_vars PROVE TaggedInv'
  OBVIOUS
<1>1. CASE UNCHANGED vars
  BY <1>1 DEF vars, remote, histories, TaggedInv, EndsRead, LastShows, TagsAfterEnd, AfterEnd,
              Ended, Base
<1> QED BY <1>1, StepKinds, QuietTagged, PushAckedTagged, OwnLandedTagged, LateArrivalTagged

\* Versions are counted from 1, a tag that is placed leaves no push of it that could
\* still land, and each that could is of a version after an end.
LateInv ==
    /\ 0 \notin ended
    /\ tag.at # 0 => tag.late = {}
    /\ \A v \in tag.late : AfterEnd(v)

\* What a step does to the tag.
TagMoves ==
    \/ tag' = tag
    \/ \E w \in Writers : Tagging(w, "push") /\ tag' = TagUnderWay(w)
    \/ \E w \in Writers : TagPushed(w)
    \/ \E version \in tag.late : LateTag(version)

LEMMA StepMovesTag ==
    ASSUME [Next]_vars
    PROVE  TagMoves
<1>1. ASSUME NEW w \in Writers, Calls(w) PROVE tag' = tag
  <2>1. ASSUME NEW p, Create(w, p) PROVE tag' = tag
    BY <2>1 DEF Create, Refuse, Send
  <2>2. ASSUME NEW p, Update(w, p) PROVE tag' = tag
    BY <2>2 DEF Update, Refuse, Send
  <2>3. ASSUME NEW state, PutCheckpoint(w, state) PROVE tag' = tag
    BY <2>3 DEF PutCheckpoint, Refuse, Wait, Send
  <2>4. ASSUME NEW t, NEW held, StageChanges(w, t, held) PROVE tag' = tag
    BY <2>4 DEF StageChanges, Wait, Send
  <2>5. ASSUME Fetch(w) \/ Hold(w) \/ Release(w) \/ Abandon(w) PROVE tag' = tag
    BY <2>5 DEF Fetch, Hold, Release, Abandon
  <2> QED BY <1>1, <2>1, <2>2, <2>3, <2>4, <2>5 DEF Calls
<1>2. ASSUME NEW w \in Writers, FlushStep(w), ~EnsureRunTag(w) PROVE tag' = tag
  BY <1>2 DEF FlushStep, PushAcked, PushRefused, PushLost, ExchangeFails, OwnLanded,
              HeldLost, Rebuilt
<1>3. ASSUME NEW w \in Writers, EnsureRunTag(w) PROVE TagMoves
  BY <1>3 DEF EnsureRunTag, TagRead, TagPushFails, TagChecked, TagMoves
<1>4. ASSUME NEW w \in Writers, Crash(w) PROVE TagMoves
  BY <1>4 DEF Crash, TagMoves
<1>5. ASSUME NEW push \in inflight, LateArrival(push) PROVE tag' = tag
  BY <1>5 DEF LateArrival
<1> QED BY <1>1, <1>2, <1>3, <1>4, <1>5 DEF Next, vars, TagMoves

\* No step takes back an end, and none adds one at version 0.
LEMMA EndsStay ==
    ASSUME IInv, MadeInv, [Next]_vars
    PROVE  ended \subseteq ended' /\ (0 \notin ended => 0 \notin ended')
<1>1. ASSUME NEW push \in Pushes, Arrive(push)
      PROVE  ended \subseteq ended' /\ (0 \notin ended => 0 \notin ended')
  <2>1. origin.ver \in Nat /\ (ended' = ended \/ ended' = ended \cup {origin.ver + 1})
    BY <1>1, IInvParts DEF Arrive, RestOK, Branches
  <2>2. origin.ver + 1 # 0
    BY <2>1
  <2> QED BY <2>1, <2>2
<1>2. ASSUME NEW w \in Writers, Quiet(w) \/ OwnLanded(w) PROVE ended' = ended
  BY <1>2 DEF Quiet, OwnLanded
<1>3. ASSUME NEW w \in Writers, PushAcked(w)
      PROVE  ended \subseteq ended' /\ (0 \notin ended => 0 \notin ended')
  BY <1>1, <1>3, AckedPush DEF PushAcked
<1>4. ASSUME NEW push \in inflight, LateArrival(push)
      PROVE  ended \subseteq ended' /\ (0 \notin ended => 0 \notin ended')
  BY <1>1, <1>4, IInvParts DEF LateArrival, RestOK
<1> QED BY <1>2, <1>3, <1>4, StepKinds DEF vars, histories

LEMMA NextLate ==
    ASSUME IInv, MadeInv, TaggedInv, LateInv, [Next]_vars
    PROVE  LateInv'
<1>1. 0 \notin ended' /\ \A n : AfterEnd(n) => AfterEnd(n)'
  BY EndsStay DEF LateInv, AfterEnd
<1>2. CASE tag' = tag
  BY <1>1, <1>2, EndsStay DEF LateInv, AfterEnd
<1>3. ASSUME NEW w \in Writers, Tagging(w, "push"), tag' = TagUnderWay(w)
      PROVE  LateInv'
  <2>1. AfterEnd(store[w].head)
    BY <1>3 DEF Tagging, InPhase, TaggedInv, TagsAfterEnd
  <2>2. tag \in [at: Nat, late: SUBSET Nat]
    BY IInvParts DEF RestOK
  <2>3. CASE tag.at = 0
    <3>1. tag'.at = 0 /\ tag'.late = tag.late \cup {store[w].head}
      BY <1>3, <2>2, <2>3 DEF TagUnderWay, TagPlaced
    <3> QED BY <1>1, <2>1, <3>1, EndsStay DEF LateInv, AfterEnd
  <2>4. CASE tag.at # 0
    <3>1. tag' = tag
      BY <1>3, <2>4 DEF TagUnderWay, TagPlaced
    <3> QED BY <1>2, <3>1
  <2> QED BY <2>3, <2>4
<1>4. ASSUME tag'.late = {} PROVE LateInv'
  BY <1>1, <1>4 DEF LateInv
<1>5. ASSUME NEW v, TagAt(v) PROVE LateInv'
  BY <1>4, <1>5 DEF TagAt
<1> QED BY <1>2, <1>3, <1>5, StepMovesTag DEF TagMoves, TagPushed, LateTag

LEMMA InitLate == Init => LateInv
BY DEF Init, LateInv

\* A tag that moves was not there, and keeps an end.
LEMMA TagPlaces ==
    ASSUME IInv, MadeInv, TaggedInv, LateInv, [Next]_vars, tag'.at # tag.at
    PROVE  tag.at = 0 /\ \E v \in ended' : v <= tag'.at
<1>1. CASE \E w \in Writers : TagPushed(w)
  <2>1. PICK w \in Writers : TagPushed(w)
    BY <1>1
  <2>2. tag'.at = store[w].head /\ tag.at \in {0, store[w].head} /\ AfterEnd(store[w].head)
    BY <2>1 DEF TagPushed, TagAt, Tagging, InPhase, TaggedInv, TagsAfterEnd
  <2> QED BY <2>2, EndsStay DEF AfterEnd
<1>2. CASE \E version \in tag.late : LateTag(version)
  <2>1. PICK version \in tag.late : LateTag(version)
    BY <1>2
  <2>2. tag'.at = version /\ AfterEnd(version) /\ tag.at = 0
    BY <2>1 DEF LateTag, TagAt, LateInv
  <2> QED BY <2>2, EndsStay DEF AfterEnd
<1>3. ASSUME NEW w \in Writers, tag' = TagUnderWay(w) PROVE FALSE
  BY <1>3, IInvParts DEF TagUnderWay, RestOK
<1> QED BY <1>1, <1>2, <1>3, StepMovesTag DEF TagMoves

\* A flush leaves the tag by a step of its own.
LEMMA TagLeftBy ==
    ASSUME IInv, [Next]_vars, NEW w \in Writers, InPhase(w, "tag"), flush'[w].phase = "idle"
    PROVE  EnsureRunTag(w) \/ Crash(w)
<1>1. flush'[w] # flush[w]
  BY DEF InPhase
<1>2. ASSUME NEW v \in Writers, v # w, Calls(v) \/ FlushStep(v) \/ Crash(v) PROVE FALSE
  <2>1. Quiet(v) \/ PushAcked(v) \/ OwnLanded(v)
    BY <1>2, StepOfWriter
  <2>2. CASE Quiet(v)
    BY <1>1, <1>2, <2>2 DEF Quiet, OthersStay
  <2>3. CASE PushAcked(v) \/ OwnLanded(v)
    <3>1. [store[v] EXCEPT !.head = origin.ver + 1] \in Stores
      BY AckedHead
    <3>2. Fetched(store[v]) \in Stores
      BY StoreFacts DEF Fetched, Stores, Branches
    <3>3. \E s \in Stores : Land(v, s)
      BY <2>3, <3>1, <3>2 DEF PushAcked, OwnLanded
    <3> QED BY <1>1, <1>2, <3>3, LandFacts
  <2> QED BY <2>1, <2>2, <2>3
<1>3. ASSUME Calls(w) PROVE FALSE
  BY <1>3 DEF Calls, Fetch, Create, Update, PutCheckpoint, StageChanges, Hold, Release, Abandon,
              Call, Idle, InPhase
<1>4. ASSUME FlushStep(w) PROVE EnsureRunTag(w)
  BY <1>4 DEF FlushStep, PushAcked, PushRefused, PushLost, ExchangeFails, OwnLanded, HeldLost,
              Rebuilt, InPhase
<1>5. ASSUME NEW push, LateArrival(push) PROVE FALSE
  BY <1>1, <1>5 DEF LateArrival
<1>6. ASSUME NEW version, LateTag(version) PROVE FALSE
  BY <1>1, <1>6 DEF LateTag
<1> QED BY <1>1, <1>2, <1>3, <1>4, <1>5, <1>6 DEF Next, vars

\* Who is told that the tag is there is told so of one that is.
LEMMA TagToldOf ==
    ASSUME IInv, MadeInv, TaggedInv, LateInv, [Next]_vars, NEW w \in Writers, InPhase(w, "tag"),
           flush'[w].phase = "idle", answer'[w] \notin {"tag_error", "none"}
    PROVE  tag'.at # 0
<1>1. answer \in [Writers -> Answers] /\ flush \in [Writers -> Flushes]
  BY IInvParts DEF RestOK, FlushOK
<1>2. ~Crash(w) /\ ~Answer(w, "tag_error")
  BY <1>1 DEF Crash, Answer
<1>3. CASE TagRead(w)
  <2>1. flush' # [flush EXCEPT ![w].tagging = "push"]
    BY <1>1 DEF InPhase, Flushes
  <2> QED BY <1>2, <1>3, <2>1 DEF TagRead, TagPlaced
<1>4. CASE TagPushed(w)
  <2>1. PICK v \in ended : v <= store[w].head
    BY <1>4 DEF TaggedInv, TagsAfterEnd, AfterEnd, InPhase
  <2>2. v \in Nat /\ v # 0 /\ store[w].head \in Nat
    BY IInvParts DEF LateInv, RestOK, Stores
  <2> QED BY <1>4, <2>1, <2>2 DEF TagPushed, TagAt
<1>5. CASE TagPushFails(w)
  <2>1. flush'[w].phase = "tag"
    BY <1>1, <1>5 DEF TagPushFails, InPhase, Flushes
  <2> QED BY <2>1
<1>6. CASE TagChecked(w)
  BY <1>2, <1>6 DEF TagChecked, TagPlaced
<1> QED BY <1>2, <1>3, <1>4, <1>5, <1>6, TagLeftBy DEF EnsureRunTag

\* The run tag keeps an end of the run (store.go, ensureRunTag): it is placed once, on
\* a commit at or after a terminal checkpoint, whoever else places it meanwhile and
\* whichever push of it was late; and who is told it is placed is told so of one that is.
THEOREM TagPlacedOnce == Spec => TagKeepsTheEnd
<1>1. Init => TaggedInv /\ LateInv
  BY InitTagged, InitLate
<1>2. /\ IInv /\ IInv' /\ MadeInv /\ MadeInv' /\ TaggedInv /\ LateInv /\ [Next]_vars
      => TaggedInv' /\ LateInv'
  BY NextTagged, NextLate
<1>3. IInv /\ MadeInv /\ TaggedInv /\ LateInv /\ [Next]_vars =>
        [/\ tag'.at # tag.at => tag.at = 0 /\ \E v \in ended' : v <= tag'.at
         /\ \A w \in Writers :
              InPhase(w, "tag") /\ flush'[w].phase = "idle"
                 /\ answer'[w] \notin {"tag_error", "none"}
                  => tag'.at # 0]_vars
  BY TagPlaces, TagToldOf
<1> QED BY <1>1, <1>2, <1>3, Invariance, ChainsFit, PTL DEF Spec, TagKeepsTheEnd

=============================================================================
