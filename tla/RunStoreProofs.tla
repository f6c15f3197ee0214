--------------------------- MODULE RunStoreProofs ---------------------------
(***************************************************************************)
(* Theorems about RunStore for every number of writers, every set of       *)
(* records and every bound: the shape of the state, that a writer whose    *)
(* head is origin's has origin's view, and that a marker never changes.    *)
(***************************************************************************)
EXTENDS RunStore, SequenceTheorems, WellFoundedInduction, TLAPS

-----------------------------------------------------------------------------
(* Chains over views *)

\* Of the positions of a sequence, a nonempty set has a greatest one.
LEMMA LastPosition ==
    ASSUME NEW n \in Nat, NEW at \in SUBSET (1 .. n), at # {}
    PROVE  \E i \in at : \A j \in at : j <= i
<1> DEFINE mirror == {n - i : i \in at}
           less == {ss \in Nat \X Nat : ss[1] < ss[2]}
<1>1. mirror \subseteq Nat /\ mirror # {}
  <2>1. ASSUME NEW i \in at PROVE n - i \in Nat
    OBVIOUS
  <2>2. PICK i \in at : TRUE
    OBVIOUS
  <2> QED BY <2>1, <2>2
<1>2. IsWellFoundedOn(less, Nat)
  BY NatLessThanWellFounded DEF OpToRel
<1>3. PICK m \in mirror : \A x \in mirror : ~ (<<x, m>> \in less)
  <2> HIDE DEF mirror, less
  <2> QED BY <1>1, <1>2, WFMin
<1>4. PICK i \in at : m = n - i
  BY <1>3
<1>5. ASSUME NEW j \in at PROVE j <= i
  <2>1. n - j \in mirror /\ m \in Nat /\ n - j \in Nat
    OBVIOUS
  <2>2. ~ (n - j < m)
    BY <1>3, <2>1
  <2> QED BY <1>4, <2>2
<1> QED BY <1>5

\* The last record of a path, when the chain has one.
LEMMA OverWritten ==
    ASSUME NEW view, NEW chain \in Seq(HeldWrites), NEW p \in Records,
           NEW i \in DOMAIN chain, chain[i].path = p,
           \A j \in DOMAIN chain : chain[j].path = p => j <= i
    PROVE  Over(view, chain)[p] = chain[i].blob
<1> DEFINE at == {k \in DOMAIN chain : chain[k].path = p}
           top == CHOOSE k \in at : \A j \in at : j <= k
<1>1. DOMAIN chain \subseteq Nat
  BY LenProperties
<1>2. i \in at /\ \A j \in at : j <= i
  OBVIOUS
<1>3. top \in at /\ \A j \in at : j <= top
  BY <1>2
<1>4. top = i
  BY <1>1, <1>2, <1>3
<1> QED BY <1>2, <1>4 DEF Over

\* A path the chain does not write shows what it showed.
LEMMA OverUnwritten ==
    ASSUME NEW view, NEW chain, NEW p \in Records,
           \A i \in DOMAIN chain : chain[i].path # p
    PROVE  Over(view, chain)[p] = view[p]
BY DEF Over

\* Every path of a chain has a last record.
LEMMA LastOfPath ==
    ASSUME NEW chain \in Seq(HeldWrites), NEW p,
           NEW k \in DOMAIN chain, chain[k].path = p
    PROVE  \E i \in DOMAIN chain : /\ chain[i].path = p
                                   /\ \A j \in DOMAIN chain : chain[j].path = p => j <= i
<1> DEFINE at == {i \in DOMAIN chain : chain[i].path = p}
<1>1. DOMAIN chain = 1 .. Len(chain) /\ Len(chain) \in Nat
  BY LenProperties
<1>2. at \in SUBSET (1 .. Len(chain)) /\ at # {}
  BY <1>1
<1>3. PICK i \in at : \A j \in at : j <= i
  <2> HIDE DEF at
  <2> QED BY <1>1, <1>2, LastPosition
<1> QED BY <1>3

\* A chain makes a view of a view, and shows a record wherever there was one.
LEMMA OverIsView ==
    ASSUME NEW view \in Views, NEW chain \in Seq(HeldWrites)
    PROVE  /\ Over(view, chain) \in Views
           /\ \A p \in Records : Over(view, chain)[p] = Absent => view[p] = Absent
<1>1. ASSUME NEW p \in Records
      PROVE  /\ Over(view, chain)[p] \in Blobs \cup {Absent}
             /\ Over(view, chain)[p] = Absent => view[p] = Absent
  <2>1. CASE \A i \in DOMAIN chain : chain[i].path # p
    BY <2>1, OverUnwritten DEF Views
  <2>2. CASE \E i \in DOMAIN chain : chain[i].path = p
    <3>1. PICK i \in DOMAIN chain : /\ chain[i].path = p
                                    /\ \A j \in DOMAIN chain : chain[j].path = p => j <= i
      BY <2>2, LastOfPath
    <3>2. Over(view, chain)[p] = chain[i].blob
      BY <3>1, OverWritten
    <3>3. chain[i].blob \in Blobs
      <4>1. i \in 1 .. Len(chain)
        BY LenProperties
      <4>2. chain[i] \in HeldWrites
        BY <4>1, ElementOfSeq
      <4> QED BY <4>2 DEF HeldWrites
    <3>4. Absent \notin Blobs
      BY ConstantsAssumption
    <3> QED BY <3>2, <3>3, <3>4
  <2> QED BY <2>1, <2>2
<1>2. Over(view, chain) = [p \in Records |-> Over(view, chain)[p]]
  BY DEF Over
<1> QED BY <1>1, <1>2 DEF Views

\* Chaining one more record is chaining it on what the chain shows.
LEMMA OverAppend ==
    ASSUME NEW view \in Views, NEW chain \in Seq(HeldWrites), NEW r \in HeldWrites
    PROVE  Over(Over(view, chain), <<r>>) = Over(view, Append(chain, r))
<1> DEFINE longer == Append(chain, r)
<1>1. /\ longer \in Seq(HeldWrites) /\ <<r>> \in Seq(HeldWrites)
      /\ DOMAIN longer = 1 .. Len(chain) + 1 /\ DOMAIN chain = 1 .. Len(chain)
      /\ Len(chain) \in Nat
      /\ \A i \in 1 .. Len(chain) : longer[i] = chain[i]
      /\ longer[Len(chain) + 1] = r
      /\ DOMAIN <<r>> = {1} /\ <<r>>[1] = r
  BY AppendProperties, LenProperties
<1> HIDE DEF longer
<1>2. ASSUME NEW p \in Records
      PROVE  Over(Over(view, chain), <<r>>)[p] = Over(view, longer)[p]
  <2>1. CASE r.path = p
    <3>1. Over(Over(view, chain), <<r>>)[p] = r.blob
      <4> DEFINE one == <<r>>
      <4>1. /\ one \in Seq(HeldWrites) /\ 1 \in DOMAIN one /\ one[1].path = p
            /\ \A j \in DOMAIN one : one[j].path = p => j <= 1
            /\ one[1].blob = r.blob
        BY <1>1, <2>1
      <4> HIDE DEF one
      <4>2. Over(Over(view, chain), one)[p] = one[1].blob
        BY <4>1, OverWritten
      <4> QED BY <4>1, <4>2 DEF one
    <3>2. Len(chain) + 1 \in DOMAIN longer
      BY <1>1
    <3>3. Over(view, longer)[p] = longer[Len(chain) + 1].blob
      BY <1>1, <2>1, <3>2, OverWritten
    <3> QED BY <1>1, <3>1, <3>3
  <2>2. CASE r.path # p
    <3>1. Over(Over(view, chain), <<r>>)[p] = Over(view, chain)[p]
      BY <1>1, <2>2, OverUnwritten
    <3>2. CASE \A i \in DOMAIN chain : chain[i].path # p
      <4>1. \A i \in DOMAIN longer : longer[i].path # p
        BY <1>1, <2>2, <3>2
      <4> QED BY <3>1, <3>2, <4>1, OverUnwritten
    <3>3. CASE \E i \in DOMAIN chain : chain[i].path = p
      <4>1. PICK i \in DOMAIN chain : /\ chain[i].path = p
                                      /\ \A j \in DOMAIN chain : chain[j].path = p => j <= i
        BY <3>3, LastOfPath
      <4>2. Over(view, chain)[p] = chain[i].blob
        BY <4>1, OverWritten
      <4>3. /\ i \in DOMAIN longer /\ longer[i].path = p
            /\ \A j \in DOMAIN longer : longer[j].path = p => j <= i
        BY <1>1, <2>2, <4>1
      <4>4. Over(view, longer)[p] = longer[i].blob
        BY <1>1, <4>3, OverWritten
      <4> QED BY <1>1, <3>1, <4>1, <4>2, <4>4
    <3> QED BY <3>2, <3>3
  <2> QED BY <2>1, <2>2
<1> QED BY <1>2 DEF Over, longer
-----------------------------------------------------------------------------
(* The inductive invariant *)

\* Pushing the chain writes no marker the view has.
SafeChain(chain, view) ==
    \A i \in DOMAIN chain :
        chain[i].path \in Markers => chain[i].kind = "create" /\ view[chain[i].path] = Absent

\* One store against the branch o.
StoreInv(s, o) ==
    /\ s \in Stores
    /\ s.head <= o.ver
    /\ s.fetched /\ s.head = o.ver => Base(s) = o.view
    /\ ~s.fetched => s.view = EmptyView
    /\ s.held # <<>> => /\ s.fetched
                        /\ SafeChain(s.held, s.baseView)
                        /\ s.view = Over(s.baseView, s.held)

\* A push is on the way only with something to push.
Pushing == \A w \in Writers : flush[w].phase \in {"push", "refused"} => store[w].held # <<>>

StoresInv == \A w \in Writers : StoreInv(store[w], origin)
InflightInv == \A p \in inflight : SafeChain(p.recs, origin.view)

IInv == TypeOK /\ StoresInv /\ InflightInv /\ Pushing

Branches == [ver: Nat, view: Views, last: Pushes]

-----------------------------------------------------------------------------
(* What the operators on one store preserve *)

LEMMA EmptyViewIsView == EmptyView \in Views
BY DEF EmptyView, Views

LEMMA NoChain == <<>> \in Seq(HeldWrites)
BY EmptySeq

LEMMA FetchedInv ==
    ASSUME origin \in Branches, NEW s \in Stores, s.held = <<>>
    PROVE  StoreInv(Fetched(s), origin)
<1>1. /\ Fetched(s) \in Stores /\ Fetched(s).head = origin.ver
      /\ Fetched(s).view = origin.view /\ Fetched(s).fetched /\ Fetched(s).held = <<>>
  BY DEF Fetched, Stores, Branches
<1> QED BY <1>1 DEF StoreInv, Branches, Base

LEMMA LandedFetchedInv ==
    ASSUME origin \in Branches, NEW s \in Stores
    PROVE  StoreInv(Landed(Fetched(s)), origin)
<1> DEFINE t == Fetched(s)
<1>1. t \in Stores /\ t.head = origin.ver /\ t.view = origin.view /\ t.fetched
  BY DEF Fetched, Stores, Branches
<1> HIDE DEF t
<1>2. /\ Landed(t) \in Stores /\ Landed(t).head = origin.ver
      /\ Landed(t).view = origin.view /\ Landed(t).fetched /\ Landed(t).held = <<>>
  BY <1>1, NoChain DEF Landed, Stores
<1>3. StoreInv(Landed(t), origin)
  BY <1>2 DEF StoreInv, Branches, Base
<1> QED BY <1>3 DEF t

LEMMA EnsureFetchedInv ==
    ASSUME origin \in Branches, NEW s, StoreInv(s, origin)
    PROVE  /\ StoreInv(EnsureFetched(s), origin)
           /\ EnsureFetched(s).fetched
<1>1. CASE s.fetched
  BY <1>1 DEF EnsureFetched
<1>2. CASE ~s.fetched
  <2>1. s \in Stores /\ s.held = <<>>
    BY <1>2 DEF StoreInv
  <2>2. Fetched(s).fetched
    BY <2>1 DEF Fetched, Stores
  <2> QED BY <1>2, <2>1, <2>2, FetchedInv DEF EnsureFetched
<1> QED BY <1>1, <1>2

LEMMA HoldingInv ==
    ASSUME NEW o, NEW s, StoreInv(s, o), NEW b \in BOOLEAN
    PROVE  StoreInv([s EXCEPT !.holding = b], o)
BY DEF StoreInv, Stores, Base

LEMMA DropHeldInv ==
    ASSUME NEW o, NEW s, StoreInv(s, o)
    PROVE  StoreInv(DropHeld(s), o) /\ DropHeld(s).held = <<>>
<1> DEFINE t == DropHeld(s)
<1>1. s \in Stores /\ Base(s) \in Views
  BY DEF StoreInv, Stores, Base
<1>2. /\ t \in Stores /\ t.head = s.head /\ t.fetched = s.fetched
      /\ t.view = Base(s) /\ t.held = <<>>
  BY <1>1, NoChain DEF DropHeld, Stores, Base
<1> QED BY <1>2 DEF StoreInv, Base

LEMMA ChainInv ==
    ASSUME NEW o, NEW s, StoreInv(s, o), s.fetched, NEW r \in HeldWrites,
           r.path \in Markers => r.kind = "create" /\ s.view[r.path] = Absent
    PROVE  StoreInv(Chain(s, r), o) /\ Chain(s, r).held # <<>>
<1> DEFINE base == IF s.held = <<>> THEN s.view ELSE s.baseView
           t == Chain(s, r)
<1>1. s \in Stores /\ s.held \in Seq(HeldWrites) /\ base \in Views
  BY DEF StoreInv, Stores
<1>2. /\ Append(s.held, r) \in Seq(HeldWrites) /\ Append(s.held, r) # <<>>
      /\ <<r>> \in Seq(HeldWrites)
  BY <1>1, AppendProperties
<1>3. s.view = Over(base, s.held)
  <2>1. CASE s.held = <<>>
    <3>1. Over(s.view, <<>>) = s.view
      <4>1. \A p \in Records : Over(s.view, <<>>)[p] = s.view[p]
        BY OverUnwritten
      <4>2. s.view \in Views /\ Over(s.view, <<>>) = [p \in Records |-> Over(s.view, <<>>)[p]]
        BY <1>1 DEF Stores, Over
      <4> QED BY <4>1, <4>2 DEF Views
    <3> QED BY <2>1, <3>1
  <2>2. CASE s.held # <<>>
    BY <2>2 DEF StoreInv
  <2> QED BY <2>1, <2>2
<1>4. Over(s.view, <<r>>) = Over(base, Append(s.held, r))
  BY <1>1, <1>3, OverAppend
<1>5. /\ t = [s EXCEPT !.baseView = base, !.held = Append(s.held, r),
                       !.view = Over(s.view, <<r>>)]
      /\ Over(s.view, <<r>>) \in Views
  <2>1. Over(s.view, <<r>>) \in Views
    BY <1>1, <1>2, OverIsView DEF Stores
  <2> QED BY <1>1, <2>1 DEF Chain, Stores
<1>6. SafeChain(Append(s.held, r), base)
  <2>1. SafeChain(s.held, base)
    <3>1. CASE s.held = <<>>
      BY <3>1 DEF SafeChain
    <3>2. CASE s.held # <<>>
      BY <3>2 DEF StoreInv
    <3> QED BY <3>1, <3>2
  <2>2. r.path \in Markers => base[r.path] = Absent
    BY <1>1, <1>3, OverIsView DEF Records
  <2>3. /\ DOMAIN Append(s.held, r) = 1 .. Len(s.held) + 1 /\ DOMAIN s.held = 1 .. Len(s.held)
        /\ Len(s.held) \in Nat
        /\ \A i \in 1 .. Len(s.held) : Append(s.held, r)[i] = s.held[i]
        /\ Append(s.held, r)[Len(s.held) + 1] = r
    BY <1>1, <1>2, AppendProperties, LenProperties
  <2> QED BY <2>1, <2>2, <2>3 DEF SafeChain
<1>7. t.held # <<>>
  BY <1>1, <1>2, <1>5 DEF Stores
<1>8. StoreInv(t, o)
  <2>1. /\ t \in Stores /\ t.head = s.head /\ t.fetched = s.fetched
        /\ t.baseView = base /\ t.held = Append(s.held, r) /\ t.view = Over(s.view, <<r>>)
    BY <1>1, <1>2, <1>5 DEF Stores
  <2>2. Base(t) = Base(s)
    BY <1>7, <2>1 DEF Base
  <2> QED BY <1>4, <1>6, <1>7, <2>1, <2>2 DEF StoreInv
<1> QED BY <1>7, <1>8

LEMMA RebuildInv ==
    ASSUME origin \in Branches, NEW s \in Stores, s.fetched,
           NEW chain \in Seq(HeldWrites), chain # <<>>, SafeChain(chain, origin.view)
    PROVE  StoreInv(Rebuild(s, chain), origin) /\ Rebuild(s, chain).held # <<>>
<1>1. Over(origin.view, chain) \in Views
  BY OverIsView DEF Branches
<1>2. /\ Rebuild(s, chain) \in Stores /\ Rebuild(s, chain).head = origin.ver
      /\ Rebuild(s, chain).baseView = origin.view /\ Rebuild(s, chain).fetched
      /\ Rebuild(s, chain).held = chain
      /\ Rebuild(s, chain).view = Over(origin.view, chain)
  BY <1>1 DEF Rebuild, Stores, Branches
<1> QED BY <1>2 DEF StoreInv, Branches, Base

\* The branch moves under a store: its head is behind, and it stays sound.
LEMMA BehindInv ==
    ASSUME NEW o \in Branches, NEW n \in Branches, n.ver = o.ver + 1,
           NEW s, StoreInv(s, o)
    PROVE  StoreInv(s, n)
BY DEF StoreInv, Stores, Branches

LEMMA LandedInv ==
    ASSUME NEW o \in Branches, NEW n \in Branches, NEW s, StoreInv(s, o),
           s.held # <<>>, s.head = o.ver,
           n.ver = o.ver + 1, n.view = Over(o.view, s.held)
    PROVE  StoreInv(Landed([s EXCEPT !.head = o.ver + 1]), n)
<1> DEFINE u == [s EXCEPT !.head = o.ver + 1]
           t == Landed(u)
<1>1. /\ s \in Stores /\ s.baseView = o.view /\ s.view = n.view /\ s.fetched
  BY DEF StoreInv, Base
<1>2. u \in Stores /\ u.head = n.ver /\ u.view = n.view /\ u.fetched
  BY <1>1 DEF Stores, Branches
<1> HIDE DEF u
<1>3. /\ t \in Stores /\ t.head = n.ver /\ t.view = n.view /\ t.held = <<>> /\ t.fetched
  BY <1>2, NoChain DEF Landed, Stores
<1>4. StoreInv(t, n)
  BY <1>3 DEF StoreInv, Base, Branches
<1> QED BY <1>4 DEF u

\* A chain whose guards hold against a view writes no marker the view has.
LEMMA GuardedIsSafe ==
    ASSUME NEW chain, NEW view, NEW other,
           SafeChain(chain, other),
           \A i \in DOMAIN chain : ~GuardLost(chain[i], view)
    PROVE  SafeChain(chain, view)
BY DEF SafeChain, GuardLost
-----------------------------------------------------------------------------
(* What the parts of an action preserve *)

\* The branch stays, or moves one version on.
BranchStep == origin' = origin \/ (origin' \in Branches /\ origin'.ver = origin.ver + 1)

\* The parts of the state no store belongs to.
RestOK ==
    /\ origin \in Branches /\ inflight \subseteq Pushes
    /\ tag \in [at: Nat, late: SUBSET Nat] /\ localTag \in [Writers -> Nat]
    /\ answer \in [Writers -> Answers] /\ ops \in [Writers -> Nat]
    /\ landed \subseteq RecordIds /\ acked \subseteq RecordIds
    /\ disowned \subseteq RecordIds /\ ended \subseteq Nat

FlushOK == flush \in [Writers -> Flushes]

LEMMA IInvParts == IInv <=> RestOK /\ FlushOK /\ StoresInv /\ InflightInv /\ Pushing
                              /\ store \in [Writers -> Stores]
BY DEF IInv, TypeOK, RestOK, FlushOK, Branches

LEMMA IInvPartsNext == IInv' <=> RestOK' /\ FlushOK' /\ StoresInv' /\ InflightInv' /\ Pushing'
                                   /\ store' \in [Writers -> Stores]
BY DEF IInv, TypeOK, RestOK, FlushOK, Branches

LEMMA StoreStep ==
    ASSUME IInv, BranchStep, NEW w \in Writers, NEW s, StoreInv(s, origin'), StoreIs(w, s)
    PROVE  StoresInv' /\ store' \in [Writers -> Stores]
<1>1. s \in Stores /\ store \in [Writers -> Stores] /\ origin \in Branches
  BY IInvParts DEF StoreInv, RestOK
<1>2. store' \in [Writers -> Stores] /\ store'[w] = s
      /\ \A v \in Writers \ {w} : store'[v] = store[v]
  BY <1>1 DEF StoreIs
<1>3. \A v \in Writers : StoreInv(store[v], origin')
  BY <1>1, BehindInv DEF BranchStep, IInv, StoresInv
<1> QED BY <1>2, <1>3 DEF StoresInv

LEMMA RecordType ==
    ASSUME IInv, NEW w \in Writers, NEW kind \in {"create", "update", "stage"},
           NEW p \in Records \cup Trackers, NEW n \in Nat, NEW st \in States \cup {NoState},
           NEW guard \in Blobs \cup {Absent}
    PROVE  /\ Record(w, kind, p, Blob(w, n, st), guard) \in HeldWrites
           /\ Record(w, kind, p, Blob(w, n, st), guard).kind = kind
           /\ Record(w, kind, p, Blob(w, n, st), guard).path = p
<1>1. ops[w] \in Nat
  BY IInvParts DEF RestOK
<1>2. Blob(w, n, st) \in Blobs
  BY <1>1 DEF Blob, Blobs
<1> QED BY <1>1, <1>2 DEF Record, HeldWrites

LEMMA IdsType ==
    ASSUME NEW chain \in Seq(HeldWrites)
    PROVE  Ids(chain) \subseteq RecordIds
<1>1. \A i \in DOMAIN chain : chain[i] \in HeldWrites
  BY LenProperties, ElementOfSeq
<1> QED BY <1>1 DEF Ids, Id, RecordIds, HeldWrites

LEMMA PushType ==
    ASSUME IInv, NEW w \in Writers
    PROVE  ThePush(w) \in Pushes /\ ThePush(w).recs = store[w].held
BY IInvParts DEF ThePush, Push, Pushes, Stores

LEMMA NotFlushingType == NotFlushing \in Flushes
BY ConstantsAssumption DEF NotFlushing, Flushes, FlushCalls

\* A chain at origin's head is safe to land.
LEMMA HeadIsSafe ==
    ASSUME IInv, NEW w \in Writers, store[w].head = origin.ver
    PROVE  SafeChain(store[w].held, origin.view)
<1>1. CASE store[w].held = <<>>
  BY <1>1 DEF SafeChain
<1>2. CASE store[w].held # <<>>
  BY <1>2 DEF IInv, StoresInv, StoreInv, Base
<1> QED BY <1>1, <1>2

\* A landing moves the branch one version on and leaves no push under way.
LEMMA ArriveInv ==
    ASSUME IInv, NEW push \in Pushes, Arrive(push)
    PROVE  /\ origin' \in Branches /\ origin'.ver = origin.ver + 1
           /\ origin'.view = Over(origin.view, push.recs)
           /\ inflight' = {} /\ landed' \subseteq RecordIds /\ ended' \subseteq Nat
<1>1. origin \in Branches /\ landed \subseteq RecordIds /\ ended \subseteq Nat
  BY IInvParts DEF RestOK
<1>2. push.recs \in Seq(HeldWrites)
  BY DEF Pushes
<1>3. Over(origin.view, push.recs) \in Views
  BY <1>1, <1>2, OverIsView DEF Branches
<1>4. Ids(push.recs) \subseteq RecordIds
  BY <1>2, IdsType
<1>5. /\ origin' = [ver |-> origin.ver + 1, view |-> Over(origin.view, push.recs), last |-> push]
      /\ inflight' = {} /\ landed' = landed \cup Ids(push.recs)
      /\ ended' = ended \/ ended' = ended \cup {origin.ver + 1}
  BY DEF Arrive
<1>6. origin.ver + 1 \in Nat
  BY <1>1 DEF Branches
<1>7. /\ origin' \in Branches /\ origin'.ver = origin.ver + 1
      /\ origin'.view = Over(origin.view, push.recs)
  BY <1>3, <1>5, <1>6 DEF Branches
<1> QED BY <1>1, <1>4, <1>5, <1>6, <1>7

LEMMA EndFlushInv ==
    ASSUME IInv, BranchStep, NEW w \in Writers, NEW s, StoreInv(s, origin'), EndFlush(w, s)
    PROVE  StoresInv' /\ store' \in [Writers -> Stores] /\ FlushOK' /\ Pushing'
<1>1. s.holding \in BOOLEAN
  BY DEF StoreInv, Stores
<1>2. StoreInv([s EXCEPT !.holding = @ /\ flush[w].call # "release"], origin')
  BY <1>1, HoldingInv
<1>3. StoresInv' /\ store' \in [Writers -> Stores]
  BY <1>2, StoreStep DEF EndFlush
<1>4. FlushOK'
  BY NotFlushingType, IInvParts DEF EndFlush, FlushOK
<1>5. Pushing'
  <2> SUFFICES ASSUME NEW v \in Writers, flush'[v].phase \in {"push", "refused"}
               PROVE  store'[v].held # <<>>
    BY DEF Pushing
  <2>1. v # w /\ flush'[v] = flush[v]
    BY IInvParts DEF EndFlush, FlushOK, NotFlushing
  <2>2. store'[v] = store[v]
    BY <2>1, IInvParts DEF EndFlush, StoreIs
  <2> QED BY <2>1, <2>2, IInvParts DEF Pushing
<1> QED BY <1>3, <1>4, <1>5

LEMMA OutcomeType ==
    ASSUME IInv, NEW w \in Writers
    PROVE  Outcome(w) \in Answers
<1>1. flush[w].lost \in {"", "conflict_exists", "conflict_stale_sha"}
  BY IInvParts DEF FlushOK, Flushes
<1> QED BY <1>1 DEF Outcome, Answers

LEMMA AnswerType ==
    ASSUME IInv, NEW w, NEW a \in Answers, Answer(w, a)
    PROVE  answer' \in [Writers -> Answers]
BY IInvParts DEF Answer, RestOK

LEMMA LandInv ==
    ASSUME IInv, BranchStep, NEW w \in Writers, NEW s,
           StoreInv(Landed(s), origin'), Land(w, s)
    PROVE  /\ StoresInv' /\ store' \in [Writers -> Stores] /\ FlushOK' /\ Pushing'
           /\ acked' \subseteq RecordIds /\ answer' \in [Writers -> Answers]
<1>1. acked' \subseteq RecordIds
  BY IInvParts, IdsType DEF Land, RestOK, Stores
<1>2. answer' \in [Writers -> Answers]
  BY OutcomeType, AnswerType DEF Land
<1>3. CASE EndFlush(w, Landed(s))
  BY <1>1, <1>2, <1>3, EndFlushInv
<1>4. CASE StoreIs(w, Landed(s)) /\ flush' = [flush EXCEPT ![w].phase = "tag"]
  <2>1. StoresInv' /\ store' \in [Writers -> Stores]
    BY <1>4, StoreStep
  <2>2. FlushOK' /\ flush'[w].phase = "tag" /\ \A v \in Writers \ {w} : flush'[v] = flush[v]
    BY <1>4, IInvParts DEF FlushOK, Flushes
  <2>3. \A v \in Writers \ {w} : store'[v] = store[v]
    BY <1>4, IInvParts DEF StoreIs
  <2>4. Pushing'
    BY <2>2, <2>3, IInvParts DEF Pushing
  <2> QED BY <1>1, <1>2, <2>1, <2>2, <2>4
<1> QED BY <1>3, <1>4 DEF Land
-----------------------------------------------------------------------------
(* The calls preserve the invariant *)

LEMMA RefuseInv ==
    ASSUME IInv, NEW w \in Writers, Call(w), NEW s, StoreInv(s, origin),
           NEW a \in Answers, Refuse(w, s, a)
    PROVE  IInv'
<1>1. origin' = origin
  BY DEF Refuse, remote
<1>2. StoresInv' /\ store' \in [Writers -> Stores]
  BY <1>1, StoreStep DEF Refuse, BranchStep
<1>3. FlushOK' /\ InflightInv'
  BY <1>1, IInvParts DEF Refuse, remote, FlushOK, InflightInv
<1>4. Pushing'
  <2>1. /\ flush' = flush /\ flush[w].phase = "idle"
        /\ \A v \in Writers \ {w} : store'[v] = store[v]
    BY IInvParts DEF Refuse, Call, Idle, StoreIs
  <2> QED BY <2>1, IInvParts DEF Pushing
<1>5. RestOK'
  <2>1. answer' \in [Writers -> Answers]
    BY AnswerType DEF Refuse
  <2>2. ops' \in [Writers -> Nat]
    BY IInvParts DEF Call, RestOK
  <2> QED BY <1>1, <2>1, <2>2, IInvParts DEF Refuse, RestOK, remote, histories
<1> QED BY <1>2, <1>3, <1>4, <1>5, IInvPartsNext

LEMMA WaitInv ==
    ASSUME IInv, NEW w \in Writers, Call(w), NEW s, StoreInv(s, origin), s.fetched,
           NEW r \in HeldWrites, r.path \notin Markers,
           NEW a \in Answers, Wait(w, s, r, a)
    PROVE  IInv'
<1>1. StoreInv(Chain(s, r), origin)
  BY ChainInv
<1>2. Refuse(w, Chain(s, r), a)
  BY DEF Wait, Refuse
<1> QED BY <1>1, <1>2, RefuseInv

LEMMA SendInv ==
    ASSUME IInv, NEW w \in Writers, Call(w), NEW s, StoreInv(s, origin), s.fetched,
           NEW r \in HeldWrites,
           r.path \in Markers => r.kind = "create" /\ s.view[r.path] = Absent,
           NEW call \in FlushCalls, Send(w, s, r, call)
    PROVE  IInv'
<1>1. origin' = origin
  BY DEF Send, remote
<1>2. StoreInv(Chain(s, r), origin) /\ Chain(s, r).held # <<>>
  BY ChainInv
<1>3. StoresInv' /\ store' \in [Writers -> Stores]
  BY <1>1, <1>2, StoreStep DEF Send, BranchStep
<1>4. [NotFlushing EXCEPT !.phase = "push", !.call = call] \in Flushes
  BY NotFlushingType DEF NotFlushing, Flushes
<1>5. FlushOK' /\ InflightInv'
  BY <1>1, <1>4, IInvParts DEF Send, StartFlush, remote, FlushOK, InflightInv
<1>6. Pushing'
  <2>1. /\ store'[w].held # <<>>
        /\ \A v \in Writers \ {w} : store'[v] = store[v] /\ flush'[v] = flush[v]
    BY <1>2, IInvParts DEF Send, StoreIs, StartFlush, FlushOK
  <2> QED BY <2>1, IInvParts DEF Pushing
<1>7. RestOK'
  <2>1. answer' \in [Writers -> Answers]
    BY AnswerType DEF Send, Answers
  <2>2. ops' \in [Writers -> Nat]
    BY IInvParts DEF Call, RestOK
  <2> QED BY <1>1, <2>1, <2>2, IInvParts DEF Send, RestOK, remote, histories
<1> QED BY <1>3, <1>5, <1>6, <1>7, IInvPartsNext

LEMMA CreateInv ==
    ASSUME IInv, NEW w \in Writers, NEW p \in Markers \cup Registers, Create(w, p)
    PROVE  IInv'
<1> DEFINE s == EnsureFetched(store[w])
           r == Record(w, "create", p, Blob(w, 0, NoState), Absent)
<1>1. StoreInv(s, origin) /\ s.fetched
  BY EnsureFetchedInv, IInvParts DEF StoresInv, RestOK
<1>2. CASE s.view[p] # Absent /\ Refuse(w, s, "conflict_exists")
  BY <1>1, <1>2, RefuseInv DEF Create, Answers
<1>3. CASE s.view[p] = Absent /\ Send(w, s, r, "record")
  <2>1. r \in HeldWrites /\ r.kind = "create" /\ r.path = p
    BY RecordType DEF Records
  <2> QED BY <1>1, <1>3, <2>1, SendInv DEF Create, FlushCalls
<1> QED BY <1>2, <1>3 DEF Create

LEMMA UpdateInv ==
    ASSUME IInv, NEW w \in Writers, NEW p \in Registers, Update(w, p)
    PROVE  IInv'
<1> DEFINE s == store[w]
           r == Record(w, "update", p, Blob(w, s.view[p].seq + 1, NoState), GuardFor(s, p))
<1>1. StoreInv(s, origin) /\ s \in Stores /\ p \in Records /\ p \notin Markers
  BY IInvParts, ConstantsAssumption DEF StoresInv, Records
<1>2. CASE s.view[p] = Absent /\ Refuse(w, s, "conflict_missing_base")
  BY <1>1, <1>2, RefuseInv DEF Update, Answers
<1>3. CASE s.view[p] # Absent /\ Send(w, s, r, "record")
  <2>1. s.fetched
    BY <1>1, <1>3 DEF StoreInv, EmptyView
  <2>2. s.view[p] \in Blobs /\ s.view[p].seq + 1 \in Nat
    BY <1>1, <1>3 DEF Stores, Views, Blobs
  <2>3. GuardFor(s, p) \in Blobs \cup {Absent}
    BY <1>1 DEF GuardFor, Stores, Views
  <2>4. r \in HeldWrites /\ r.path = p
    BY <1>1, <2>2, <2>3, RecordType
  <2> QED BY <1>1, <1>3, <2>1, <2>4, SendInv DEF Update, FlushCalls
<1> QED BY <1>2, <1>3 DEF Update

LEMMA StageInv ==
    ASSUME IInv, NEW w \in Writers, NEW t \in Trackers, NEW held \in BOOLEAN,
           StageChanges(w, t, held)
    PROVE  IInv'
<1> DEFINE s == EnsureFetched(store[w])
           r == Record(w, "stage", t, Blob(w, 0, NoState), Absent)
<1>1. StoreInv(s, origin) /\ s.fetched
  BY EnsureFetchedInv, IInvParts DEF StoresInv, RestOK
<1>2. r \in HeldWrites /\ r.path = t /\ t \notin Markers
  <2>1. t \in Records \cup Trackers /\ t \notin Markers
    BY ConstantsAssumption DEF Records
  <2>2. r \in HeldWrites /\ r.path = t
    BY <2>1, RecordType
  <2> QED BY <2>1, <2>2
<1>3. CASE Wait(w, s, r, "staged")
  BY <1>1, <1>2, <1>3, WaitInv DEF StageChanges, Answers
<1>4. CASE Send(w, s, r, "stage")
  BY <1>1, <1>2, <1>4, SendInv DEF StageChanges, FlushCalls
<1> QED BY <1>3, <1>4 DEF StageChanges
LEMMA PutCheckpointInv ==
    ASSUME IInv, NEW w \in Writers, NEW state \in States, PutCheckpoint(w, state)
    PROVE  IInv'
<1> DEFINE s == EnsureFetched(store[w])
           previous == s.view[Checkpoint]
           first == previous = Absent
           news == IF first THEN TRUE
                   ELSE previous.state # state \/ previous.body # Body[w]
           over == Terminal(state)
           r == IF first
                THEN Record(w, "create", Checkpoint, Blob(w, 1, state), Absent)
                ELSE Record(w, "update", Checkpoint, Blob(w, previous.seq + 1, state),
                            GuardFor(s, Checkpoint))
           waits == s.holding /\ ~over /\ ~first
<1>1. StoreInv(s, origin) /\ s.fetched /\ s \in Stores /\ Call(w)
  BY EnsureFetchedInv, IInvParts DEF StoresInv, RestOK, StoreInv, PutCheckpoint
<1>2. r \in HeldWrites /\ r.path = Checkpoint /\ r.path \notin Markers
  <2>1. Checkpoint \in Records /\ Checkpoint \notin Markers
    BY ConstantsAssumption DEF Records
  <2>2. CASE first
    BY <2>1, <2>2, RecordType
  <2>3. CASE ~first
    <3>1. previous.seq + 1 \in Nat
      BY <1>1, <2>1, <2>3 DEF Stores, Views, Blobs
    <3>2. GuardFor(s, Checkpoint) \in Blobs \cup {Absent}
      BY <1>1, <2>1 DEF GuardFor, Stores, Views
    <3> QED BY <2>1, <2>3, <3>1, <3>2, RecordType
  <2> QED BY <2>2, <2>3
<1> HIDE DEF s, r
<1>3. CASE Wait(w, s, r, "updated")
  BY <1>1, <1>2, <1>3, WaitInv DEF Answers
<1>4. CASE Send(w, s, r, IF over THEN "final" ELSE "record")
  <2>1. (IF over THEN "final" ELSE "record") \in FlushCalls
    BY DEF FlushCalls
  <2> QED BY <1>1, <1>2, <1>4, <2>1, SendInv
<1>5. CASE Refuse(w, s, "no_change")
  BY <1>1, <1>5, RefuseInv DEF Answers
<1>6. CASE /\ StoreIs(w, s) /\ Answer(w, "no_change")
           /\ flush' = [flush EXCEPT ![w] =
                 [NotFlushing EXCEPT !.phase = IF s.held = <<>> THEN "tag" ELSE "push",
                                     !.call = "tag"]]
           /\ UNCHANGED <<remote, tag, localTag, histories>>
  <2>1. origin' = origin /\ inflight' = inflight
    BY <1>6 DEF remote
  <2>2. StoresInv' /\ store' \in [Writers -> Stores]
    BY <1>1, <1>6, <2>1, StoreStep DEF BranchStep
  <2> DEFINE f == [NotFlushing EXCEPT !.phase = IF s.held = <<>> THEN "tag" ELSE "push",
                                      !.call = "tag"]
  <2>3. f \in Flushes /\ f.phase = IF s.held = <<>> THEN "tag" ELSE "push"
    BY NotFlushingType DEF NotFlushing, Flushes, FlushCalls
  <2>4. /\ store'[w] = s /\ flush'[w] = f
        /\ \A v \in Writers \ {w} : store'[v] = store[v] /\ flush'[v] = flush[v]
    BY <1>6, IInvParts DEF StoreIs, FlushOK
  <2>5. FlushOK' /\ Pushing' /\ InflightInv'
    <3>1. Pushing'
      <4> HIDE DEF f
      <4> SUFFICES ASSUME NEW v \in Writers, flush'[v].phase \in {"push", "refused"}
                   PROVE  store'[v].held # <<>>
        BY DEF Pushing
      <4>1. CASE v = w
        BY <2>3, <2>4, <4>1
      <4>2. CASE v # w
        BY <2>4, <4>2, IInvParts DEF Pushing
      <4> QED BY <4>1, <4>2
    <3>2. FlushOK'
      BY <1>6, <2>3, IInvParts DEF FlushOK
    <3> QED BY <2>1, <3>1, <3>2, IInvParts DEF InflightInv
  <2>6. RestOK'
    <3>1. answer' \in [Writers -> Answers]
      BY <1>6, AnswerType DEF Answers
    <3>2. ops' \in [Writers -> Nat]
      BY <1>1, IInvParts DEF Call, RestOK
    <3> QED BY <1>6, <3>1, <3>2, IInvParts DEF RestOK, remote, histories
  <2> QED BY <2>2, <2>5, <2>6, IInvPartsNext
<1> QED BY <1>3, <1>4, <1>5, <1>6 DEF PutCheckpoint, s, r

\* A writer between calls stays there: what it is pushing is nobody's worry.
LEMMA IdleStoreInv ==
    ASSUME IInv, NEW w \in Writers, Idle(w), NEW s, StoreInv(s, origin), StoreIs(w, s),
           UNCHANGED <<remote, flush>>
    PROVE  StoresInv' /\ store' \in [Writers -> Stores] /\ FlushOK' /\ InflightInv' /\ Pushing'
<1>1. origin' = origin /\ inflight' = inflight /\ flush' = flush
  BY DEF remote
<1>2. StoresInv' /\ store' \in [Writers -> Stores]
  BY <1>1, StoreStep DEF BranchStep
<1>3. FlushOK' /\ InflightInv'
  BY <1>1, IInvParts DEF FlushOK, InflightInv
<1>4. flush[w].phase = "idle" /\ \A v \in Writers \ {w} : store'[v] = store[v]
  BY IInvParts DEF Idle, StoreIs
<1>5. Pushing'
  BY <1>1, <1>4, IInvParts DEF Pushing
<1> QED BY <1>2, <1>3, <1>5

LEMMA FetchInv ==
    ASSUME IInv, NEW w \in Writers, Fetch(w)
    PROVE  IInv'
<1> DEFINE s == store[w]
           moved == s.held # <<>> /\ s.head # origin.ver
           lost == moved /\ \E i \in DOMAIN s.held : GuardLost(s.held[i], origin.view)
           t == IF lost THEN Fetched(DropHeld(s))
                ELSE IF moved THEN [Rebuild(s, s.held) EXCEPT !.fetched = TRUE]
                ELSE IF s.held # <<>> THEN [s EXCEPT !.fetched = TRUE]
                ELSE Fetched(s)
<1>1. origin \in Branches /\ s \in Stores /\ StoreInv(s, origin)
  BY IInvParts DEF RestOK, StoresInv
<1>2. StoreInv(t, origin)
  <2>1. CASE lost
    <3>1. DropHeld(s) \in Stores /\ DropHeld(s).held = <<>>
      BY <1>1, DropHeldInv DEF StoreInv
    <3> QED BY <1>1, <2>1, <3>1, FetchedInv
  <2>2. CASE ~lost /\ moved
    <3>1. s.fetched /\ SafeChain(s.held, s.baseView) /\ s.held \in Seq(HeldWrites)
      BY <1>1, <2>2 DEF StoreInv, Stores
    <3>2. SafeChain(s.held, origin.view)
      BY <2>2, <3>1, GuardedIsSafe
    <3>3. StoreInv(Rebuild(s, s.held), origin)
      BY <1>1, <2>2, <3>1, <3>2, RebuildInv
    <3>4. Rebuild(s, s.held).fetched = TRUE
      BY <1>1, <3>1 DEF Rebuild, Stores
    <3>5. [Rebuild(s, s.held) EXCEPT !.fetched = TRUE] = Rebuild(s, s.held)
      <4>1. Rebuild(s, s.held) \in Stores
        BY <3>3 DEF StoreInv
      <4> QED BY <3>4, <4>1 DEF Stores
    <3> QED BY <2>2, <3>3, <3>5
  <2>3. CASE ~moved /\ s.held # <<>>
    <3>1. s.fetched
      BY <1>1, <2>3 DEF StoreInv
    <3>2. [s EXCEPT !.fetched = TRUE] = s
      BY <1>1, <3>1 DEF Stores
    <3> QED BY <1>1, <2>3, <3>2
  <2>4. CASE s.held = <<>>
    BY <1>1, <2>4, FetchedInv
  <2> QED BY <2>1, <2>2, <2>3, <2>4
<1>3. StoreIs(w, t) /\ Call(w) /\ UNCHANGED <<remote, flush>>
  BY DEF Fetch
<1>4. StoresInv' /\ store' \in [Writers -> Stores] /\ FlushOK' /\ InflightInv' /\ Pushing'
  <2> HIDE DEF t
  <2> QED BY <1>2, <1>3, IdleStoreInv DEF Call
<1>5. RestOK'
  <2>1. answer' \in [Writers -> Answers]
    <3>1. (IF lost THEN "held_conflict" ELSE "fetched") \in Answers
      BY DEF Answers
    <3>2. Answer(w, IF lost THEN "held_conflict" ELSE "fetched")
      BY DEF Fetch
    <3> QED BY <3>1, <3>2, AnswerType
  <2>2. ops' \in [Writers -> Nat]
    BY <1>3, IInvParts DEF Call, RestOK
  <2>3. disowned' \subseteq RecordIds
    BY <1>1, IInvParts, IdsType DEF Fetch, RestOK, Stores
  <2> QED BY <2>1, <2>2, <2>3, IInvParts DEF Fetch, RestOK, remote
<1> QED BY <1>4, <1>5, IInvPartsNext

LEMMA HoldInv ==
    ASSUME IInv, NEW w \in Writers, Hold(w) \/ Abandon(w)
    PROVE  IInv'
<1>1. StoreInv(store[w], origin) /\ store[w].held \in Seq(HeldWrites)
  BY IInvParts DEF StoresInv, Stores
<1>2. PICK s : StoreInv(s, origin) /\ StoreIs(w, s) /\ Idle(w) /\ UNCHANGED <<remote, flush>>
  <2>1. CASE Hold(w)
    <3>1. StoreInv([store[w] EXCEPT !.holding = TRUE], origin)
      BY <1>1, HoldingInv
    <3> QED BY <2>1, <3>1 DEF Hold
  <2>2. CASE Abandon(w)
    <3>1. StoreInv(DropHeld(store[w]), origin)
      BY <1>1, DropHeldInv
    <3>2. StoreInv([DropHeld(store[w]) EXCEPT !.holding = FALSE], origin)
      BY <3>1, HoldingInv
    <3> QED BY <2>2, <3>2 DEF Abandon, remote
  <2> QED BY <2>1, <2>2
<1>3. StoresInv' /\ store' \in [Writers -> Stores] /\ FlushOK' /\ InflightInv' /\ Pushing'
  BY <1>2, IdleStoreInv
<1>4. answer' \in [Writers -> Answers]
  BY AnswerType, IInvParts DEF Hold, Abandon, Answers, RestOK
<1>5. disowned' \subseteq RecordIds
  BY <1>1, IInvParts, IdsType DEF Hold, Abandon, RestOK, histories
<1>6. RestOK'
  BY <1>4, <1>5, IInvParts DEF Hold, Abandon, RestOK, remote, histories
<1> QED BY <1>3, <1>6, IInvPartsNext

LEMMA ReleaseInv ==
    ASSUME IInv, NEW w \in Writers, Release(w)
    PROVE  IInv'
<1>1. StoreInv(store[w], origin) /\ flush \in [Writers -> Flushes] /\ store \in [Writers -> Stores]
  BY IInvParts DEF StoresInv, FlushOK
<1>2. /\ UNCHANGED <<tag, localTag, ops, histories>> /\ origin' = origin /\ inflight' = inflight
  BY DEF Release, remote
<1>3. StoresInv' /\ store' \in [Writers -> Stores] /\ FlushOK' /\ InflightInv' /\ Pushing'
  <2>1. CASE store[w].held = <<>>
    <3>1. StoreInv([store[w] EXCEPT !.holding = FALSE], origin)
      BY <1>1, HoldingInv
    <3> QED BY <2>1, <3>1, IdleStoreInv DEF Release, remote
  <2>2. CASE store[w].held # <<>>
    <3>1. StartFlush(w, "release") /\ store' = store
      BY <2>2 DEF Release
    <3>2. [NotFlushing EXCEPT !.phase = "push", !.call = "release"] \in Flushes
      BY NotFlushingType DEF NotFlushing, Flushes, FlushCalls
    <3>3. FlushOK' /\ \A v \in Writers \ {w} : flush'[v] = flush[v]
      BY <1>1, <3>1, <3>2 DEF StartFlush, FlushOK
    <3>4. Pushing'
      BY <2>2, <3>1, <3>3, IInvParts DEF Pushing
    <3> QED BY <1>1, <1>2, <3>1, <3>3, <3>4, IInvParts DEF StoresInv, InflightInv
  <2> QED BY <2>1, <2>2
<1>4. answer' \in [Writers -> Answers]
  BY AnswerType DEF Release, Answers
<1>5. RestOK'
  BY <1>2, <1>4, IInvParts DEF RestOK, histories
<1> QED BY <1>3, <1>5, IInvPartsNext
-----------------------------------------------------------------------------
(* The push loop preserves the invariant *)

\* An exchange that ends the flush without a landing.
LEMMA FailInv ==
    ASSUME IInv, NEW w \in Writers, Fail(w), origin' = origin
    PROVE  /\ StoresInv' /\ store' \in [Writers -> Stores] /\ FlushOK' /\ Pushing'
           /\ answer' \in [Writers -> Answers]
<1>1. StoreInv(DropHeld(store[w]), origin)
  BY DropHeldInv, IInvParts DEF StoresInv
<1>2. answer' \in [Writers -> Answers]
  BY AnswerType DEF Fail, Answers
<1> QED BY <1>1, <1>2, EndFlushInv DEF Fail, BranchStep

LEMMA PushAckedInv ==
    ASSUME IInv, NEW w \in Writers, PushAcked(w)
    PROVE  IInv'
<1> DEFINE s == [store[w] EXCEPT !.head = origin.ver + 1]
<1>1. ThePush(w) \in Pushes /\ ThePush(w).recs = store[w].held
  BY PushType
<1>2. /\ origin' \in Branches /\ origin'.ver = origin.ver + 1
      /\ origin'.view = Over(origin.view, store[w].held)
      /\ inflight' = {} /\ landed' \subseteq RecordIds /\ ended' \subseteq Nat
  BY <1>1, ArriveInv DEF PushAcked
<1>3. store[w].held # <<>> /\ StoreInv(store[w], origin) /\ origin \in Branches
  BY IInvParts DEF PushAcked, InPhase, Pushing, StoresInv, RestOK
<1>4. StoreInv(Landed(s), origin')
  BY <1>2, <1>3, LandedInv DEF PushAcked
<1>5. /\ StoresInv' /\ store' \in [Writers -> Stores] /\ FlushOK' /\ Pushing'
      /\ acked' \subseteq RecordIds /\ answer' \in [Writers -> Answers]
  <2>1. Land(w, s)
    BY DEF PushAcked
  <2> HIDE DEF s
  <2> QED BY <1>2, <1>4, <2>1, LandInv DEF BranchStep
<1>6. RestOK' /\ InflightInv'
  BY <1>2, <1>5, IInvParts DEF PushAcked, RestOK, InflightInv
<1> QED BY <1>5, <1>6, IInvPartsNext

LEMMA PushRefusedInv ==
    ASSUME IInv, NEW w \in Writers, PushRefused(w)
    PROVE  IInv'
<1>1. ThePush(w) \in Pushes /\ flush \in [Writers -> Flushes] /\ InPhase(w, "push")
  BY PushType, IInvParts DEF FlushOK, PushRefused
<1>2. /\ FlushOK' /\ \A v \in Writers \ {w} : flush'[v] = flush[v]
  <2>1. PICK p \in Pushes : p = ThePush(w)
    BY <1>1
  <2>2. flush' = [flush EXCEPT ![w].phase = "refused", ![w].sent = @ \cup {p}]
    BY <2>1 DEF PushRefused
  <2>3. flush'[w] \in Flushes
    BY <1>1, <2>2 DEF Flushes
  <2> QED BY <1>1, <2>2, <2>3 DEF FlushOK
<1>3. store' = store /\ store[w].held # <<>>
  BY <1>1, IInvParts DEF PushRefused, Pushing, InPhase
<1>4. Pushing'
  BY <1>2, <1>3, IInvParts DEF Pushing
<1> QED BY <1>2, <1>4, IInvParts, IInvPartsNext
        DEF PushRefused, RestOK, StoresInv, InflightInv, remote, histories

LEMMA PushLostInv ==
    ASSUME IInv, NEW w \in Writers, PushLost(w)
    PROVE  IInv'
<1>1. ThePush(w) \in Pushes /\ ThePush(w).recs = store[w].held
  BY PushType
<1>2. flush \in [Writers -> Flushes] /\ origin' = origin
  BY IInvParts DEF FlushOK, PushLost
<1>3. inflight' \subseteq Pushes /\ InflightInv'
  <2>1. CASE inflight' = inflight
    BY <1>2, <2>1, IInvParts DEF RestOK, InflightInv
  <2>2. CASE store[w].head = origin.ver /\ inflight' = inflight \cup {ThePush(w)}
    <3>1. SafeChain(ThePush(w).recs, origin.view)
      BY <1>1, <2>2, HeadIsSafe
    <3> QED BY <1>1, <1>2, <2>2, <3>1, IInvParts DEF RestOK, InflightInv
  <2> QED BY <2>1, <2>2 DEF PushLost
<1>4. /\ StoresInv' /\ store' \in [Writers -> Stores] /\ FlushOK' /\ Pushing'
      /\ answer' \in [Writers -> Answers]
  <2>1. CASE ~LastTry(w) /\ flush' = [flush EXCEPT ![w] = Resent(@, ThePush(w))]
             /\ UNCHANGED <<store, answer, acked, disowned>>
    <3> DEFINE f == Resent(flush[w], ThePush(w))
    <3>1. flush[w].tries + 1 \in 0 .. MaxTries - 1
      <4>1. MaxTries \in Nat \ {0}
        BY ConstantsAssumption
      <4>2. flush[w].tries \in 0 .. MaxTries - 1
        BY <1>2 DEF Flushes
      <4> QED BY <2>1, <4>1, <4>2 DEF LastTry
    <3>2. f \in Flushes /\ f.phase = flush[w].phase
      BY <1>1, <1>2, <3>1 DEF Resent, Flushes
    <3>3. FlushOK' /\ \A v \in Writers : flush'[v].phase = flush[v].phase
      BY <1>2, <2>1, <3>2 DEF FlushOK
    <3> QED BY <1>2, <2>1, <3>3, IInvParts DEF Pushing, StoresInv, RestOK
  <2>2. CASE Fail(w)
    BY <1>2, <2>2, FailInv
  <2> QED BY <2>1, <2>2 DEF PushLost
<1>5. acked' = acked /\ disowned' = disowned
  BY DEF PushLost, Fail
<1>6. RestOK'
  BY <1>2, <1>3, <1>4, <1>5, IInvParts DEF PushLost, RestOK
<1> QED BY <1>3, <1>4, <1>6, IInvPartsNext

LEMMA ExchangeFailsInv ==
    ASSUME IInv, NEW w \in Writers, ExchangeFails(w)
    PROVE  IInv'
<1>1. Fail(w) /\ origin' = origin /\ inflight' = inflight
  BY DEF ExchangeFails, remote
<1>2. /\ StoresInv' /\ store' \in [Writers -> Stores] /\ FlushOK' /\ Pushing'
      /\ answer' \in [Writers -> Answers]
  BY <1>1, FailInv
<1>3. RestOK' /\ InflightInv'
  BY <1>1, <1>2, IInvParts DEF ExchangeFails, Fail, RestOK, InflightInv
<1> QED BY <1>2, <1>3, IInvPartsNext

LEMMA LateArrivalInv ==
    ASSUME IInv, NEW push \in inflight, LateArrival(push)
    PROVE  IInv'
<1>1. push \in Pushes
  BY IInvParts DEF RestOK
<1>2. /\ origin' \in Branches /\ origin'.ver = origin.ver + 1
      /\ inflight' = {} /\ landed' \subseteq RecordIds /\ ended' \subseteq Nat
  BY <1>1, ArriveInv DEF LateArrival
<1>3. StoresInv' /\ store' \in [Writers -> Stores]
  BY <1>2, BehindInv, IInvParts DEF LateArrival, StoresInv, RestOK
<1>4. RestOK' /\ InflightInv' /\ FlushOK' /\ Pushing'
  BY <1>2, IInvParts DEF LateArrival, RestOK, InflightInv, FlushOK, Pushing
<1> QED BY <1>3, <1>4, IInvPartsNext

LEMMA OwnLandedInv ==
    ASSUME IInv, NEW w \in Writers, OwnLanded(w)
    PROVE  IInv'
<1>1. origin' = origin /\ inflight' = inflight /\ Land(w, Fetched(store[w]))
  BY DEF OwnLanded, remote
<1>2. StoreInv(Landed(Fetched(store[w])), origin)
  BY LandedFetchedInv, IInvParts DEF RestOK
<1>3. /\ StoresInv' /\ store' \in [Writers -> Stores] /\ FlushOK' /\ Pushing'
      /\ acked' \subseteq RecordIds /\ answer' \in [Writers -> Answers]
  BY <1>1, <1>2, LandInv DEF BranchStep
<1>4. RestOK' /\ InflightInv'
  BY <1>1, <1>3, IInvParts DEF OwnLanded, RestOK, InflightInv
<1> QED BY <1>3, <1>4, IInvPartsNext

LEMMA HeldLostInv ==
    ASSUME IInv, NEW w \in Writers, HeldLost(w)
    PROVE  IInv'
<1>1. origin' = origin /\ inflight' = inflight
  BY DEF HeldLost, remote
<1>2. StoreInv(DropHeld(store[w]), origin) /\ store[w].held \in Seq(HeldWrites)
  BY DropHeldInv, IInvParts DEF StoresInv, Stores
<1>3. StoresInv' /\ store' \in [Writers -> Stores] /\ FlushOK' /\ Pushing'
  BY <1>1, <1>2, EndFlushInv DEF HeldLost, BranchStep
<1>4. answer' \in [Writers -> Answers] /\ disowned' \subseteq RecordIds
  BY <1>2, AnswerType, IdsType, IInvParts DEF HeldLost, Answers, RestOK
<1>5. RestOK' /\ InflightInv'
  BY <1>1, <1>4, IInvParts DEF HeldLost, RestOK, InflightInv
<1> QED BY <1>3, <1>5, IInvPartsNext
LEMMA RebuiltInv ==
    ASSUME IInv, NEW w \in Writers, Rebuilt(w)
    PROVE  IInv'
<1> DEFINE held == store[w].held
           lost == Subject(w) /\ GuardLost(Last(held), origin.view)
           kept == IF lost THEN Others(w) ELSE held
           why  == IF lost THEN Conflict(Last(held)) ELSE flush[w].lost
<1>1. /\ StoreInv(store[w], origin) /\ store[w] \in Stores /\ held \in Seq(HeldWrites)
      /\ held # <<>> /\ store[w].fetched /\ origin \in Branches
      /\ origin' = origin /\ inflight' = inflight /\ flush \in [Writers -> Flushes]
      /\ flush[w].phase = "refused"
  <2>1. StoreInv(store[w], origin) /\ store[w] \in Stores /\ origin \in Branches
        /\ flush \in [Writers -> Flushes]
    BY IInvParts DEF StoresInv, RestOK, FlushOK
  <2>2. held # <<>> /\ flush[w].phase = "refused"
    BY IInvParts DEF Rebuilt, InPhase, Pushing
  <2> QED BY <2>1, <2>2 DEF Rebuilt, remote, StoreInv, Stores
<1>2. /\ DOMAIN held = 1 .. Len(held) /\ Len(held) \in Nat \ {0}
      /\ \A i \in 1 .. Len(held) : held[i] \in HeldWrites
  BY <1>1, LenProperties, ElementOfSeq, EmptySeq
<1>3. /\ Front(held) \in Seq(HeldWrites)
      /\ DOMAIN Front(held) = 1 .. Len(held) - 1
      /\ \A i \in 1 .. Len(held) - 1 : Front(held)[i] = held[i]
  <2>1. \A i \in 1 .. Len(held) - 1 : held[i] \in HeldWrites
    BY <1>2
  <2>2. /\ SubSeq(held, 1, Len(held) - 1) \in Seq(HeldWrites)
        /\ Len(SubSeq(held, 1, Len(held) - 1)) = Len(held) - 1
        /\ \A i \in 1 .. Len(held) - 1 : SubSeq(held, 1, Len(held) - 1)[i] = held[1 + i - 1]
    <3>1. 1 \in Int /\ Len(held) - 1 \in Int /\ Len(held) \in Nat \ {0}
      BY <1>2
    <3> QED BY <2>1, <3>1, SubSeqProperties, Z3
  <2>3. \A i \in 1 .. Len(held) - 1 : held[1 + i - 1] = held[i]
    BY <1>2
  <2> QED BY <2>2, <2>3, LenProperties DEF Front
<1>4. SafeChain(held, store[w].baseView)
  BY <1>1 DEF StoreInv
<1>5. kept \in Seq(HeldWrites) /\ SafeChain(kept, origin.view)
  <2>0. \A i \in DOMAIN Others(w) : ~GuardLost(Others(w)[i], origin.view)
    BY DEF Rebuilt
  <2>1. CASE lost
    <3>1. Others(w) = Front(held)
      BY <2>1 DEF Others
    <3>2. SafeChain(Front(held), store[w].baseView)
      BY <1>2, <1>3, <1>4 DEF SafeChain
    <3> QED BY <1>3, <2>0, <2>1, <3>1, <3>2, GuardedIsSafe
  <2>2. CASE ~lost /\ Subject(w)
    <3>1. Others(w) = Front(held) /\ ~GuardLost(held[Len(held)], origin.view)
      BY <2>2 DEF Others, Last
    <3>2. ASSUME NEW i \in DOMAIN held PROVE ~GuardLost(held[i], origin.view)
      <4>1. CASE i = Len(held)
        BY <3>1, <4>1
      <4>2. CASE i # Len(held)
        <5>1. i \in DOMAIN Front(held) /\ Front(held)[i] = held[i]
          BY <1>2, <1>3, <4>2
        <5> QED BY <2>0, <3>1, <5>1
      <4> QED BY <4>1, <4>2
    <3> QED BY <1>1, <1>4, <2>2, <3>2, GuardedIsSafe
  <2>3. CASE ~lost /\ ~Subject(w)
    BY <1>1, <1>4, <2>0, <2>3, GuardedIsSafe DEF Others
  <2> QED BY <2>1, <2>2, <2>3
<1>6. /\ why \in {"", "conflict_exists", "conflict_stale_sha"}
      /\ kept = <<>> => why \in Answers
  <2>1. flush[w].lost \in {"", "conflict_exists", "conflict_stale_sha"}
    BY <1>1 DEF Flushes
  <2>2. kept = <<>> => lost
    BY <1>1
  <2> QED BY <2>1, <2>2 DEF Conflict, Answers
<1>7. disowned' \subseteq RecordIds
  <2>1. Id(Last(held)) \in RecordIds
    BY <1>2 DEF Id, Last, RecordIds, HeldWrites
  <2> QED BY <2>1, IInvParts DEF Rebuilt, RestOK
<1> HIDE DEF kept, why
<1>8. kept # <<>> => /\ StoreInv(Rebuild(store[w], kept), origin)
                     /\ Rebuild(store[w], kept).held # <<>>
  BY <1>1, <1>5, RebuildInv
<1>9. /\ StoresInv' /\ store' \in [Writers -> Stores] /\ FlushOK' /\ Pushing'
      /\ answer' \in [Writers -> Answers]
  <2>1. CASE kept = <<>> /\ EndFlush(w, DropHeld(store[w])) /\ Answer(w, why)
    <3>1. StoreInv(DropHeld(store[w]), origin)
      BY <1>1, DropHeldInv
    <3>2. answer' \in [Writers -> Answers]
      BY <1>6, <2>1, AnswerType
    <3> QED BY <1>1, <2>1, <3>1, <3>2, EndFlushInv DEF BranchStep
  <2>2. CASE kept # <<>> /\ EndFlush(w, DropHeld(Rebuild(store[w], kept))) /\ Answer(w, "error")
    <3>1. StoreInv(DropHeld(Rebuild(store[w], kept)), origin)
      BY <1>8, <2>2, DropHeldInv
    <3>2. answer' \in [Writers -> Answers]
      BY <2>2, AnswerType DEF Answers
    <3> QED BY <1>1, <2>2, <3>1, <3>2, EndFlushInv DEF BranchStep
  <2>3. CASE /\ kept # <<>> /\ ~Spent(w) /\ StoreIs(w, Rebuild(store[w], kept))
             /\ flush' = [flush EXCEPT ![w] = Again(@, why)]
             /\ UNCHANGED answer
    <3>1. StoresInv' /\ store' \in [Writers -> Stores]
      BY <1>1, <1>8, <2>3, StoreStep DEF BranchStep
    <3>2. flush[w].try + 1 \in 0 .. MaxPushes - 1 /\ 0 \in 0 .. MaxTries - 1
      <4>1. MaxPushes \in Nat \ {0} /\ MaxTries \in Nat \ {0}
        BY ConstantsAssumption
      <4>2. flush[w].try \in 0 .. MaxPushes - 1
        BY <1>1 DEF Flushes
      <4> QED BY <2>3, <4>1, <4>2 DEF Spent
    <3>3. FlushOK'
      <4>1. Again(flush[w], why) \in Flushes
        BY <1>1, <1>6, <3>2 DEF Again, Flushes
      <4> QED BY <1>1, <2>3, <4>1 DEF FlushOK
    <3>4. Pushing'
      <4>1. store'[w].held # <<>>
        BY <1>8, <2>3, IInvParts DEF StoreIs
      <4>2. \A v \in Writers \ {w} : store'[v] = store[v] /\ flush'[v] = flush[v]
        BY <1>1, <2>3, IInvParts DEF StoreIs
      <4> QED BY <4>1, <4>2, IInvParts DEF Pushing
    <3> QED BY <2>3, <3>1, <3>3, <3>4, IInvParts DEF RestOK
  <2> QED BY <2>1, <2>2, <2>3 DEF Rebuilt, kept, why
<1>10. RestOK' /\ InflightInv'
  BY <1>1, <1>7, <1>9, IInvParts DEF Rebuilt, RestOK, InflightInv
<1> QED BY <1>9, <1>10, IInvPartsNext

\* A push of the tag that may still be on its way names a version.
LEMMA TagUnderWayType ==
    ASSUME IInv, NEW w \in Writers
    PROVE  TagUnderWay(w) \in [at: Nat, late: SUBSET Nat]
BY IInvParts DEF TagUnderWay, RestOK, Stores

\* A step of the tag that ends the flush.
LEMMA TagEndsInv ==
    ASSUME IInv, NEW w \in Writers, UNCHANGED <<remote, ops, histories>>,
           EndFlush(w, store[w]), tag' \in [at: Nat, late: SUBSET Nat],
           localTag' = localTag, answer' = answer \/ Answer(w, "tag_error")
    PROVE  IInv'
<1>1. origin' = origin /\ inflight' = inflight
  BY DEF remote
<1>2. StoreInv(store[w], origin)
  BY IInvParts DEF StoresInv
<1>3. StoresInv' /\ store' \in [Writers -> Stores] /\ FlushOK' /\ Pushing'
  BY <1>1, <1>2, EndFlushInv DEF BranchStep
<1>4. answer' \in [Writers -> Answers]
  BY AnswerType, IInvParts DEF Answers, RestOK
<1>5. RestOK' /\ InflightInv'
  BY <1>1, <1>4, IInvParts DEF RestOK, InflightInv, histories
<1> QED BY <1>3, <1>5, IInvPartsNext

\* A step of the tag after which the flush waits for its next exchange.
LEMMA TagWaitsInv ==
    ASSUME IInv, NEW w \in Writers, UNCHANGED <<remote, store, answer, ops, histories>>,
           NEW x \in {"push", "check"}, InPhase(w, "tag"),
           flush' = flush \/ flush' = [flush EXCEPT ![w].tagging = x],
           tag' \in [at: Nat, late: SUBSET Nat], localTag' \in [Writers -> Nat]
    PROVE  IInv'
<1>1. origin' = origin /\ inflight' = inflight
  BY DEF remote
<1>2. FlushOK' /\ \A v \in Writers : flush'[v].phase = flush[v].phase
  <2>1. flush \in [Writers -> Flushes] /\ flush[w] \in Flushes
    BY IInvParts DEF FlushOK
  <2>2. CASE flush' = [flush EXCEPT ![w].tagging = x]
    <3>1. PICK f : f = [flush[w] EXCEPT !.tagging = x]
      OBVIOUS
    <3>2. f \in Flushes /\ f.phase = flush[w].phase
      BY <2>1, <3>1 DEF Flushes
    <3>3. flush' = [flush EXCEPT ![w] = f]
      BY <2>2, <3>1
    <3> QED BY <2>1, <3>2, <3>3 DEF FlushOK
  <2> QED BY <2>1, <2>2 DEF FlushOK
<1>3. StoresInv' /\ Pushing' /\ InflightInv' /\ store' \in [Writers -> Stores]
  BY <1>1, <1>2, IInvParts DEF StoresInv, Pushing, InflightInv
<1>4. RestOK'
  BY <1>1, IInvParts DEF RestOK, histories
<1> QED BY <1>2, <1>3, <1>4, IInvPartsNext

LEMMA TagInv ==
    ASSUME IInv, NEW w \in Writers, EnsureRunTag(w)
    PROVE  IInv'
<1>1. /\ store[w].head \in Nat /\ tag \in [at: Nat, late: SUBSET Nat]
      /\ localTag \in [Writers -> Nat]
  BY IInvParts DEF Stores, RestOK
<1>2. CASE TagRead(w)
  <2>1. CASE EndFlush(w, store[w]) /\ localTag' = localTag
    BY <1>1, <1>2, <2>1, TagEndsInv DEF TagRead
  <2>2. CASE /\ localTag' = [localTag EXCEPT ![w] = store[w].head]
             /\ flush' = [flush EXCEPT ![w].tagging = "push"]
             /\ UNCHANGED <<store, answer>>
    BY <1>1, <1>2, <2>2, TagWaitsInv DEF TagRead, Tagging
  <2> QED BY <1>2, <2>1, <2>2 DEF TagRead
<1>3. CASE TagPushed(w)
  BY <1>1, <1>3, TagEndsInv DEF TagPushed, TagAt
<1>4. CASE TagPushFails(w)
  <2>1. tag' \in [at: Nat, late: SUBSET Nat]
    BY <1>1, <1>4, TagUnderWayType DEF TagPushFails
  <2> QED BY <1>1, <1>4, <2>1, TagWaitsInv DEF TagPushFails, Tagging
<1>5. CASE TagChecked(w)
  BY <1>1, <1>5, TagEndsInv DEF TagChecked
<1> QED BY <1>2, <1>3, <1>4, <1>5 DEF EnsureRunTag

LEMMA LateTagInv ==
    ASSUME IInv, NEW version \in tag.late, LateTag(version)
    PROVE  IInv'
<1>1. version \in Nat /\ tag' = [at |-> version, late |-> {}]
  BY IInvParts DEF LateTag, TagAt, RestOK
<1>2. RestOK' /\ InflightInv' /\ StoresInv' /\ Pushing' /\ FlushOK'
  BY <1>1, IInvParts DEF LateTag, RestOK, InflightInv, StoresInv, Pushing, FlushOK, remote,
                         histories
<1> QED BY <1>2, IInvParts, IInvPartsNext DEF LateTag

LEMMA OpenedInv ==
    ASSUME NEW o \in Branches
    PROVE  StoreInv(Opened, o)
<1>1. /\ Opened \in Stores /\ Opened.head = 0 /\ Opened.view = EmptyView
      /\ Opened.fetched = FALSE /\ Opened.held = <<>>
  BY EmptyViewIsView, NoChain DEF Opened, Stores
<1> QED BY <1>1 DEF StoreInv, Branches

LEMMA CrashInv ==
    ASSUME IInv, NEW w \in Writers, Crash(w)
    PROVE  IInv'
<1>1. origin' = origin /\ flush' = [flush EXCEPT ![w] = NotFlushing] /\ StoreIs(w, Opened)
  BY DEF Crash
<1>2. StoresInv' /\ store' \in [Writers -> Stores]
  BY <1>1, OpenedInv, StoreStep, IInvParts DEF BranchStep, RestOK
<1>3. FlushOK'
  BY <1>1, NotFlushingType, IInvParts DEF FlushOK
<1>4. Pushing'
  <2>1. \A v \in Writers \ {w} : store'[v] = store[v] /\ flush'[v] = flush[v]
    BY <1>1, IInvParts DEF StoreIs, FlushOK
  <2>2. flush'[w].phase = "idle"
    BY <1>1, IInvParts DEF FlushOK, NotFlushing
  <2> QED BY <2>1, <2>2, IInvParts DEF Pushing
<1>5. inflight' \subseteq Pushes /\ InflightInv'
  <2>1. CASE inflight' = inflight
    BY <1>1, <2>1, IInvParts DEF RestOK, InflightInv
  <2>2. CASE store[w].head = origin.ver /\ inflight' = inflight \cup {ThePush(w)}
    <3>1. ThePush(w) \in Pushes /\ SafeChain(ThePush(w).recs, origin.view)
      BY <2>2, PushType, HeadIsSafe
    <3> QED BY <1>1, <2>2, <3>1, IInvParts DEF RestOK, InflightInv
  <2> QED BY <2>1, <2>2 DEF Crash
<1>6. answer' \in [Writers -> Answers]
  BY AnswerType DEF Crash, Answers
<1>7. tag' \in [at: Nat, late: SUBSET Nat]
  BY TagUnderWayType, IInvParts DEF Crash, RestOK
<1>8. RestOK'
  BY <1>1, <1>5, <1>6, <1>7, IInvParts DEF Crash, RestOK, histories
<1> QED BY <1>2, <1>3, <1>4, <1>5, <1>8, IInvPartsNext

-----------------------------------------------------------------------------
(* The theorems *)

LEMMA InitInv == Init => IInv
<1> SUFFICES ASSUME Init PROVE IInv
  OBVIOUS
<1>1. NoPush \in Pushes
  <2>1. \E v : v \in Writers
    BY ConstantsAssumption
  <2>2. (CHOOSE v \in Writers : TRUE) \in Writers
    BY <2>1
  <2> QED BY <2>2, NoChain DEF NoPush, Pushes
<1>2. origin \in Branches
  BY <1>1, EmptyViewIsView DEF Init, Branches
<1>3. RestOK /\ InflightInv
  BY <1>2 DEF Init, RestOK, InflightInv, Answers
<1>4. FlushOK /\ Pushing
  BY NotFlushingType DEF Init, FlushOK, Pushing, NotFlushing
<1>5. StoresInv /\ store \in [Writers -> Stores]
  <2>1. StoreInv(Opened, origin)
    BY <1>2, OpenedInv
  <2> QED BY <2>1 DEF Init, StoresInv, StoreInv
<1> QED BY <1>3, <1>4, <1>5, IInvParts

LEMMA NextInv == IInv /\ [Next]_vars => IInv'
<1> SUFFICES ASSUME IInv, [Next]_vars PROVE IInv'
  OBVIOUS
<1>1. CASE UNCHANGED vars
  BY <1>1 DEF vars, remote, histories, IInv, TypeOK, StoresInv, InflightInv, Pushing
<1>2. ASSUME NEW w \in Writers, Calls(w) PROVE IInv'
  BY <1>2, FetchInv, CreateInv, UpdateInv, PutCheckpointInv, StageInv, HoldInv, ReleaseInv
     DEF Calls
<1>3. ASSUME NEW w \in Writers, FlushStep(w) PROVE IInv'
  BY <1>3, PushAckedInv, PushRefusedInv, PushLostInv, ExchangeFailsInv, OwnLandedInv,
     HeldLostInv, RebuiltInv, TagInv DEF FlushStep
<1>4. ASSUME NEW w \in Writers, Crash(w) PROVE IInv'
  BY <1>4, CrashInv
<1>5. ASSUME NEW push \in inflight, LateArrival(push) PROVE IInv'
  BY <1>5, LateArrivalInv
<1>6. ASSUME NEW version \in tag.late, LateTag(version) PROVE IInv'
  BY <1>6, LateTagInv
<1> QED BY <1>1, <1>2, <1>3, <1>4, <1>5, <1>6 DEF Next

THEOREM Invariance == Spec => []IInv
BY InitInv, NextInv, PTL DEF Spec

\* The state keeps its shape: no flush sends or rebuilds more often than the
\* code's bounds allow (held.go, maxContendedPushes; remote.go, Attempts).
THEOREM TypeCorrect == Spec => []TypeOK
<1>1. IInv => TypeOK
  BY DEF IInv
<1> QED BY <1>1, Invariance, PTL

\* A writer whose head is origin's has origin's view under its chain, so the
\* guards it compares are compared against origin (store.go, Store.view).
THEOREM ViewsAreOrigins == Spec => []ViewIsOrigins
<1>1. IInv => ViewIsOrigins
  BY DEF IInv, StoresInv, StoreInv, ViewIsOrigins
<1> QED BY <1>1, Invariance, PTL

\* Landing a safe push changes no marker the branch has.
LEMMA ArriveKeepsMarkers ==
    ASSUME IInv, NEW push \in Pushes, SafeChain(push.recs, origin.view), Arrive(push),
           NEW p \in Markers, origin.view[p] # Absent
    PROVE  origin'.view[p] = origin.view[p]
<1>1. \A i \in DOMAIN push.recs : push.recs[i].path # p
  BY DEF SafeChain
<1>2. origin'.view = Over(origin.view, push.recs)
  BY ArriveInv
<1> QED BY <1>1, <1>2, OverUnwritten DEF Records

\* A dispatch marker, a decision or an evidence record that is on origin is
\* never written again (store.go, CreateIfAbsent; held.go, flush).
THEOREM MarkersAreImmutable == Spec => MarkersNeverChange
<1>1. ASSUME IInv, Next, NEW p \in Markers, origin.view[p] # Absent
      PROVE  origin'.view[p] = origin.view[p]
  <2>1. ASSUME NEW w \in Writers, Calls(w) PROVE origin' = origin
    BY <2>1 DEF Calls, Fetch, Create, Update, PutCheckpoint, StageChanges, Hold, Release,
                Abandon, Refuse, Wait, Send, remote
  <2>2. ASSUME NEW w \in Writers, FlushStep(w), ~PushAcked(w) PROVE origin' = origin
    BY <2>2 DEF FlushStep, PushRefused, PushLost, ExchangeFails, OwnLanded, HeldLost,
                Rebuilt, EnsureRunTag, TagRead, TagPushed, TagPushFails, TagChecked, remote
  <2>3. ASSUME NEW w \in Writers, PushAcked(w) PROVE origin'.view[p] = origin.view[p]
    <3>1. ThePush(w) \in Pushes /\ SafeChain(ThePush(w).recs, origin.view)
      BY <1>1, <2>3, PushType, HeadIsSafe DEF PushAcked
    <3> QED BY <1>1, <2>3, <3>1, ArriveKeepsMarkers DEF PushAcked
  <2>4. ASSUME NEW w \in Writers, Crash(w) PROVE origin' = origin
    BY <2>4 DEF Crash
  <2>5. ASSUME NEW push \in inflight, LateArrival(push)
        PROVE  origin'.view[p] = origin.view[p]
    <3>1. push \in Pushes /\ SafeChain(push.recs, origin.view)
      BY <1>1, IInvParts DEF RestOK, InflightInv
    <3> QED BY <1>1, <2>5, <3>1, ArriveKeepsMarkers DEF LateArrival
  <2>6. ASSUME NEW version \in tag.late, LateTag(version) PROVE origin' = origin
    BY <2>6 DEF LateTag, remote
  <2> QED BY <1>1, <2>1, <2>2, <2>3, <2>4, <2>5, <2>6 DEF Next
<1>2. IInv /\ [Next]_vars =>
        [\A p \in Markers : origin.view[p] # Absent => origin'.view[p] = origin.view[p]]_vars
  BY <1>1
<1> QED BY <1>2, Invariance, PTL DEF Spec, MarkersNeverChange

=============================================================================
