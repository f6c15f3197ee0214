------------------------ MODULE RunStoreChainProofs ------------------------
(***************************************************************************)
(* What is in a chain of the run-state store, for every number of writers, *)
(* every set of records and every bound: each record fits on the view its  *)
(* chain is based on and on the records chained before it, whoever crashed, *)
(* rebuilt or came late.  From that: no update of the branch is lost.      *)
(***************************************************************************)
EXTENDS RunStoreProofs, FiniteSetTheorems

Advancing == Registers \cup {Checkpoint}

\* How many records a path has seen when this one is there: a sheet's first
\* version is number 0, the checkpoint's is number 1.
Rank(p, b) == IF b = Absent THEN 0 ELSE IF p \in Registers THEN b.seq + 1 ELSE b.seq

WrittenAt(chain, p, n) == {j \in 1 .. n : chain[j].path = p}
Written(chain, p, n) == Cardinality(WrittenAt(chain, p, n))

\* The i-th record of a chain against the view the chain is based on.
Placed(r) ==
    /\ r.kind = "stage" <=> r.path \in Trackers
    /\ r.path \in Markers => r.kind = "create" /\ r.blob = GrantOf(Id(r))
Guarded(r, view) ==
    /\ r.kind = "create" => view[r.path] = Absent
    /\ r.kind = "update" => r.guard = view[r.path] /\ r.guard # Absent
Alone(chain, i) ==
    chain[i].kind = "create" =>
        \A j \in DOMAIN chain : chain[j].path = chain[i].path => j = i
Counted(chain, i, view) ==
    chain[i].path \in Advancing =>
        Rank(chain[i].path, chain[i].blob)
            = Rank(chain[i].path, view[chain[i].path]) + Written(chain, chain[i].path, i)

Sound(chain, view) ==
    \A i \in DOMAIN chain :
        /\ Placed(chain[i]) /\ Guarded(chain[i], view)
        /\ Alone(chain, i) /\ Counted(chain, i, view)

-----------------------------------------------------------------------------
(* The operators on chains *)

LEMMA ChainDomain ==
    ASSUME NEW chain \in Seq(HeldWrites)
    PROVE  /\ DOMAIN chain = 1 .. Len(chain) /\ Len(chain) \in Nat
           /\ \A i \in 1 .. Len(chain) : chain[i] \in HeldWrites
           /\ chain = <<>> <=> Len(chain) = 0
BY LenProperties, ElementOfSeq, EmptySeq

LEMMA WrittenType ==
    ASSUME NEW chain, NEW p, NEW n \in Nat
    PROVE  IsFiniteSet(WrittenAt(chain, p, n)) /\ Written(chain, p, n) \in Nat
<1>1. IsFiniteSet(1 .. n)
  BY FS_Interval
<1>2. WrittenAt(chain, p, n) \in SUBSET (1 .. n)
  BY DEF WrittenAt
<1>3. IsFiniteSet(WrittenAt(chain, p, n))
  BY <1>1, <1>2, FS_Subset
<1> QED BY <1>3, FS_CardinalityType DEF Written

\* Counting up to one more record.
LEMMA WrittenNext ==
    ASSUME NEW chain, NEW p, NEW n \in Nat
    PROVE  Written(chain, p, n + 1)
             = IF chain[n + 1].path = p THEN Written(chain, p, n) + 1 ELSE Written(chain, p, n)
<1>1. CASE chain[n + 1].path = p
  <2>1. WrittenAt(chain, p, n + 1) = WrittenAt(chain, p, n) \cup {n + 1}
    BY <1>1 DEF WrittenAt
  <2>2. n + 1 \notin WrittenAt(chain, p, n)
    BY DEF WrittenAt
  <2> QED BY <1>1, <2>1, <2>2, WrittenType, FS_AddElement DEF Written
<1>2. CASE chain[n + 1].path # p
  <2>1. WrittenAt(chain, p, n + 1) = WrittenAt(chain, p, n)
    BY <1>2 DEF WrittenAt
  <2> QED BY <1>2, <2>1 DEF Written
<1> QED BY <1>1, <1>2

\* Chains that begin alike count alike.
LEMMA WrittenSame ==
    ASSUME NEW chain, NEW other, NEW p, NEW n \in Nat,
           \A j \in 1 .. n : chain[j] = other[j]
    PROVE  Written(chain, p, n) = Written(other, p, n)
<1>1. WrittenAt(chain, p, n) = WrittenAt(other, p, n)
  BY DEF WrittenAt
<1> QED BY <1>1 DEF Written

\* After the last record of a path, nothing more is counted.
LEMMA WrittenLast ==
    ASSUME NEW chain, NEW p, NEW n \in Nat, NEW i \in 1 .. n,
           \A j \in 1 .. n : chain[j].path = p => j <= i
    PROVE  Written(chain, p, n) = Written(chain, p, i)
<1>1. WrittenAt(chain, p, n) = WrittenAt(chain, p, i)
  BY DEF WrittenAt
<1> QED BY <1>1 DEF Written

LEMMA WrittenNone ==
    ASSUME NEW chain, NEW p, NEW n \in Nat, \A j \in 1 .. n : chain[j].path # p
    PROVE  Written(chain, p, n) = 0
<1>1. WrittenAt(chain, p, n) = {}
  BY DEF WrittenAt
<1> QED BY <1>1, FS_EmptySet DEF Written

LEMMA RankType ==
    ASSUME NEW p, NEW b \in Blobs \cup {Absent}
    PROVE  Rank(p, b) \in Nat
BY DEF Rank, Blobs

LEMMA AdvancingPaths ==
    /\ Advancing \subseteq Records
    /\ \A p \in Advancing : p \notin Markers /\ p \notin Trackers
BY ConstantsAssumption DEF Advancing, Records

\* A sound chain moves each advancing path on by exactly the records it writes.
LEMMA RankOver ==
    ASSUME NEW view \in Views, NEW chain \in Seq(HeldWrites), Sound(chain, view),
           NEW p \in Advancing
    PROVE  Rank(p, Over(view, chain)[p]) = Rank(p, view[p]) + Written(chain, p, Len(chain))
<1>1. /\ p \in Records
      /\ DOMAIN chain = 1 .. Len(chain) /\ Len(chain) \in Nat
  BY AdvancingPaths, ChainDomain
<1>2. CASE \A i \in DOMAIN chain : chain[i].path # p
  <2>1. Written(chain, p, Len(chain)) = 0
    BY <1>1, <1>2, WrittenNone
  <2>2. Over(view, chain)[p] = view[p]
    BY <1>1, <1>2, OverUnwritten
  <2>3. Rank(p, view[p]) \in Nat
    BY <1>1, RankType DEF Views
  <2> QED BY <2>1, <2>2, <2>3
<1>3. CASE \E i \in DOMAIN chain : chain[i].path = p
  <2>1. PICK i \in DOMAIN chain : /\ chain[i].path = p
                                  /\ \A j \in DOMAIN chain : chain[j].path = p => j <= i
    BY <1>3, LastOfPath
  <2>2. Over(view, chain)[p] = chain[i].blob
    BY <1>1, <2>1, OverWritten
  <2>3. Written(chain, p, Len(chain)) = Written(chain, p, i)
    BY <1>1, <2>1, WrittenLast
  <2>4. Counted(chain, i, view)
    BY DEF Sound
  <2> QED BY <2>1, <2>2, <2>3, <2>4 DEF Counted
<1> QED BY <1>2, <1>3

\* A chain without its last record is as sound.
LEMMA SoundFront ==
    ASSUME NEW view, NEW chain \in Seq(HeldWrites), NEW short \in Seq(HeldWrites),
           Len(short) <= Len(chain), \A i \in 1 .. Len(short) : short[i] = chain[i],
           Sound(chain, view)
    PROVE  Sound(short, view)
<1>1. /\ DOMAIN chain = 1 .. Len(chain) /\ Len(chain) \in Nat
      /\ DOMAIN short = 1 .. Len(short) /\ Len(short) \in Nat
  BY ChainDomain
<1> SUFFICES ASSUME NEW i \in DOMAIN short
             PROVE  /\ Placed(short[i]) /\ Guarded(short[i], view)
                    /\ Alone(short, i) /\ Counted(short, i, view)
  BY DEF Sound
<1>2. /\ i \in DOMAIN chain /\ short[i] = chain[i]
      /\ Placed(chain[i]) /\ Guarded(chain[i], view)
      /\ Alone(chain, i) /\ Counted(chain, i, view)
  BY <1>1 DEF Sound
<1>3. Alone(short, i)
  BY <1>1, <1>2 DEF Alone
<1>4. Written(short, short[i].path, i) = Written(chain, short[i].path, i)
  BY <1>1, WrittenSame
<1>5. Counted(short, i, view)
  BY <1>2, <1>4 DEF Counted
<1> QED BY <1>2, <1>3, <1>5

\* A record that fits on what the chain shows may be chained.
LEMMA SoundAppend ==
    ASSUME NEW view \in Views, NEW chain \in Seq(HeldWrites), NEW r \in HeldWrites,
           Sound(chain, view), Placed(r), Guarded(r, view),
           \A i \in DOMAIN chain : chain[i].kind # "create",
           r.kind = "create" => Over(view, chain)[r.path] = Absent,
           r.path \in Advancing => Rank(r.path, r.blob) = Rank(r.path, Over(view, chain)[r.path]) + 1
    PROVE  Sound(Append(chain, r), view)
<1> DEFINE longer == Append(chain, r)
           n == Len(chain)
<1>1. /\ DOMAIN chain = 1 .. n /\ n \in Nat
      /\ longer \in Seq(HeldWrites) /\ DOMAIN longer = 1 .. n + 1
      /\ \A i \in 1 .. n : longer[i] = chain[i]
      /\ longer[n + 1] = r
      /\ \A i \in 1 .. n : chain[i] \in HeldWrites
  BY ChainDomain, AppendProperties, LenProperties
<1> HIDE DEF longer, n
<1>2. r.kind = "create" => \A i \in 1 .. n : longer[i].path # r.path
  <2> SUFFICES ASSUME r.kind = "create", NEW k \in 1 .. n, chain[k].path = r.path PROVE FALSE
    BY <1>1
  <2>1. r.path \in Records
    BY DEF Placed, HeldWrites
  <2>2. PICK i \in DOMAIN chain : /\ chain[i].path = r.path
                                  /\ \A j \in DOMAIN chain : chain[j].path = r.path => j <= i
    BY <1>1, LastOfPath
  <2>3. Over(view, chain)[r.path] = chain[i].blob
    BY <2>1, <2>2, OverWritten
  <2>4. chain[i].blob \in Blobs /\ Absent \notin Blobs
    BY <1>1, ConstantsAssumption DEF HeldWrites
  <2> QED BY <2>3, <2>4
<1> SUFFICES ASSUME NEW i \in 1 .. n + 1
             PROVE  /\ Placed(longer[i]) /\ Guarded(longer[i], view)
                    /\ Alone(longer, i) /\ Counted(longer, i, view)
  BY <1>1 DEF Sound, longer
<1>3. CASE i \in 1 .. n
  <2>1. /\ longer[i] = chain[i] /\ chain[i].kind # "create"
        /\ Placed(chain[i]) /\ Guarded(chain[i], view) /\ Counted(chain, i, view)
    BY <1>1, <1>3 DEF Sound
  <2>2. Written(longer, longer[i].path, i) = Written(chain, longer[i].path, i)
    BY <1>1, <1>3, WrittenSame
  <2> QED BY <2>1, <2>2 DEF Alone, Counted
<1>4. CASE i = n + 1
  <2>1. Alone(longer, i)
    BY <1>1, <1>2, <1>4 DEF Alone
  <2>2. ASSUME r.path \in Advancing
        PROVE  Rank(r.path, r.blob) = Rank(r.path, view[r.path]) + Written(longer, r.path, n + 1)
    <3>1. Written(longer, r.path, n + 1) = Written(longer, r.path, n) + 1
      BY <1>1, WrittenNext
    <3>2. Written(longer, r.path, n) = Written(chain, r.path, n)
      BY <1>1, WrittenSame
    <3>3. Rank(r.path, Over(view, chain)[r.path])
            = Rank(r.path, view[r.path]) + Written(chain, r.path, n)
      BY <2>2, RankOver DEF n
    <3>4. Written(chain, r.path, n) \in Nat /\ Rank(r.path, view[r.path]) \in Nat
      BY <1>1, <2>2, WrittenType, RankType, AdvancingPaths DEF Views
    <3> QED BY <2>2, <3>1, <3>2, <3>3, <3>4
  <2> QED BY <1>1, <1>4, <2>1, <2>2 DEF Counted
<1> QED BY <1>1, <1>3, <1>4

\* A chain whose guards all hold against another view is as sound on that one.
LEMMA SoundRebase ==
    ASSUME NEW view, NEW other, NEW chain \in Seq(HeldWrites), Sound(chain, view),
           \A i \in DOMAIN chain : ~GuardLost(chain[i], other)
    PROVE  Sound(chain, other)
<1> SUFFICES ASSUME NEW i \in DOMAIN chain
             PROVE  Guarded(chain[i], other) /\ Counted(chain, i, other)
  BY DEF Sound
<1> DEFINE r == chain[i]
<1>1. /\ r \in HeldWrites /\ Placed(r) /\ Guarded(r, view) /\ Counted(chain, i, view)
      /\ ~GuardLost(r, other)
  BY ChainDomain DEF Sound
<1>2. Guarded(r, other)
  BY <1>1 DEF Guarded, GuardLost
<1>3. r.kind # "stage" => view[r.path] = other[r.path]
  BY <1>1 DEF Guarded, GuardLost, HeldWrites
<1>4. r.path \in Advancing => r.kind # "stage"
  BY <1>1, AdvancingPaths DEF Placed
<1> QED BY <1>1, <1>2, <1>3, <1>4 DEF Counted

LEMMA SoundEmpty ==
    ASSUME NEW view
    PROVE  Sound(<<>>, view)
BY DEF Sound

LEMMA FrontType ==
    ASSUME NEW chain \in Seq(HeldWrites), chain # <<>>
    PROVE  /\ Front(chain) \in Seq(HeldWrites) /\ Len(Front(chain)) = Len(chain) - 1
           /\ \A i \in 1 .. Len(chain) - 1 : Front(chain)[i] = chain[i]
           /\ Last(chain) \in HeldWrites /\ Last(chain) = chain[Len(chain)]
           /\ Len(chain) \in DOMAIN chain
<1> DEFINE short == SubSeq(chain, 1, Len(chain) - 1)
<1>1. /\ Len(chain) \in Nat \ {0} /\ DOMAIN chain = 1 .. Len(chain)
      /\ \A i \in 1 .. Len(chain) : chain[i] \in HeldWrites
  BY ChainDomain
<1>2. \A i \in 1 .. Len(chain) - 1 : chain[i] \in HeldWrites
  BY <1>1
<1>3. /\ short \in Seq(HeldWrites) /\ Len(short) = Len(chain) - 1
      /\ \A i \in 1 .. Len(chain) - 1 : short[i] = chain[i]
  <2> DEFINE m == Len(chain) - 1
  <2>1. m \in Int /\ Len(chain) \in Nat \ {0} /\ m = Len(chain) - 1
    BY <1>1
  <2>2. \A i \in 1 .. m : chain[i] \in HeldWrites
    BY <1>2
  <2> HIDE DEF m
  <2>3. \A i \in 1 .. m : i \in 1 .. m - 1 + 1 /\ 1 + i - 1 = i
    BY <2>1
  <2>4. /\ SubSeq(chain, 1, m) \in Seq(HeldWrites)
        /\ Len(SubSeq(chain, 1, m)) = IF 1 <= m THEN m - 1 + 1 ELSE 0
        /\ \A i \in 1 .. m - 1 + 1 : SubSeq(chain, 1, m)[i] = chain[1 + i - 1]
    BY <2>1, <2>2, SubSeqProperties
  <2>5. short = SubSeq(chain, 1, m)
    BY DEF m
  <2> HIDE DEF short
  <2>6. short \in Seq(HeldWrites) /\ Len(short) = m /\ \A i \in 1 .. m : short[i] = chain[i]
    BY <2>1, <2>3, <2>4, <2>5
  <2> QED BY <2>1, <2>6
<1>4. Last(chain) \in HeldWrites /\ Last(chain) = chain[Len(chain)] /\ Len(chain) \in DOMAIN chain
  BY <1>1 DEF Last
<1> QED BY <1>3, <1>4 DEF Front

LEMMA AppendType ==
    ASSUME NEW chain \in Seq(HeldWrites), NEW r \in HeldWrites
    PROVE  /\ Append(chain, r) \in Seq(HeldWrites) /\ Len(Append(chain, r)) = Len(chain) + 1
           /\ \A i \in 1 .. Len(chain) : Append(chain, r)[i] = chain[i]
           /\ Append(chain, r)[Len(chain) + 1] = r
           /\ Append(chain, r) # <<>> /\ Last(Append(chain, r)) = r
<1> DEFINE longer == Append(chain, r)
<1>1. /\ longer \in Seq(HeldWrites) /\ Len(longer) = Len(chain) + 1
      /\ \A i \in 1 .. Len(chain) : longer[i] = chain[i]
      /\ longer[Len(chain) + 1] = r /\ longer # <<>>
  BY AppendProperties
<1> HIDE DEF longer
<1>2. Last(longer) = r
  BY <1>1 DEF Last
<1> QED BY <1>1, <1>2 DEF longer

LEMMA IdsOf ==
    ASSUME NEW chain, NEW a
    PROVE  a \in Ids(chain) <=> \E i \in DOMAIN chain : a = Id(chain[i])
BY DEF Ids

LEMMA IdsFront ==
    ASSUME NEW chain \in Seq(HeldWrites), chain # <<>>
    PROVE  Ids(Front(chain)) \subseteq Ids(chain) /\ Id(Last(chain)) \in Ids(chain)
<1>1. /\ DOMAIN Front(chain) = 1 .. Len(chain) - 1 /\ DOMAIN chain = 1 .. Len(chain)
      /\ Len(chain) \in Nat
  <2>1. Front(chain) \in Seq(HeldWrites) /\ Len(Front(chain)) = Len(chain) - 1
    BY FrontType
  <2> QED BY <2>1, ChainDomain
<1>2. /\ \A i \in 1 .. Len(chain) - 1 : Front(chain)[i] = chain[i]
      /\ Last(chain) = chain[Len(chain)] /\ Len(chain) \in DOMAIN chain
  BY FrontType
<1> QED BY <1>1, <1>2 DEF Ids

-----------------------------------------------------------------------------
(* The steps of one writer *)

\* A record is the writer's own, made at one of its calls.
MadeBy(r, w) == r.by = w /\ r.blob.at = r.op /\ r.blob.body = Body[w]

\* A record that may wait in a chain for the step to be released.
Waits(r) ==
    \/ r.kind = "stage"
    \/ r.kind = "update" /\ r.path = Checkpoint /\ r.blob.state \notin EndStates

Ends(r) == r.path = Checkpoint /\ r.blob.state \in EndStates
Ended(view) == view[Checkpoint] # Absent /\ view[Checkpoint].state \in EndStates

\* A writer's view of origin is the one it had, or origin's, or none.
BaseMoves(s, t) ==
    t.fetched => \/ s.fetched /\ t.head = s.head /\ Base(t) = Base(s)
                 \/ t.head = origin.ver /\ Base(t) = origin.view

\* The record r, made at the call under way, fits on base and the chain above it.
Joins(w, r, base, view) ==
    /\ MadeBy(r, w) /\ r.op = ops[w] /\ Placed(r)
    /\ r.kind = "create" => view[r.path] = Absent
    /\ r.kind = "update" => r.guard = base[r.path] /\ view[r.path] # Absent
    /\ r.path \in Advancing => Rank(r.path, r.blob) = Rank(r.path, view[r.path]) + 1

Grown(w, s, t) ==
    /\ Idle(w) /\ ops'[w] = ops[w] + 1
    /\ s.held # <<>> => t.baseView = s.baseView
    /\ \E r \in HeldWrites :
          /\ t.held = Append(s.held, r)
          /\ Joins(w, r, t.baseView, Over(t.baseView, s.held))
          /\ flush'[w].phase = "idle" => Waits(r)

Rebased(s, t) ==
    /\ t.baseView = origin.view /\ s.held # <<>>
    /\ t.held = s.held \/ t.held = Front(s.held)
    /\ \A i \in DOMAIN t.held : ~GuardLost(t.held[i], origin.view)

ChainMoves(w, s, t) ==
    \/ t.held = <<>>
    \/ t.held = s.held /\ t.baseView = s.baseView
    \/ Rebased(s, t)
    \/ Grown(w, s, t)

\* A flush begins, goes on, or is over; a tag is next only where the run is.
Started(s, t, f, g) ==
    /\ f.phase = "idle" /\ g.sent = {}
    /\ g.call = "final" => Ends(Last(t.held))
    /\ g.call = "tag" => t.held = s.held /\ Ended(t.view)
GoesOn(w, s, t, f, g) ==
    /\ f.phase \in {"push", "refused"} /\ g.call = f.call
    /\ g.sent \subseteq f.sent \cup {ThePush(w)}
    /\ t.held = s.held \/ t.held = Front(s.held)
    /\ g.lost = "" => f.lost = "" /\ t.held = s.held
FlushMoves(w, s, t, f, g) ==
    /\ g.phase = "tag" => \/ t.held = <<>> /\ t.fetched /\ Ended(t.view)
                          \/ f.phase = "tag" /\ t = s
    /\ g.phase = "idle" => \/ t.held = <<>> \/ f.phase = "idle"
                           \/ f.phase = "tag" /\ t.held = s.held
    /\ g.phase \in {"push", "refused"} => Started(s, t, f, g) \/ GoesOn(w, s, t, f, g)

\* A record is disowned as it leaves the chain, and none that is sent then.
Disowns(s, t) ==
    \/ disowned' = disowned
    \/ /\ inflight' = inflight
       /\ \/ t.held = <<>> /\ disowned' \subseteq disowned \cup Ids(s.held)
          \/ /\ s.held # <<>> /\ t.held = Front(s.held)
             /\ disowned' = disowned \cup {Id(Last(s.held))}

OthersStay(w) ==
    \A v \in Writers \ {w} : store'[v] = store[v] /\ flush'[v] = flush[v]

\* A step of writer w that brings nothing to origin and is told of nothing there.
Quiet(w) ==
    /\ origin' = origin /\ landed' = landed /\ acked' = acked /\ ended' = ended
    /\ OthersStay(w)
    /\ \A v \in Writers : ops[v] <= ops'[v]
    /\ \/ inflight' \subseteq inflight
       \/ /\ inflight' \subseteq inflight \cup {ThePush(w)} /\ store[w].head = origin.ver
          /\ LosesReplies \/ store'[w].held = <<>>
    /\ BaseMoves(store[w], store'[w])
    /\ ChainMoves(w, store[w], store'[w])
    /\ FlushMoves(w, store[w], store'[w], flush[w], flush'[w])
    /\ Disowns(store[w], store'[w])

-----------------------------------------------------------------------------
(* The calls are quiet *)

\* What the invariant says of one store, spelled out for the steps below.
LEMMA StoreFacts ==
    ASSUME IInv, NEW w \in Writers
    PROVE  /\ store[w] \in Stores /\ store[w].held \in Seq(HeldWrites)
           /\ Base(store[w]) \in Views /\ origin \in Branches
           /\ store[w].held # <<>> => store[w].fetched
           /\ store[w].head = origin.ver /\ store[w].held # <<>> => store[w].baseView = origin.view
           /\ store[w].view = Over(Base(store[w]), store[w].held)
<1>1. StoreInv(store[w], origin) /\ store[w] \in Stores /\ origin \in Branches
  BY IInvParts DEF StoresInv, RestOK
<1>2. CASE store[w].held # <<>>
  BY <1>1, <1>2 DEF StoreInv, Stores, Base
<1>3. CASE store[w].held = <<>>
  <2>1. store[w].view \in Views /\ Base(store[w]) = store[w].view
    BY <1>1, <1>3 DEF Stores, Base
  <2>2. Over(store[w].view, <<>>) = store[w].view
    <3>1. \A p \in Records : Over(store[w].view, <<>>)[p] = store[w].view[p]
      BY OverUnwritten
    <3> QED BY <2>1, <3>1 DEF Over, Views
  <2> QED BY <1>1, <1>3, <2>1, <2>2, NoChain
<1> QED BY <1>2, <1>3

\* The store a call works on: the writer's, re-read first if it was never read.
LEMMA EnsuredFacts ==
    ASSUME IInv, NEW w \in Writers, NEW u,
           u = store[w] \/ u = EnsureFetched(store[w])
    PROVE  /\ u \in Stores /\ u.held = store[w].held
           /\ u.held # <<>> => u = store[w]
           /\ BaseMoves(store[w], u)
           /\ Base(u) \in Views /\ u.view = Over(Base(u), u.held)
<1>1. CASE u = store[w]
  BY <1>1, StoreFacts DEF BaseMoves
<1>2. CASE u # store[w]
  <2>1. u = Fetched(store[w]) /\ ~store[w].fetched
    BY <1>2 DEF EnsureFetched
  <2>2. store[w].held = <<>> /\ store[w] \in Stores /\ origin \in Branches
    BY <2>1, StoreFacts
  <2>3. /\ u \in Stores /\ u.held = <<>> /\ u.head = origin.ver /\ u.view = origin.view
    BY <2>1, <2>2 DEF Fetched, Stores, Branches
  <2>4. Base(u) = origin.view /\ origin.view \in Views
    BY <2>2, <2>3 DEF Base, Branches
  <2>5. Over(origin.view, <<>>) = origin.view
    <3>1. \A p \in Records : Over(origin.view, <<>>)[p] = origin.view[p]
      BY OverUnwritten
    <3> QED BY <2>4, <3>1 DEF Over, Views
  <2> QED BY <2>2, <2>3, <2>4, <2>5 DEF BaseMoves
<1> QED BY <1>1, <1>2

LEMMA CallOps ==
    ASSUME IInv, NEW w \in Writers, Call(w)
    PROVE  /\ Idle(w) /\ flush[w].phase = "idle" /\ ops'[w] = ops[w] + 1
           /\ \A v \in Writers : ops[v] <= ops'[v]
BY IInvParts DEF Call, Idle, RestOK

LEMMA StoreIsW ==
    ASSUME IInv, NEW w \in Writers, NEW s, StoreIs(w, s)
    PROVE  store'[w] = s /\ \A v \in Writers \ {w} : store'[v] = store[v]
BY IInvParts DEF StoreIs

\* A call between flushes that ends on the writer's own view.
LEMMA RefuseQuiet ==
    ASSUME IInv, NEW w \in Writers, Call(w), NEW u, NEW a,
           u = store[w] \/ u = EnsureFetched(store[w]), Refuse(w, u, a)
    PROVE  Quiet(w)
<1>1. /\ u.held = store[w].held /\ (u.held # <<>> => u = store[w])
      /\ BaseMoves(store[w], u)
  BY EnsuredFacts
<1>2. store'[w] = u /\ \A v \in Writers \ {w} : store'[v] = store[v]
  BY StoreIsW DEF Refuse
<1>3. /\ origin' = origin /\ inflight' = inflight /\ flush' = flush /\ landed' = landed
      /\ acked' = acked /\ ended' = ended /\ disowned' = disowned
  BY DEF Refuse, remote, histories
<1>4. ChainMoves(w, store[w], u)
  BY <1>1 DEF ChainMoves
<1>5. FlushMoves(w, store[w], u, flush[w], flush[w])
  BY CallOps DEF FlushMoves
<1> QED BY <1>1, <1>2, <1>3, <1>4, <1>5, CallOps DEF Quiet, OthersStay, Disowns

\* A call that chains a record, to wait there or to be pushed at once.
LEMMA JoinQuiet ==
    ASSUME IInv, NEW w \in Writers, Call(w), NEW u,
           u = store[w] \/ u = EnsureFetched(store[w]), u.fetched,
           NEW r \in HeldWrites, Joins(w, r, Base(u), u.view),
           StoreIs(w, Chain(u, r)), UNCHANGED <<remote, histories>>,
           \/ flush' = flush /\ Waits(r)
           \/ \E call \in FlushCalls \ {"tag"} :
                 StartFlush(w, call) /\ (call = "final" => Ends(r))
    PROVE  Quiet(w)
<1> DEFINE s == store[w]
           t == Chain(u, r)
<1>1. /\ u \in Stores /\ u.held = s.held /\ (u.held # <<>> => u = s)
      /\ BaseMoves(s, u) /\ Base(u) \in Views /\ u.view = Over(Base(u), u.held)
      /\ s.held \in Seq(HeldWrites)
  BY EnsuredFacts, StoreFacts
<1>2. /\ Append(s.held, r) \in Seq(HeldWrites) /\ Append(s.held, r) # <<>>
      /\ Last(Append(s.held, r)) = r
  BY <1>1, AppendType
<1>3. /\ t.held = Append(s.held, r) /\ t.baseView = Base(u) /\ t.head = u.head
      /\ t.fetched = u.fetched
  BY <1>1 DEF Chain, Base, Stores
<1>4. Base(t) = Base(u)
  BY <1>2, <1>3 DEF Base
<1>5. store'[w] = t /\ \A v \in Writers \ {w} : store'[v] = store[v]
  BY StoreIsW
<1>6. /\ origin' = origin /\ inflight' = inflight /\ landed' = landed
      /\ acked' = acked /\ ended' = ended /\ disowned' = disowned
  BY DEF remote, histories
<1> HIDE DEF t
<1>7. BaseMoves(s, t)
  BY <1>1, <1>3, <1>4 DEF BaseMoves
<1>8. /\ flush'[w].phase = "idle" => Waits(r)
      /\ FlushMoves(w, s, t, flush[w], flush'[w])
      /\ \A v \in Writers \ {w} : flush'[v] = flush[v]
  <2>1. CASE flush' = flush /\ Waits(r)
    BY <2>1, CallOps DEF FlushMoves
  <2>2. CASE \E call \in FlushCalls \ {"tag"} :
                StartFlush(w, call) /\ (call = "final" => Ends(r))
    <3>1. PICK call \in FlushCalls \ {"tag"} :
                StartFlush(w, call) /\ (call = "final" => Ends(r))
      BY <2>2
    <3>2. /\ flush'[w].phase = "push" /\ flush'[w].call = call /\ flush'[w].sent = {}
          /\ \A v \in Writers \ {w} : flush'[v] = flush[v]
      BY <3>1, IInvParts DEF StartFlush, NotFlushing, FlushOK
    <3>3. Started(s, t, flush[w], flush'[w])
      BY <1>2, <1>3, <3>1, <3>2, CallOps DEF Started
    <3> QED BY <3>2, <3>3 DEF FlushMoves
  <2> QED BY <2>1, <2>2
<1>9. Grown(w, s, t)
  <2>1. Joins(w, r, t.baseView, Over(t.baseView, s.held))
    BY <1>1, <1>3
  <2>2. s.held # <<>> => t.baseView = s.baseView
    BY <1>1, <1>3 DEF Base
  <2> QED BY <1>3, <1>8, <2>1, <2>2, CallOps DEF Grown
<1> QED BY <1>5, <1>6, <1>7, <1>8, <1>9, CallOps DEF Quiet, OthersStay, Disowns, ChainMoves

LEMMA RecordMade ==
    ASSUME IInv, NEW w \in Writers, NEW kind \in {"create", "update", "stage"},
           NEW p \in Records \cup Trackers, NEW n \in Nat, NEW st \in States \cup {NoState},
           NEW guard \in Blobs \cup {Absent}, NEW r,
           r = Record(w, kind, p, Blob(w, n, st), guard)
    PROVE  /\ r \in HeldWrites /\ r.kind = kind /\ r.path = p /\ r.guard = guard
           /\ MadeBy(r, w) /\ r.op = ops[w] /\ r.blob # Absent
           /\ r.blob.seq = n /\ r.blob.state = st
           /\ n = 0 /\ st = NoState => r.blob = GrantOf(Id(r))
<1>1. r \in HeldWrites /\ r.kind = kind /\ r.path = p
  BY RecordType
<1>2. r.blob = Blob(w, n, st) /\ r.by = w /\ r.op = ops[w] /\ r.guard = guard
  BY DEF Record
<1>3. r.blob \in Blobs /\ Absent \notin Blobs
  BY <1>1, ConstantsAssumption DEF HeldWrites
<1>4. MadeBy(r, w) /\ r.blob.seq = n /\ r.blob.state = st
  BY <1>2 DEF MadeBy, Blob
<1>5. n = 0 /\ st = NoState => r.blob = GrantOf(Id(r))
  BY <1>2 DEF Blob, GrantOf, Id
<1> QED BY <1>1, <1>2, <1>3, <1>4, <1>5

LEMMA CreateQuiet ==
    ASSUME IInv, NEW w \in Writers, NEW p \in Markers \cup Registers, Create(w, p)
    PROVE  Quiet(w)
<1> DEFINE u == EnsureFetched(store[w])
           r == Record(w, "create", p, Blob(w, 0, NoState), Absent)
<1>1. Call(w) /\ u.fetched
  BY EnsureFetchedInv, IInvParts DEF Create, StoresInv, RestOK
<1>2. CASE Refuse(w, u, "conflict_exists")
  BY <1>1, <1>2, RefuseQuiet
<1>3. CASE u.view[p] = Absent /\ Send(w, u, r, "record")
  <2>1. /\ r \in HeldWrites /\ r.kind = "create" /\ r.path = p /\ MadeBy(r, w)
        /\ r.op = ops[w] /\ r.blob # Absent /\ r.blob.seq = 0 /\ r.blob = GrantOf(Id(r))
    BY RecordMade DEF Records
  <2> HIDE DEF r, u
  <2>2. Placed(r)
    BY <2>1, ConstantsAssumption DEF Placed, Records
  <2>3. r.path \in Advancing => Rank(r.path, r.blob) = Rank(r.path, u.view[r.path]) + 1
    BY <1>3, <2>1, ConstantsAssumption DEF Advancing, Rank
  <2>4. Joins(w, r, Base(u), u.view)
    BY <1>3, <2>1, <2>2, <2>3 DEF Joins
  <2> QED BY <1>1, <1>3, <2>1, <2>4, JoinQuiet DEF Send, u, FlushCalls
<1> QED BY <1>2, <1>3 DEF Create

LEMMA GuardIsBase ==
    ASSUME IInv, NEW w \in Writers, NEW u, u = store[w] \/ u = EnsureFetched(store[w]),
           NEW p \in Records
    PROVE  GuardFor(u, p) = Base(u)[p] /\ GuardFor(u, p) \in Blobs \cup {Absent}
<1>1. Base(u) \in Views
  BY EnsuredFacts
<1>2. GuardFor(u, p) = Base(u)[p]
  BY DEF GuardFor, Base
<1> QED BY <1>1, <1>2 DEF Views

LEMMA UpdateQuiet ==
    ASSUME IInv, NEW w \in Writers, NEW p \in Registers, Update(w, p)
    PROVE  Quiet(w)
<1> DEFINE u == store[w]
           r == Record(w, "update", p, Blob(w, u.view[p].seq + 1, NoState), GuardFor(u, p))
<1>1. Call(w) /\ p \in Records /\ StoreInv(u, origin) /\ u \in Stores
  BY IInvParts DEF Update, Records, StoresInv
<1>2. CASE Refuse(w, u, "conflict_missing_base")
  BY <1>1, <1>2, RefuseQuiet
<1>3. CASE u.view[p] # Absent /\ Send(w, u, r, "record")
  <2>1. u.fetched /\ u.view[p] \in Blobs /\ u.view[p].seq \in Nat
    BY <1>1, <1>3 DEF StoreInv, EmptyView, Stores, Views, Blobs
  <2>2. GuardFor(u, p) = Base(u)[p] /\ GuardFor(u, p) \in Blobs \cup {Absent}
    BY <1>1, GuardIsBase
  <2>3. /\ r \in HeldWrites /\ r.kind = "update" /\ r.path = p /\ MadeBy(r, w)
        /\ r.op = ops[w] /\ r.blob # Absent /\ r.blob.seq = u.view[p].seq + 1
        /\ r.guard = GuardFor(u, p)
    <3>1. r = Record(w, "update", p, Blob(w, u.view[p].seq + 1, NoState), GuardFor(u, p))
      OBVIOUS
    <3>2. u.view[p].seq + 1 \in Nat
      BY <2>1
    <3> HIDE DEF r, u
    <3> QED BY <1>1, <2>2, <3>1, <3>2, RecordMade
  <2> HIDE DEF r, u
  <2>4. Placed(r)
    BY <1>1, <2>3, ConstantsAssumption DEF Placed
  <2>5. Rank(r.path, r.blob) = Rank(r.path, u.view[r.path]) + 1
    BY <1>3, <2>1, <2>3 DEF Rank
  <2>6. Joins(w, r, Base(u), u.view)
    BY <1>3, <2>2, <2>3, <2>4, <2>5 DEF Joins
  <2> QED BY <1>1, <1>3, <2>1, <2>3, <2>6, JoinQuiet DEF Send, u, FlushCalls
<1> QED BY <1>2, <1>3 DEF Update

LEMMA StageQuiet ==
    ASSUME IInv, NEW w \in Writers, NEW t \in Trackers, NEW held \in BOOLEAN,
           StageChanges(w, t, held)
    PROVE  Quiet(w)
<1> DEFINE u == EnsureFetched(store[w])
           r == Record(w, "stage", t, Blob(w, 0, NoState), Absent)
<1>1. Call(w) /\ u.fetched
  BY EnsureFetchedInv, IInvParts DEF StageChanges, StoresInv, RestOK
<1>2. /\ r \in HeldWrites /\ r.kind = "stage" /\ r.path = t /\ MadeBy(r, w)
      /\ r.op = ops[w]
  BY RecordMade
<1>3. Wait(w, u, r, "staged") \/ Send(w, u, r, "stage")
  BY DEF StageChanges
<1> HIDE DEF r, u
<1>4. Placed(r) /\ r.path \notin Advancing
  BY <1>2, ConstantsAssumption DEF Placed, Records, Advancing
<1>5. Joins(w, r, Base(u), u.view)
  BY <1>2, <1>4 DEF Joins
<1>6. CASE Wait(w, u, r, "staged")
  BY <1>1, <1>2, <1>5, <1>6, JoinQuiet DEF Wait, u, Waits, remote, histories
<1>7. CASE Send(w, u, r, "stage")
  BY <1>1, <1>2, <1>5, <1>7, JoinQuiet DEF Send, u, FlushCalls
<1> QED BY <1>3, <1>6, <1>7

LEMMA PutCheckpointQuiet ==
    ASSUME IInv, NEW w \in Writers, NEW state \in States, PutCheckpoint(w, state)
    PROVE  Quiet(w)
<1> DEFINE u == EnsureFetched(store[w])
           previous == u.view[Checkpoint]
           first == previous = Absent
           news == IF first THEN TRUE
                   ELSE previous.state # state \/ previous.body # Body[w]
           over == Terminal(state)
           r == IF first
                THEN Record(w, "create", Checkpoint, Blob(w, 1, state), Absent)
                ELSE Record(w, "update", Checkpoint, Blob(w, previous.seq + 1, state),
                            GuardFor(u, Checkpoint))
           waits == u.holding /\ ~over /\ ~first
<1>1. /\ Call(w) /\ StoreInv(u, origin) /\ u.fetched /\ u \in Stores
      /\ Checkpoint \in Records /\ Checkpoint \notin Markers
      /\ Checkpoint \notin Registers /\ Checkpoint \notin Trackers
  BY EnsureFetchedInv, IInvParts, ConstantsAssumption
     DEF PutCheckpoint, StoresInv, RestOK, StoreInv, Records
<1>2. ~first => previous \in Blobs /\ previous.seq \in Nat
  BY <1>1 DEF Stores, Views, Blobs
<1>3. GuardFor(u, Checkpoint) = Base(u)[Checkpoint] /\ GuardFor(u, Checkpoint) \in Blobs \cup {Absent}
  BY <1>1, GuardIsBase
<1>4. /\ r \in HeldWrites /\ r.path = Checkpoint /\ MadeBy(r, w) /\ r.op = ops[w]
      /\ r.blob # Absent /\ r.blob.state = state
      /\ IF first THEN r.kind = "create" /\ r.blob.seq = 1
         ELSE r.kind = "update" /\ r.blob.seq = previous.seq + 1 /\ r.guard = Base(u)[Checkpoint]
  <2>1. CASE first
    <3>1. r = Record(w, "create", Checkpoint, Blob(w, 1, state), Absent)
      BY <2>1
    <3> HIDE DEF r
    <3> QED BY <1>1, <2>1, <3>1, RecordMade
  <2>2. CASE ~first
    <3>1. r = Record(w, "update", Checkpoint, Blob(w, previous.seq + 1, state),
                     GuardFor(u, Checkpoint))
      BY <2>2
    <3>2. previous.seq + 1 \in Nat
      BY <1>2, <2>2
    <3> HIDE DEF r
    <3> QED BY <1>1, <1>3, <2>2, <3>1, <3>2, RecordMade
  <2> QED BY <2>1, <2>2
<1>5. \/ news /\ waits /\ Wait(w, u, r, "updated")
      \/ Send(w, u, r, IF over THEN "final" ELSE "record")
      \/ Refuse(w, u, "no_change")
      \/ /\ ~news /\ over
         /\ StoreIs(w, u)
         /\ flush' = [flush EXCEPT ![w] =
               [NotFlushing EXCEPT !.phase = IF u.held = <<>> THEN "tag" ELSE "push",
                                   !.call = "tag"]]
         /\ UNCHANGED <<remote, tag, localTag, histories>>
  BY DEF PutCheckpoint
<1> HIDE DEF r, u
<1>6. Joins(w, r, Base(u), u.view)
  <2>1. Placed(r)
    BY <1>1, <1>4 DEF Placed
  <2>2. Rank(r.path, r.blob) = Rank(r.path, u.view[r.path]) + 1
    BY <1>1, <1>2, <1>4 DEF Rank
  <2> QED BY <1>4, <2>1, <2>2 DEF Joins
<1>7. CASE news /\ waits /\ Wait(w, u, r, "updated")
  <2>1. Waits(r)
    BY <1>4, <1>7 DEF Waits, Terminal
  <2> QED BY <1>1, <1>4, <1>6, <1>7, <2>1, JoinQuiet DEF Wait, u, remote, histories
<1>8. CASE Send(w, u, r, IF over THEN "final" ELSE "record")
  <2> DEFINE call == IF over THEN "final" ELSE "record"
  <2>1. call \in FlushCalls \ {"tag"} /\ (call = "final" => Ends(r))
    BY <1>4 DEF FlushCalls, Ends, Terminal
  <2>2. StoreIs(w, Chain(u, r)) /\ StartFlush(w, call) /\ UNCHANGED <<remote, histories>>
    BY <1>8 DEF Send
  <2> HIDE DEF call
  <2> QED BY <1>1, <1>4, <1>6, <2>1, <2>2, JoinQuiet DEF u
<1>9. CASE Refuse(w, u, "no_change")
  BY <1>1, <1>9, RefuseQuiet DEF u
<1>10. CASE /\ ~news /\ over
            /\ StoreIs(w, u)
            /\ flush' = [flush EXCEPT ![w] =
                  [NotFlushing EXCEPT !.phase = IF u.held = <<>> THEN "tag" ELSE "push",
                                      !.call = "tag"]]
            /\ UNCHANGED <<remote, tag, localTag, histories>>
  <2>1. /\ u.held = store[w].held /\ (u.held # <<>> => u = store[w]) /\ BaseMoves(store[w], u)
    BY EnsuredFacts DEF u
  <2>2. store'[w] = u /\ \A v \in Writers \ {w} : store'[v] = store[v]
    BY <1>10, StoreIsW
  <2>3. /\ origin' = origin /\ inflight' = inflight /\ landed' = landed
        /\ acked' = acked /\ ended' = ended /\ disowned' = disowned
    BY <1>10 DEF remote, histories
  <2>4. Ended(u.view)
    BY <1>10 DEF Ended, Terminal
  <2>5. /\ flush'[w].phase = IF u.held = <<>> THEN "tag" ELSE "push"
        /\ flush'[w].call = "tag" /\ flush'[w].sent = {}
        /\ \A v \in Writers \ {w} : flush'[v] = flush[v]
    BY <1>10, IInvParts DEF NotFlushing, FlushOK
  <2>6. FlushMoves(w, store[w], u, flush[w], flush'[w])
    BY <1>1, <2>1, <2>4, <2>5, CallOps DEF FlushMoves, Started
  <2>7. ChainMoves(w, store[w], u)
    BY <2>1 DEF ChainMoves
  <2> QED BY <1>1, <2>1, <2>2, <2>3, <2>5, <2>6, <2>7, CallOps DEF Quiet, OthersStay, Disowns
<1> QED BY <1>5, <1>7, <1>8, <1>9, <1>10

LEMMA FetchQuiet ==
    ASSUME IInv, NEW w \in Writers, Fetch(w)
    PROVE  Quiet(w)
<1> DEFINE s == store[w]
           moved == s.held # <<>> /\ s.head # origin.ver
           lost == moved /\ \E i \in DOMAIN s.held : GuardLost(s.held[i], origin.view)
           t == IF lost THEN Fetched(DropHeld(s))
                ELSE IF moved THEN [Rebuild(s, s.held) EXCEPT !.fetched = TRUE]
                ELSE IF s.held # <<>> THEN [s EXCEPT !.fetched = TRUE]
                ELSE Fetched(s)
<1>1. /\ s \in Stores /\ s.held \in Seq(HeldWrites) /\ origin \in Branches
      /\ Base(s) \in Views /\ (s.held # <<>> => s.fetched)
  BY StoreFacts
<1>2. /\ StoreIs(w, t) /\ Call(w) /\ origin' = origin /\ inflight' = inflight /\ flush' = flush
      /\ landed' = landed /\ acked' = acked /\ ended' = ended
      /\ disowned' = IF lost THEN disowned \cup Ids(s.held) ELSE disowned
  BY DEF Fetch, remote
<1>3. /\ BaseMoves(s, t) /\ ChainMoves(w, s, t)
      /\ lost => t.held = <<>>
      /\ t.held = s.held \/ t.held = <<>>
  <2>1. CASE lost
    <3> DEFINE d == DropHeld(s)
    <3>1. d \in Stores /\ d.held = <<>>
      BY <1>1, NoChain DEF DropHeld, Stores, Base
    <3>2. t = Fetched(d)
      BY <2>1
    <3> HIDE DEF d, t
    <3>3. t.held = <<>> /\ t.head = origin.ver /\ t.view = origin.view
      BY <1>1, <3>1, <3>2 DEF Fetched, Stores, Branches
    <3> QED BY <3>3 DEF BaseMoves, ChainMoves, Base
  <2>2. CASE ~lost /\ moved
    <3>1. /\ t.held = s.held /\ t.baseView = origin.view /\ t.head = origin.ver
      BY <1>1, <2>2 DEF Rebuild, Stores
    <3>2. t.held # <<>>
      BY <2>2, <3>1
    <3>3. Rebased(s, t)
      BY <2>2, <3>1 DEF Rebased
    <3> HIDE DEF t
    <3> QED BY <2>2, <3>1, <3>2, <3>3 DEF BaseMoves, ChainMoves, Base
  <2>3. CASE ~moved /\ s.held # <<>>
    <3>1. t = s
      BY <1>1, <2>3 DEF Stores
    <3> HIDE DEF t
    <3> QED BY <1>1, <2>3, <3>1 DEF BaseMoves, ChainMoves
  <2>4. CASE s.held = <<>>
    <3>1. t = Fetched(s)
      BY <2>4
    <3> HIDE DEF t
    <3>2. t.held = <<>> /\ t.head = origin.ver /\ t.view = origin.view
      BY <1>1, <2>4, <3>1 DEF Fetched, Stores, Branches
    <3> QED BY <2>4, <3>1, <3>2 DEF BaseMoves, ChainMoves, Base
  <2> QED BY <2>1, <2>2, <2>3, <2>4
<1> HIDE DEF t, lost
<1>4. store'[w] = t /\ \A v \in Writers \ {w} : store'[v] = store[v]
  BY <1>2, StoreIsW
<1>5. FlushMoves(w, s, t, flush[w], flush[w])
  BY <1>2, CallOps DEF FlushMoves
<1>6. Disowns(s, store'[w])
  BY <1>2, <1>3, <1>4 DEF Disowns
<1> QED BY <1>2, <1>3, <1>4, <1>5, <1>6, CallOps DEF Quiet, OthersStay

LEMMA DropHeldMoves ==
    ASSUME IInv, NEW w \in Writers, NEW b \in BOOLEAN, NEW t,
           t = [DropHeld(store[w]) EXCEPT !.holding = b]
    PROVE  BaseMoves(store[w], t) /\ t.held = <<>> /\ t.head = store[w].head
<1> DEFINE s == store[w]
           d == DropHeld(s)
<1>1. s \in Stores /\ Base(s) \in Views
  BY StoreFacts
<1>2. /\ d \in Stores /\ d.head = s.head /\ d.fetched = s.fetched
      /\ d.view = Base(s) /\ d.held = <<>>
  BY <1>1, NoChain DEF DropHeld, Stores, Base
<1> HIDE DEF d
<1>3. /\ t.head = s.head /\ t.fetched = s.fetched /\ t.view = Base(s) /\ t.held = <<>>
  BY <1>2 DEF Stores, d
<1> QED BY <1>3 DEF BaseMoves, Base

LEMMA HoldQuiet ==
    ASSUME IInv, NEW w \in Writers, Hold(w) \/ Release(w) \/ Abandon(w)
    PROVE  Quiet(w)
<1> DEFINE s == store[w]
<1>1. s \in Stores /\ flush[w].phase = "idle" /\ ops' = ops /\ ops \in [Writers -> Nat]
  BY StoreFacts, IInvParts DEF Hold, Release, Abandon, Idle, RestOK
<1>2. /\ origin' = origin /\ inflight' = inflight /\ landed' = landed
      /\ acked' = acked /\ ended' = ended
  BY DEF Hold, Release, Abandon, remote, histories
<1>3. CASE \E b \in BOOLEAN : StoreIs(w, [s EXCEPT !.holding = b]) /\ flush' = flush
                              /\ disowned' = disowned
  <2>1. PICK b \in BOOLEAN : StoreIs(w, [s EXCEPT !.holding = b]) /\ flush' = flush
                             /\ disowned' = disowned
    BY <1>3
  <2> DEFINE t == [s EXCEPT !.holding = b]
  <2>2. store'[w] = t /\ \A v \in Writers \ {w} : store'[v] = store[v]
    BY <2>1, StoreIsW
  <2>3. /\ t.held = s.held /\ t.baseView = s.baseView /\ t.head = s.head
        /\ t.fetched = s.fetched /\ t.view = s.view
    BY <1>1 DEF Stores
  <2> HIDE DEF t
  <2>4. BaseMoves(s, t) /\ ChainMoves(w, s, t) /\ FlushMoves(w, s, t, flush[w], flush[w])
    BY <1>1, <2>3 DEF BaseMoves, ChainMoves, FlushMoves, Base
  <2> QED BY <1>1, <1>2, <2>1, <2>2, <2>4 DEF Quiet, OthersStay, Disowns
<1>4. CASE Release(w) /\ s.held # <<>>
  <2>1. StartFlush(w, "release") /\ store' = store /\ disowned' = disowned
    BY <1>4 DEF Release, histories
  <2>2. /\ flush'[w].phase = "push" /\ flush'[w].call = "release" /\ flush'[w].sent = {}
        /\ \A v \in Writers \ {w} : flush'[v] = flush[v]
    BY <2>1, IInvParts DEF StartFlush, NotFlushing, FlushOK
  <2>3. FlushMoves(w, s, s, flush[w], flush'[w])
    BY <1>1, <2>2 DEF FlushMoves, Started
  <2>4. BaseMoves(s, s) /\ ChainMoves(w, s, s)
    BY DEF BaseMoves, ChainMoves
  <2> QED BY <1>1, <1>2, <2>1, <2>2, <2>3, <2>4 DEF Quiet, OthersStay, Disowns
<1>5. CASE Abandon(w)
  <2>1. /\ StoreIs(w, [DropHeld(s) EXCEPT !.holding = FALSE]) /\ flush' = flush
        /\ disowned' = disowned \cup Ids(s.held)
    BY <1>5 DEF Abandon
  <2>2. PICK t : t = [DropHeld(s) EXCEPT !.holding = FALSE]
    OBVIOUS
  <2>3. BaseMoves(s, t) /\ t.held = <<>>
    BY <2>2, DropHeldMoves
  <2>4. store'[w] = t /\ \A v \in Writers \ {w} : store'[v] = store[v]
    BY <2>1, <2>2, StoreIsW
  <2>5. ChainMoves(w, s, t) /\ FlushMoves(w, s, t, flush[w], flush[w])
    BY <1>1, <2>3 DEF ChainMoves, FlushMoves
  <2> QED BY <1>1, <1>2, <2>1, <2>3, <2>4, <2>5 DEF Quiet, OthersStay, Disowns
<1>6. CASE Hold(w)
  BY <1>3, <1>6 DEF Hold, histories
<1>7. CASE Release(w) /\ s.held = <<>>
  BY <1>3, <1>7 DEF Release, histories
<1> QED BY <1>4, <1>5, <1>6, <1>7

-----------------------------------------------------------------------------
(* The push loop is quiet, but for the two steps that are told of a landing *)

\* A flush that is over with its chain dropped.
LEMMA EndQuiet ==
    ASSUME IInv, NEW w \in Writers, NEW d \in Stores, d.held = <<>>,
           BaseMoves(store[w], d), EndFlush(w, d),
           UNCHANGED <<origin, ops, landed, acked, ended>>,
           \/ inflight' \subseteq inflight
           \/ inflight' \subseteq inflight \cup {ThePush(w)} /\ store[w].head = origin.ver,
           \/ disowned' = disowned
           \/ inflight' = inflight /\ disowned' \subseteq disowned \cup Ids(store[w].held)
    PROVE  Quiet(w)
<1>1. PICK t : t = [d EXCEPT !.holding = @ /\ flush[w].call # "release"]
  OBVIOUS
<1>2. store'[w] = t /\ \A v \in Writers \ {w} : store'[v] = store[v]
  BY <1>1, StoreIsW DEF EndFlush
<1>3. /\ t.held = <<>> /\ t.head = d.head /\ t.fetched = d.fetched /\ t.view = d.view
  BY <1>1 DEF Stores
<1>4. BaseMoves(store[w], t) /\ ChainMoves(w, store[w], t)
  BY <1>3 DEF BaseMoves, ChainMoves, Base
<1>5. flush'[w].phase = "idle" /\ \A v \in Writers \ {w} : flush'[v] = flush[v]
  BY IInvParts DEF EndFlush, NotFlushing, FlushOK
<1>6. FlushMoves(w, store[w], t, flush[w], flush'[w])
  BY <1>3, <1>5 DEF FlushMoves
<1>7. Disowns(store[w], t)
  BY <1>3 DEF Disowns
<1>8. \A v \in Writers : ops[v] <= ops'[v]
  BY IInvParts DEF RestOK
<1> QED BY <1>2, <1>3, <1>4, <1>5, <1>6, <1>7, <1>8 DEF Quiet, OthersStay

LEMMA DropFacts ==
    ASSUME IInv, NEW w \in Writers
    PROVE  /\ DropHeld(store[w]) \in Stores /\ DropHeld(store[w]).held = <<>>
           /\ BaseMoves(store[w], DropHeld(store[w]))
<1> DEFINE s == store[w]
           d == DropHeld(s)
<1>1. s \in Stores /\ Base(s) \in Views
  BY StoreFacts
<1>2. /\ d \in Stores /\ d.head = s.head /\ d.fetched = s.fetched
      /\ d.view = Base(s) /\ d.held = <<>>
  BY <1>1, NoChain DEF DropHeld, Stores, Base
<1> HIDE DEF d
<1>3. Base(d) = Base(s)
  BY <1>2 DEF Base
<1> QED BY <1>2, <1>3 DEF BaseMoves, d

LEMMA FailQuiet ==
    ASSUME IInv, NEW w \in Writers, Fail(w), UNCHANGED <<origin, ops, landed, ended>>,
           \/ inflight' \subseteq inflight
           \/ inflight' \subseteq inflight \cup {ThePush(w)} /\ store[w].head = origin.ver
    PROVE  Quiet(w)
<1>1. EndFlush(w, DropHeld(store[w])) /\ acked' = acked /\ disowned' = disowned
  BY DEF Fail
<1> QED BY <1>1, DropFacts, EndQuiet

LEMMA HeldLostQuiet ==
    ASSUME IInv, NEW w \in Writers, HeldLost(w)
    PROVE  Quiet(w)
<1>1. /\ EndFlush(w, DropHeld(store[w])) /\ disowned' = disowned \cup Ids(store[w].held)
      /\ UNCHANGED <<origin, ops, landed, acked, ended>> /\ inflight' = inflight
  BY DEF HeldLost, remote
<1> QED BY <1>1, DropFacts, EndQuiet

\* A push that is refused or sent again leaves the chain as it is.
LEMMA SentQuiet ==
    ASSUME IInv, NEW w \in Writers, InPhase(w, "push"), store' = store,
           UNCHANGED <<origin, ops, landed, acked, disowned, ended>>,
           \/ inflight' \subseteq inflight
           \/ /\ inflight' \subseteq inflight \cup {ThePush(w)} /\ store[w].head = origin.ver
              /\ LosesReplies,
           \A v \in Writers \ {w} : flush'[v] = flush[v],
           flush'[w].phase \in {"push", "refused"},
           flush'[w].call = flush[w].call, flush'[w].lost = flush[w].lost,
           flush'[w].sent = flush[w].sent \cup {ThePush(w)}
    PROVE  Quiet(w)
<1>1. GoesOn(w, store[w], store[w], flush[w], flush'[w])
  BY DEF GoesOn, InPhase
<1>2. FlushMoves(w, store[w], store[w], flush[w], flush'[w])
  BY <1>1 DEF FlushMoves
<1>3. BaseMoves(store[w], store[w]) /\ ChainMoves(w, store[w], store[w])
  BY DEF BaseMoves, ChainMoves
<1>4. \A v \in Writers : ops[v] <= ops'[v]
  BY IInvParts DEF RestOK
<1> QED BY <1>2, <1>3, <1>4 DEF Quiet, OthersStay, Disowns

LEMMA PushRefusedQuiet ==
    ASSUME IInv, NEW w \in Writers, PushRefused(w)
    PROVE  Quiet(w)
<1>1. /\ flush'[w].phase = "refused" /\ flush'[w].call = flush[w].call
      /\ flush'[w].lost = flush[w].lost
      /\ flush'[w].sent = flush[w].sent \cup {ThePush(w)}
      /\ \A v \in Writers \ {w} : flush'[v] = flush[v]
  <2>1. PICK p : p = ThePush(w)
    OBVIOUS
  <2>2. flush' = [flush EXCEPT ![w].phase = "refused", ![w].sent = @ \cup {p}]
    BY <2>1 DEF PushRefused
  <2> QED BY <2>1, <2>2, IInvParts DEF FlushOK, Flushes
<1>2. /\ UNCHANGED <<origin, ops, landed, acked, disowned, ended>> /\ inflight' = inflight
      /\ store' = store /\ InPhase(w, "push")
  BY DEF PushRefused, remote, histories
<1> QED BY <1>1, <1>2, SentQuiet

LEMMA PushLostQuiet ==
    ASSUME IInv, NEW w \in Writers, PushLost(w)
    PROVE  Quiet(w)
<1>1. /\ LosesReplies /\ InPhase(w, "push") /\ UNCHANGED <<origin, ops, landed, ended>>
      /\ \/ inflight' \subseteq inflight
         \/ inflight' \subseteq inflight \cup {ThePush(w)} /\ store[w].head = origin.ver
  BY DEF PushLost
<1>2. CASE Fail(w)
  BY <1>1, <1>2, FailQuiet
<1>3. CASE /\ flush' = [flush EXCEPT ![w] = Resent(@, ThePush(w))]
           /\ UNCHANGED <<store, answer, acked, disowned>>
  <2>1. /\ flush'[w] = Resent(flush[w], ThePush(w)) /\ flush[w] \in Flushes
        /\ \A v \in Writers \ {w} : flush'[v] = flush[v]
    BY <1>3, IInvParts DEF FlushOK
  <2>2. /\ flush'[w].phase = flush[w].phase /\ flush'[w].call = flush[w].call
        /\ flush'[w].lost = flush[w].lost
        /\ flush'[w].sent = flush[w].sent \cup {ThePush(w)}
    BY <2>1 DEF Resent, Flushes
  <2> QED BY <1>1, <1>3, <2>1, <2>2, SentQuiet DEF InPhase
<1> QED BY <1>2, <1>3 DEF PushLost

\* A step that leaves the stores alone, and the flush too but for the exchange
\* its tag waits for.
LEMMA StillQuiet ==
    ASSUME IInv, NEW w \in Writers, UNCHANGED <<remote, store, ops, histories>>,
           NEW x, InPhase(w, "tag") \/ flush' = flush,
           flush' = flush \/ flush' = [flush EXCEPT ![w].tagging = x]
    PROVE  Quiet(w)
<1> DEFINE s == store[w]
           f == flush[w]
           g == flush'[w]
<1>1. /\ origin' = origin /\ inflight' = inflight /\ store' = store /\ ops' = ops
      /\ landed' = landed /\ acked' = acked /\ disowned' = disowned /\ ended' = ended
  BY DEF remote, histories
<1>2. f \in Flushes /\ \A v \in Writers \ {w} : flush'[v] = flush[v]
  BY IInvParts DEF FlushOK
<1>3. g.phase = f.phase /\ (f.phase # "tag" => g = f)
  <2>1. CASE flush' = flush
    BY <2>1
  <2>2. CASE InPhase(w, "tag") /\ flush' = [flush EXCEPT ![w].tagging = x]
    <3>1. g = [f EXCEPT !.tagging = x]
      BY <2>2, IInvParts DEF FlushOK
    <3> QED BY <1>2, <2>2, <3>1 DEF Flushes, InPhase
  <2> QED BY <2>1, <2>2
<1>4. f.phase \in {"push", "refused"} => GoesOn(w, s, s, f, f)
  BY DEF GoesOn
<1>5. FlushMoves(w, s, s, f, g)
  BY <1>2, <1>3, <1>4 DEF FlushMoves, Flushes
<1>6. BaseMoves(s, s) /\ ChainMoves(w, s, s)
  BY DEF BaseMoves, ChainMoves
<1>7. \A v \in Writers : ops[v] <= ops'[v]
  BY <1>1, IInvParts DEF RestOK
<1> QED BY <1>1, <1>2, <1>5, <1>6, <1>7 DEF Quiet, OthersStay, Disowns

\* A step of the tag that ends the flush.
LEMMA TagEndsQuiet ==
    ASSUME IInv, NEW w \in Writers, InPhase(w, "tag"), EndFlush(w, store[w]),
           UNCHANGED <<remote, ops, histories>>
    PROVE  Quiet(w)
<1> DEFINE s == store[w]
<1>1. /\ s \in Stores /\ flush[w].phase = "tag"
      /\ origin' = origin /\ inflight' = inflight /\ ops' = ops /\ landed' = landed
      /\ acked' = acked /\ disowned' = disowned /\ ended' = ended
  BY StoreFacts DEF InPhase, remote, histories
<1>2. PICK t : t = [s EXCEPT !.holding = @ /\ flush[w].call # "release"]
  OBVIOUS
<1>3. store'[w] = t /\ \A v \in Writers \ {w} : store'[v] = store[v]
  BY <1>1, <1>2, StoreIsW DEF EndFlush
<1>4. /\ t.held = s.held /\ t.baseView = s.baseView /\ t.head = s.head
      /\ t.fetched = s.fetched /\ t.view = s.view
  BY <1>1, <1>2 DEF Stores
<1>5. flush'[w].phase = "idle" /\ \A v \in Writers \ {w} : flush'[v] = flush[v]
  BY <1>1, IInvParts DEF EndFlush, NotFlushing, FlushOK
<1>6. BaseMoves(s, t) /\ ChainMoves(w, s, t) /\ FlushMoves(w, s, t, flush[w], flush'[w])
  BY <1>1, <1>4, <1>5 DEF BaseMoves, ChainMoves, FlushMoves, Base
<1>7. \A v \in Writers : ops[v] <= ops'[v]
  BY <1>1, IInvParts DEF RestOK
<1> QED BY <1>1, <1>3, <1>5, <1>6, <1>7 DEF Quiet, OthersStay, Disowns

LEMMA TagQuiet ==
    ASSUME IInv, NEW w \in Writers, EnsureRunTag(w)
    PROVE  Quiet(w)
<1>1. CASE TagRead(w)
  <2>1. CASE EndFlush(w, store[w])
    BY <1>1, <2>1, TagEndsQuiet DEF TagRead, Tagging
  <2>2. CASE flush' = [flush EXCEPT ![w].tagging = "push"] /\ store' = store
    BY <1>1, <2>2, StillQuiet DEF TagRead, Tagging
  <2> QED BY <1>1, <2>1, <2>2 DEF TagRead
<1>2. CASE TagPushed(w) \/ TagChecked(w)
  BY <1>2, TagEndsQuiet DEF TagPushed, TagChecked, Tagging
<1>3. CASE TagPushFails(w)
  BY <1>3, StillQuiet DEF TagPushFails, Tagging
<1> QED BY <1>1, <1>2, <1>3 DEF EnsureRunTag

LEMMA CrashQuiet ==
    ASSUME IInv, NEW w \in Writers, Crash(w)
    PROVE  Quiet(w)
<1>1. /\ StoreIs(w, Opened) /\ flush' = [flush EXCEPT ![w] = NotFlushing]
      /\ origin' = origin /\ ops' = ops /\ landed' = landed
      /\ acked' = acked /\ disowned' = disowned /\ ended' = ended
      /\ \/ inflight' \subseteq inflight
         \/ inflight' \subseteq inflight \cup {ThePush(w)} /\ store[w].head = origin.ver
  BY DEF Crash, histories
<1>2. PICK t : t = Opened
  OBVIOUS
<1>3. store'[w] = t /\ \A v \in Writers \ {w} : store'[v] = store[v]
  BY <1>1, <1>2, StoreIsW
<1>4. t.held = <<>> /\ ~t.fetched
  BY <1>2 DEF Opened
<1>5. flush'[w].phase = "idle" /\ \A v \in Writers \ {w} : flush'[v] = flush[v]
  BY <1>1, IInvParts DEF NotFlushing, FlushOK
<1>6. BaseMoves(store[w], t) /\ ChainMoves(w, store[w], t)
      /\ FlushMoves(w, store[w], t, flush[w], flush'[w])
  BY <1>4, <1>5 DEF BaseMoves, ChainMoves, FlushMoves
<1>7. \A v \in Writers : ops[v] <= ops'[v]
  BY <1>1, IInvParts DEF RestOK
<1> QED BY <1>1, <1>3, <1>4, <1>5, <1>6, <1>7 DEF Quiet, OthersStay, Disowns

\* A chain rebuilt on origin's head, with its subject or without it.
LEMMA RebuiltQuiet ==
    ASSUME IInv, NEW w \in Writers, Rebuilt(w)
    PROVE  Quiet(w)
<1> DEFINE s == store[w]
           held == s.held
           lost == Subject(w) /\ GuardLost(Last(held), origin.view)
           kept == IF lost THEN Others(w) ELSE held
           why  == IF lost THEN Conflict(Last(held)) ELSE flush[w].lost
           r == Rebuild(s, kept)
<1>1. /\ s \in Stores /\ held \in Seq(HeldWrites) /\ held # <<>> /\ s.fetched
      /\ origin \in Branches /\ flush[w].phase = "refused"
      /\ origin' = origin /\ inflight' = inflight /\ ops' = ops /\ landed' = landed
      /\ acked' = acked /\ ended' = ended
      /\ disowned' = IF lost THEN disowned \cup {Id(Last(held))} ELSE disowned
  BY StoreFacts, IInvParts DEF Rebuilt, remote, InPhase, Pushing
<1>2. /\ Front(held) \in Seq(HeldWrites) /\ Len(Front(held)) = Len(held) - 1
      /\ \A i \in 1 .. Len(held) - 1 : Front(held)[i] = held[i]
      /\ Last(held) = held[Len(held)]
      /\ DOMAIN held = 1 .. Len(held) /\ Len(held) \in Nat
      /\ DOMAIN Front(held) = 1 .. Len(held) - 1
      /\ Id(Last(held)) \in Ids(held)
  <2>1. Front(held) \in Seq(HeldWrites) /\ Len(Front(held)) = Len(held) - 1
    BY <1>1, FrontType
  <2> QED BY <1>1, <2>1, FrontType, ChainDomain, IdsFront
<1>3. /\ kept \in Seq(HeldWrites)
      /\ IF lost THEN kept = Front(held) ELSE kept = held
      /\ \A i \in DOMAIN kept : ~GuardLost(kept[i], origin.view)
  <2>1. \A i \in DOMAIN Others(w) : ~GuardLost(Others(w)[i], origin.view)
    BY DEF Rebuilt
  <2>2. CASE lost
    BY <1>2, <2>1, <2>2 DEF Others
  <2>3. CASE ~lost /\ ~Subject(w)
    BY <1>1, <2>1, <2>3 DEF Others
  <2>4. CASE ~lost /\ Subject(w)
    <3>1. \A i \in 1 .. Len(held) - 1 : ~GuardLost(held[i], origin.view)
      BY <1>2, <2>1, <2>4 DEF Others
    <3>2. ~GuardLost(held[Len(held)], origin.view)
      BY <1>2, <2>4
    <3>3. \A i \in 1 .. Len(held) : i = Len(held) \/ i \in 1 .. Len(held) - 1
      BY <1>2
    <3>4. \A i \in DOMAIN held : ~GuardLost(held[i], origin.view)
      BY <1>2, <3>1, <3>2, <3>3
    <3> QED BY <1>1, <2>4, <3>4
  <2> QED BY <2>2, <2>3, <2>4
<1>4. lost => why # ""
  BY DEF Conflict
<1>5. ~lost => why = flush[w].lost
  OBVIOUS
<1>6. \/ kept = <<>> /\ EndFlush(w, DropHeld(s))
      \/ kept # <<>> /\ EndFlush(w, DropHeld(r))
      \/ kept # <<>> /\ StoreIs(w, r) /\ flush' = [flush EXCEPT ![w] = Again(@, why)]
  BY DEF Rebuilt
<1>7. disowned' = disowned \/ disowned' \subseteq disowned \cup Ids(held)
  BY <1>1, <1>2
<1> HIDE DEF kept, why, lost
<1>8. /\ r \in Stores /\ r.held = kept /\ r.head = origin.ver /\ r.baseView = origin.view
      /\ r.fetched
  <2>1. Over(origin.view, kept) \in Views
    BY <1>1, <1>3, OverIsView DEF Branches
  <2> QED BY <1>1, <1>3, <2>1 DEF Rebuild, Stores, Branches
<1> HIDE DEF r
<1>9. CASE kept = <<>> /\ EndFlush(w, DropHeld(s))
  BY <1>1, <1>7, <1>9, DropFacts, EndQuiet
<1>10. CASE kept # <<>> /\ EndFlush(w, DropHeld(r))
  <2> DEFINE d == DropHeld(r)
  <2>1. d \in Stores /\ d.held = <<>> /\ d.head = origin.ver /\ d.view = origin.view
    BY <1>8, <1>10, NoChain DEF DropHeld, Stores
  <2> HIDE DEF d
  <2>2. BaseMoves(s, d)
    BY <2>1 DEF BaseMoves, Base
  <2>3. EndFlush(w, d)
    BY <1>10 DEF d
  <2> QED BY <1>1, <1>7, <2>1, <2>2, <2>3, EndQuiet
<1>11. CASE kept # <<>> /\ StoreIs(w, r) /\ flush' = [flush EXCEPT ![w] = Again(@, why)]
  <2>1. store'[w] = r /\ \A v \in Writers \ {w} : store'[v] = store[v]
    BY <1>11, StoreIsW
  <2>2. /\ flush'[w] = Again(flush[w], why) /\ flush[w] \in Flushes
        /\ \A v \in Writers \ {w} : flush'[v] = flush[v]
    BY <1>11, IInvParts DEF FlushOK
  <2>3. /\ flush'[w].phase = "push" /\ flush'[w].call = flush[w].call
        /\ flush'[w].lost = why /\ flush'[w].sent = flush[w].sent
    BY <2>2 DEF Again, Flushes
  <2>4. GoesOn(w, s, r, flush[w], flush'[w])
    BY <1>1, <1>3, <1>4, <1>5, <1>8, <2>3 DEF GoesOn
  <2>5. FlushMoves(w, s, r, flush[w], flush'[w])
    BY <2>3, <2>4 DEF FlushMoves
  <2>6. BaseMoves(s, r) /\ ChainMoves(w, s, r)
    BY <1>1, <1>3, <1>8, <1>11 DEF BaseMoves, ChainMoves, Rebased, Base
  <2>7. Disowns(s, r)
    BY <1>1, <1>3, <1>8 DEF Disowns
  <2>8. \A v \in Writers : ops[v] <= ops'[v]
    BY <1>1, IInvParts DEF RestOK
  <2> QED BY <1>1, <2>1, <2>2, <2>5, <2>6, <2>7, <2>8 DEF Quiet, OthersStay
<1> QED BY <1>6, <1>9, <1>10, <1>11

\* Every step of a writer is quiet, or a landing, or the news of one.
LEMMA StepOfWriter ==
    ASSUME IInv, NEW w \in Writers, Calls(w) \/ FlushStep(w) \/ Crash(w)
    PROVE  Quiet(w) \/ PushAcked(w) \/ OwnLanded(w)
<1>1. CASE Calls(w)
  BY <1>1, FetchQuiet, CreateQuiet, UpdateQuiet, PutCheckpointQuiet, StageQuiet, HoldQuiet
     DEF Calls
<1>2. CASE FlushStep(w)
  <2>1. ASSUME ExchangeFails(w) PROVE Quiet(w)
    <3>1. Fail(w) /\ UNCHANGED <<origin, ops, landed, ended>> /\ inflight' = inflight
      BY <2>1 DEF ExchangeFails, remote
    <3> QED BY <3>1, FailQuiet
  <2> QED BY <1>2, <2>1, PushRefusedQuiet, PushLostQuiet, HeldLostQuiet, RebuiltQuiet, TagQuiet
          DEF FlushStep
<1> QED BY <1>1, <1>2, CrashQuiet

LEMMA StepKinds ==
    ASSUME IInv, [Next]_vars
    PROVE  \/ UNCHANGED vars
           \/ \E w \in Writers : Quiet(w) \/ PushAcked(w) \/ OwnLanded(w)
           \/ \E push \in inflight : LateArrival(push)
<1>1. ASSUME NEW version \in tag.late, LateTag(version) PROVE \E w \in Writers : Quiet(w)
  BY <1>1, StillQuiet, ConstantsAssumption DEF LateTag
<1> QED BY <1>1, StepOfWriter DEF Next

-----------------------------------------------------------------------------
(* What is in the chains, in the pushes under way and on the branch *)

\* All of a chain is its writer's own, made before its n-th call.
Made(chain, w, n) == \A i \in DOMAIN chain : MadeBy(chain[i], w) /\ chain[i].op < n
Ordered(chain) == \A i, j \in DOMAIN chain : i < j => chain[i].op < chain[j].op

ChainsMade ==
    \A w \in Writers : /\ Sound(store[w].held, store[w].baseView)
                       /\ Made(store[w].held, w, ops[w])
                       /\ Ordered(store[w].held)
\* Between calls a chain holds only what may wait; at the tag it holds nothing.
ChainsWait ==
    \A w \in Writers :
        /\ flush[w].phase = "idle" => \A i \in DOMAIN store[w].held : Waits(store[w].held[i])
        /\ flush[w].phase = "tag" => store[w].held = <<>>
FlightMade ==
    \A p \in inflight : Sound(p.recs, origin.view) /\ Made(p.recs, p.by, ops[p.by])
\* What a call has sent holds all that its chain still holds.
SentMade ==
    \A w \in Writers : flush[w].phase \in {"push", "refused"} =>
        \A p \in flush[w].sent : /\ Made(p.recs, w, ops[w])
                                 /\ Ids(store[w].held) \subseteq Ids(p.recs)
LastMade ==
    /\ Made(origin.last.recs, origin.last.by, ops[origin.last.by])
    /\ Ids(origin.last.recs) \subseteq landed
\* What landed is on the branch, a marker as the very record that was sent.
LandedMade ==
    \A a \in landed : /\ a.op < ops[a.by]
                      /\ a.path \in Records => origin.view[a.path] # Absent
                      /\ a.path \in Markers => origin.view[a.path] = GrantOf(a)

MadeInv == ChainsMade /\ ChainsWait /\ FlightMade /\ SentMade /\ LastMade /\ LandedMade

LEMMA MadeLater ==
    ASSUME NEW chain \in Seq(HeldWrites), NEW w, NEW n \in Nat, NEW m \in Nat, n <= m,
           Made(chain, w, n)
    PROVE  Made(chain, w, m)
<1>1. \A i \in DOMAIN chain : chain[i].op \in Nat
  BY ChainDomain DEF HeldWrites
<1> QED BY <1>1 DEF Made

\* A record that joins a waiting chain leaves it sound.
LEMMA JoinSound ==
    ASSUME NEW view \in Views, NEW chain \in Seq(HeldWrites), Sound(chain, view),
           \A i \in DOMAIN chain : Waits(chain[i]),
           NEW w, NEW r \in HeldWrites, Joins(w, r, view, Over(view, chain))
    PROVE  Sound(Append(chain, r), view)
<1>1. \A i \in DOMAIN chain : chain[i] \in HeldWrites /\ chain[i].kind # "create"
  BY ChainDomain DEF Waits
<1>2. ASSUME r.kind = "create" PROVE view[r.path] = Absent
  <2>1. r.path \in Records
    BY <1>2 DEF Joins, Placed, HeldWrites
  <2> QED BY <1>2, <2>1, OverIsView DEF Joins
<1>3. ASSUME r.kind = "update" PROVE r.guard # Absent
  <2>1. r.path \in Records /\ r.path \notin Trackers
    BY <1>3 DEF Joins, Placed, HeldWrites
  <2>2. r.guard = view[r.path] /\ Over(view, chain)[r.path] # Absent
    BY <1>3 DEF Joins
  <2>3. CASE \A i \in DOMAIN chain : chain[i].path # r.path
    BY <2>1, <2>2, <2>3, OverUnwritten
  <2>4. CASE \E i \in DOMAIN chain : chain[i].path = r.path
    <3>1. PICK i \in DOMAIN chain : chain[i].path = r.path
      BY <2>4
    <3>2. Placed(chain[i]) /\ Guarded(chain[i], view)
      BY DEF Sound
    <3>3. chain[i].kind = "update"
      BY <1>1, <2>1, <3>1, <3>2 DEF Placed, HeldWrites
    <3> QED BY <2>2, <3>1, <3>2, <3>3 DEF Guarded
  <2> QED BY <2>3, <2>4
<1>4. Guarded(r, view)
  BY <1>2, <1>3 DEF Guarded, Joins
<1> QED BY <1>1, <1>4, SoundAppend DEF Joins

\* The same record at the end of a chain that is made and in order.
LEMMA JoinMade ==
    ASSUME NEW chain \in Seq(HeldWrites), NEW w, NEW n \in Nat,
           Made(chain, w, n), Ordered(chain),
           NEW r \in HeldWrites, MadeBy(r, w), r.op = n
    PROVE  Made(Append(chain, r), w, n + 1) /\ Ordered(Append(chain, r))
<1> DEFINE longer == Append(chain, r)
<1>1. /\ longer \in Seq(HeldWrites) /\ Len(longer) = Len(chain) + 1
      /\ \A i \in 1 .. Len(chain) : longer[i] = chain[i]
      /\ longer[Len(chain) + 1] = r
  BY AppendType
<1> HIDE DEF longer
<1>2. /\ DOMAIN longer = 1 .. Len(chain) + 1 /\ DOMAIN chain = 1 .. Len(chain)
      /\ Len(chain) \in Nat /\ \A i \in DOMAIN chain : chain[i].op \in Nat
  BY <1>1, ChainDomain DEF HeldWrites
<1>3. Made(longer, w, n + 1)
  <2> SUFFICES ASSUME NEW i \in 1 .. Len(chain) + 1
               PROVE  MadeBy(longer[i], w) /\ longer[i].op < n + 1
    BY <1>2 DEF Made
  <2>1. CASE i \in 1 .. Len(chain)
    BY <1>1, <1>2, <2>1 DEF Made
  <2>2. CASE i = Len(chain) + 1
    BY <1>1, <2>2
  <2> QED BY <1>2, <2>1, <2>2
<1>4. Ordered(longer)
  <2> SUFFICES ASSUME NEW i \in 1 .. Len(chain) + 1, NEW j \in 1 .. Len(chain) + 1, i < j
               PROVE  longer[i].op < longer[j].op
    BY <1>2 DEF Ordered
  <2>1. i \in 1 .. Len(chain) /\ longer[i] = chain[i]
    BY <1>1, <1>2
  <2>2. CASE j \in 1 .. Len(chain)
    BY <1>1, <1>2, <2>1, <2>2 DEF Ordered
  <2>3. CASE j = Len(chain) + 1
    BY <1>1, <1>2, <2>1, <2>3 DEF Made
  <2> QED BY <1>2, <2>2, <2>3
<1> QED BY <1>3, <1>4 DEF longer

LEMMA FrontMade ==
    ASSUME NEW chain \in Seq(HeldWrites), chain # <<>>, NEW w, NEW n,
           Made(chain, w, n), Ordered(chain)
    PROVE  Made(Front(chain), w, n) /\ Ordered(Front(chain))
<1>1. /\ DOMAIN Front(chain) = 1 .. Len(chain) - 1 /\ DOMAIN chain = 1 .. Len(chain)
      /\ Len(chain) \in Nat
  <2>1. Front(chain) \in Seq(HeldWrites) /\ Len(Front(chain)) = Len(chain) - 1
    BY FrontType
  <2> QED BY <2>1, ChainDomain
<1>2. \A i \in 1 .. Len(chain) - 1 : Front(chain)[i] = chain[i]
  BY FrontType
<1> QED BY <1>1, <1>2 DEF Made, Ordered

-----------------------------------------------------------------------------
(* Quiet steps keep it *)

LEMMA QuietFacts ==
    ASSUME IInv, IInv', NEW w \in Writers, Quiet(w)
    PROVE  /\ store[w].held \in Seq(HeldWrites) /\ store'[w].held \in Seq(HeldWrites)
           /\ store'[w].baseView \in Views
           /\ \A v \in Writers : ops[v] \in Nat /\ ops'[v] \in Nat /\ ops[v] <= ops'[v]
           /\ \A v \in Writers \ {w} : store'[v] = store[v] /\ flush'[v] = flush[v]
<1>1. store'[w] \in Stores
  BY IInvPartsNext
<1>2. \A v \in Writers : ops[v] \in Nat /\ ops'[v] \in Nat
  BY IInvParts, IInvPartsNext DEF RestOK
<1> QED BY <1>1, <1>2, StoreFacts DEF Stores, Quiet, OthersStay

LEMMA QuietChainsMade ==
    ASSUME IInv, IInv', MadeInv, NEW w \in Writers, Quiet(w)
    PROVE  ChainsMade'
<1> DEFINE s == store[w]
           t == store'[w]
<1>1. /\ s.held \in Seq(HeldWrites) /\ t.held \in Seq(HeldWrites) /\ t.baseView \in Views
      /\ ops[w] \in Nat /\ ops'[w] \in Nat /\ ops[w] <= ops'[w]
      /\ Sound(s.held, s.baseView) /\ Made(s.held, w, ops[w]) /\ Ordered(s.held)
  BY QuietFacts DEF MadeInv, ChainsMade
<1>2. Sound(t.held, t.baseView) /\ Made(t.held, w, ops'[w]) /\ Ordered(t.held)
  <2>1. CASE t.held = <<>>
    BY <2>1 DEF Sound, Made, Ordered
  <2>2. CASE t.held = s.held /\ t.baseView = s.baseView
    BY <1>1, <2>2, MadeLater
  <2>3. CASE Rebased(s, t)
    <3>1. \A i \in DOMAIN t.held : ~GuardLost(t.held[i], origin.view)
      BY <2>3 DEF Rebased
    <3>2. CASE t.held = s.held
      BY <1>1, <2>3, <3>1, <3>2, SoundRebase, MadeLater DEF Rebased
    <3>3. CASE t.held = Front(s.held) /\ s.held # <<>>
      <4>1. /\ Len(t.held) = Len(s.held) - 1 /\ Len(s.held) \in Nat
            /\ \A i \in 1 .. Len(t.held) : t.held[i] = s.held[i]
        BY <1>1, <3>3, FrontType, ChainDomain
      <4>2. Sound(t.held, s.baseView)
        <5>1. Len(t.held) <= Len(s.held)
          BY <4>1
        <5> QED BY <1>1, <4>1, <5>1, SoundFront
      <4>3. Made(t.held, w, ops[w]) /\ Ordered(t.held)
        BY <1>1, <3>3, FrontMade
      <4> QED BY <1>1, <2>3, <3>1, <4>2, <4>3, SoundRebase, MadeLater DEF Rebased
    <3> QED BY <2>3, <3>2, <3>3 DEF Rebased
  <2>4. CASE Grown(w, s, t)
    <3>1. PICK r \in HeldWrites :
               /\ t.held = Append(s.held, r)
               /\ Joins(w, r, t.baseView, Over(t.baseView, s.held))
      BY <2>4 DEF Grown
    <3>2. \A i \in DOMAIN s.held : Waits(s.held[i])
      BY <2>4 DEF Grown, Idle, MadeInv, ChainsWait
    <3>3. Sound(s.held, t.baseView)
      BY <1>1, <2>4, SoundEmpty DEF Grown
    <3>4. Sound(t.held, t.baseView)
      BY <1>1, <3>1, <3>2, <3>3, JoinSound
    <3>5. Made(t.held, w, ops[w] + 1) /\ Ordered(t.held)
      BY <1>1, <3>1, JoinMade DEF Joins
    <3> QED BY <2>4, <3>4, <3>5 DEF Grown
  <2> QED BY <2>1, <2>2, <2>3, <2>4 DEF Quiet, ChainMoves
<1>3. ASSUME NEW v \in Writers \ {w}
      PROVE  /\ Sound(store'[v].held, store'[v].baseView) /\ Made(store'[v].held, v, ops'[v])
             /\ Ordered(store'[v].held)
  <2>1. store'[v] = store[v] /\ ops[v] \in Nat /\ ops'[v] \in Nat /\ ops[v] <= ops'[v]
    BY QuietFacts
  <2>2. store[v].held \in Seq(HeldWrites)
    BY StoreFacts
  <2> QED BY <2>1, <2>2, MadeLater DEF MadeInv, ChainsMade
<1> QED BY <1>2, <1>3 DEF ChainsMade

LEMMA QuietChainsWait ==
    ASSUME IInv, IInv', MadeInv, NEW w \in Writers, Quiet(w)
    PROVE  ChainsWait'
<1> DEFINE s == store[w]
           t == store'[w]
<1>1. /\ s.held \in Seq(HeldWrites) /\ t.held \in Seq(HeldWrites)
      /\ FlushMoves(w, s, t, flush[w], flush'[w]) /\ ChainMoves(w, s, t)
  BY QuietFacts DEF Quiet
<1>2. flush'[w].phase = "tag" => t.held = <<>>
  BY <1>1 DEF FlushMoves, MadeInv, ChainsWait
<1>3. ASSUME flush'[w].phase = "idle", NEW i \in DOMAIN t.held
      PROVE  Waits(t.held[i])
  <2>1. t.held # <<>>
    BY <1>3
  <2>2. CASE flush[w].phase = "tag" /\ t.held = s.held
    BY <2>1, <2>2 DEF MadeInv, ChainsWait
  <2>3. CASE flush[w].phase = "idle"
    <3>1. \A j \in DOMAIN s.held : Waits(s.held[j])
      BY <2>3 DEF MadeInv, ChainsWait
    <3>2. CASE t.held = s.held
      BY <1>3, <3>1, <3>2
    <3>3. CASE t.held = Front(s.held) /\ s.held # <<>>
      <4>1. /\ Len(t.held) = Len(s.held) - 1 /\ Len(s.held) \in Nat
            /\ DOMAIN t.held = 1 .. Len(t.held) /\ DOMAIN s.held = 1 .. Len(s.held)
        BY <1>1, <3>3, FrontType, ChainDomain
      <4>2. \A j \in 1 .. Len(s.held) - 1 : t.held[j] = s.held[j]
        BY <1>1, <3>3, FrontType
      <4> QED BY <1>3, <3>1, <4>1, <4>2
    <3>4. CASE Grown(w, s, t)
      <4>1. PICK r \in HeldWrites : t.held = Append(s.held, r) /\ Waits(r)
        BY <1>3, <3>4 DEF Grown
      <4>2. /\ t.held[Len(s.held) + 1] = r /\ Len(t.held) = Len(s.held) + 1
            /\ \A j \in 1 .. Len(s.held) : t.held[j] = s.held[j]
        BY <1>1, <4>1, AppendType
      <4>3. /\ Len(s.held) \in Nat
            /\ DOMAIN t.held = 1 .. Len(t.held) /\ DOMAIN s.held = 1 .. Len(s.held)
        BY <1>1, ChainDomain
      <4> QED BY <1>3, <3>1, <4>1, <4>2, <4>3
    <3> QED BY <1>1, <2>1, <3>2, <3>3, <3>4 DEF ChainMoves, Rebased
  <2> QED BY <1>1, <1>3, <2>1, <2>2, <2>3 DEF FlushMoves
<1> QED BY <1>2, <1>3, QuietFacts DEF ChainsWait, MadeInv

LEMMA QuietFlightMade ==
    ASSUME IInv, IInv', MadeInv, NEW w \in Writers, Quiet(w)
    PROVE  FlightMade'
<1> SUFFICES ASSUME NEW p \in inflight'
             PROVE  Sound(p.recs, origin.view) /\ Made(p.recs, p.by, ops'[p.by])
  BY DEF FlightMade, Quiet
<1>1. p \in Pushes
  BY IInvPartsNext DEF RestOK
<1>2. /\ p.by \in Writers /\ p.recs \in Seq(HeldWrites)
      /\ ops[p.by] \in Nat /\ ops'[p.by] \in Nat /\ ops[p.by] <= ops'[p.by]
  BY <1>1, QuietFacts DEF Pushes
<1>3. CASE p \in inflight
  BY <1>2, <1>3, MadeLater DEF MadeInv, FlightMade
<1>4. CASE p = ThePush(w) /\ store[w].head = origin.ver
  <2>1. p.recs = store[w].held /\ p.by = w
    BY <1>4 DEF ThePush, Push
  <2>2. Sound(p.recs, store[w].baseView) /\ Made(p.recs, w, ops[w])
    BY <2>1 DEF MadeInv, ChainsMade
  <2>3. Sound(p.recs, origin.view)
    BY <1>4, <2>1, <2>2, StoreFacts, SoundEmpty
  <2> QED BY <1>2, <2>1, <2>2, <2>3, MadeLater
<1> QED BY <1>3, <1>4 DEF Quiet

LEMMA QuietSentMade ==
    ASSUME IInv, IInv', MadeInv, NEW w \in Writers, Quiet(w)
    PROVE  SentMade'
<1> DEFINE s == store[w]
           t == store'[w]
<1>1. ASSUME flush'[w].phase \in {"push", "refused"}, NEW p \in flush'[w].sent
      PROVE  Made(p.recs, w, ops'[w]) /\ Ids(t.held) \subseteq Ids(p.recs)
  <2>1. GoesOn(w, s, t, flush[w], flush'[w])
    BY <1>1 DEF Quiet, FlushMoves, Started
  <2>2. s.held \in Seq(HeldWrites) /\ s.held # <<>>
    BY <2>1, QuietFacts, IInvParts DEF GoesOn, Pushing
  <2>3. Ids(t.held) \subseteq Ids(s.held)
    BY <2>1, <2>2, IdsFront DEF GoesOn
  <2>4. p \in Pushes /\ p.recs \in Seq(HeldWrites)
    BY <1>1, IInvPartsNext DEF FlushOK, Flushes, Pushes
  <2>5. Made(p.recs, w, ops[w]) /\ Ids(s.held) \subseteq Ids(p.recs)
    <3>1. CASE p \in flush[w].sent
      BY <2>1, <3>1 DEF MadeInv, SentMade, GoesOn
    <3>2. CASE p = ThePush(w)
      BY <3>2 DEF ThePush, Push, MadeInv, ChainsMade
    <3> QED BY <1>1, <2>1, <3>1, <3>2 DEF GoesOn
  <2> QED BY <2>3, <2>4, <2>5, QuietFacts, MadeLater
<1>2. ASSUME NEW v \in Writers \ {w}, flush'[v].phase \in {"push", "refused"},
             NEW p \in flush'[v].sent
      PROVE  Made(p.recs, v, ops'[v]) /\ Ids(store'[v].held) \subseteq Ids(p.recs)
  <2>1. store'[v] = store[v] /\ flush'[v] = flush[v]
    BY QuietFacts
  <2>2. p.recs \in Seq(HeldWrites)
    BY <1>2, IInvPartsNext DEF FlushOK, Flushes, Pushes
  <2>3. Made(p.recs, v, ops[v]) /\ Ids(store[v].held) \subseteq Ids(p.recs)
    BY <1>2, <2>1 DEF MadeInv, SentMade
  <2> QED BY <2>1, <2>2, <2>3, QuietFacts, MadeLater
<1> QED BY <1>1, <1>2 DEF SentMade

LEMMA QuietMade ==
    ASSUME IInv, IInv', MadeInv, NEW w \in Writers, Quiet(w)
    PROVE  MadeInv'
<1>1. LastMade'
  <2>1. origin.last.by \in Writers /\ origin.last.recs \in Seq(HeldWrites)
    BY IInvParts DEF RestOK, Branches, Pushes
  <2>2. Made(origin.last.recs, origin.last.by, ops'[origin.last.by])
    BY <2>1, QuietFacts, MadeLater DEF MadeInv, LastMade
  <2> QED BY <2>2 DEF LastMade, MadeInv, Quiet
<1>2. LandedMade'
  <2> SUFFICES ASSUME NEW a \in landed PROVE a.op < ops'[a.by]
    BY DEF LandedMade, MadeInv, Quiet
  <2>1. a.by \in Writers /\ a.op \in Nat
    BY IInvParts DEF RestOK, RecordIds
  <2> QED BY <2>1, QuietFacts DEF LandedMade, MadeInv
<1> QED BY <1>1, <1>2, QuietChainsMade, QuietChainsWait, QuietFlightMade, QuietSentMade DEF MadeInv

-----------------------------------------------------------------------------
(* Landings keep it *)

\* What the branch shows after a landing of what fits on it.
LEMMA LandsInFull ==
    ASSUME NEW view \in Views, NEW chain \in Seq(HeldWrites), Sound(chain, view),
           NEW i \in DOMAIN chain, chain[i].path \in Records
    PROVE  /\ Over(view, chain)[chain[i].path] # Absent
           /\ chain[i].path \in Markers =>
                 Over(view, chain)[chain[i].path] = GrantOf(Id(chain[i]))
<1> DEFINE p == chain[i].path
<1>1. PICK k \in DOMAIN chain : /\ chain[k].path = p
                                /\ \A j \in DOMAIN chain : chain[j].path = p => j <= k
  BY LastOfPath
<1>2. Over(view, chain)[p] = chain[k].blob
  BY <1>1, OverWritten
<1>3. chain[k].blob # Absent
  <2>1. chain[k] \in HeldWrites
    BY ChainDomain
  <2>2. chain[k].blob \in Blobs
    BY <2>1 DEF HeldWrites
  <2> QED BY <2>2, ConstantsAssumption
<1>4. ASSUME p \in Markers PROVE k = i /\ chain[i].blob = GrantOf(Id(chain[i]))
  BY <1>1, <1>4 DEF Sound, Placed, Alone
<1> QED BY <1>2, <1>3, <1>4

LEMMA ArriveMade ==
    ASSUME IInv, MadeInv, NEW push \in Pushes, Arrive(push), UNCHANGED ops,
           Sound(push.recs, origin.view), Made(push.recs, push.by, ops[push.by])
    PROVE  FlightMade' /\ LastMade' /\ LandedMade'
<1>1. /\ origin'.view = Over(origin.view, push.recs) /\ inflight' = {}
      /\ origin'.last = push /\ landed' = landed \cup Ids(push.recs)
  BY ArriveInv DEF Arrive
<1>2. origin.view \in Views /\ push.recs \in Seq(HeldWrites)
  BY IInvParts DEF RestOK, Branches, Pushes
<1>3. FlightMade' /\ LastMade'
  BY <1>1 DEF FlightMade, LastMade
<1>4. ASSUME NEW a \in landed
      PROVE  /\ a.op < ops[a.by]
             /\ a.path \in Records => origin'.view[a.path] # Absent
             /\ a.path \in Markers => origin'.view[a.path] = GrantOf(a)
  <2>1. /\ a.op < ops[a.by]
        /\ a.path \in Records => origin.view[a.path] # Absent
        /\ a.path \in Markers => origin.view[a.path] = GrantOf(a)
    BY <1>4 DEF MadeInv, LandedMade
  <2>2. a.path \in Records => origin'.view[a.path] # Absent
    BY <1>1, <1>2, <2>1, OverIsView
  <2>3. ASSUME a.path \in Markers PROVE origin'.view[a.path] = GrantOf(a)
    <3>1. a.path \in Records
      BY <2>3 DEF Records
    <3>2. \A i \in DOMAIN push.recs : push.recs[i].path # a.path
      BY <2>1, <2>3, <3>1 DEF Sound, Placed, Guarded
    <3> QED BY <1>1, <2>1, <2>3, <3>1, <3>2, OverUnwritten
  <2> QED BY <2>1, <2>2, <2>3
<1>5. ASSUME NEW a \in Ids(push.recs)
      PROVE  /\ a.op < ops[a.by]
             /\ a.path \in Records => origin'.view[a.path] # Absent
             /\ a.path \in Markers => origin'.view[a.path] = GrantOf(a)
  <2>1. PICK i \in DOMAIN push.recs : a = Id(push.recs[i])
    BY <1>5, IdsOf
  <2>2. a.path = push.recs[i].path /\ a.by = push.recs[i].by /\ a.op = push.recs[i].op
    BY <2>1 DEF Id
  <2>3. push.recs[i].by = push.by /\ push.recs[i].op < ops[push.by]
    BY DEF Made, MadeBy
  <2> QED BY <1>1, <1>2, <2>1, <2>2, <2>3, LandsInFull DEF Records
<1>6. LandedMade'
  BY <1>1, <1>4, <1>5 DEF LandedMade
<1> QED BY <1>3, <1>6

\* A writer that is told of a landing has an empty chain.
LEMMA LandFacts ==
    ASSUME IInv, NEW w \in Writers, NEW s \in Stores, Land(w, s)
    PROVE  /\ store'[w].held = <<>> /\ store'[w].head = s.head
           /\ store'[w].view = s.view /\ store'[w].fetched = s.fetched
           /\ \A v \in Writers \ {w} : store'[v] = store[v] /\ flush'[v] = flush[v]
           /\ flush'[w].phase \in {"idle", "tag"}
           /\ flush'[w].phase = "tag" => \/ flush[w].call = "tag"
                                         \/ flush[w].call = "final" /\ flush[w].lost = ""
           /\ acked' = acked \cup Ids(store[w].held)
<1> DEFINE t == Landed(s)
<1>1. /\ t \in Stores /\ t.held = <<>> /\ t.head = s.head /\ t.view = s.view
      /\ t.fetched = s.fetched
  BY NoChain DEF Landed, Stores
<1> HIDE DEF t
<1>2. acked' = acked \cup Ids(store[w].held)
  BY DEF Land
<1>3. CASE /\ EndsRun(w)
           /\ StoreIs(w, t)
           /\ flush' = [flush EXCEPT ![w].phase = "tag"]
  <2>1. store'[w] = t /\ \A v \in Writers \ {w} : store'[v] = store[v]
    BY <1>3, StoreIsW
  <2>2. flush'[w].phase = "tag" /\ \A v \in Writers \ {w} : flush'[v] = flush[v]
    BY <1>3, IInvParts DEF FlushOK, Flushes
  <2> QED BY <1>1, <1>2, <1>3, <2>1, <2>2 DEF EndsRun
<1>4. CASE EndFlush(w, t)
  <2>1. PICK u : u = [t EXCEPT !.holding = @ /\ flush[w].call # "release"]
    OBVIOUS
  <2>2. store'[w] = u /\ \A v \in Writers \ {w} : store'[v] = store[v]
    BY <1>4, <2>1, StoreIsW DEF EndFlush
  <2>3. u.held = t.held /\ u.head = t.head /\ u.view = t.view /\ u.fetched = t.fetched
    BY <1>1, <2>1 DEF Stores
  <2>4. flush'[w].phase = "idle" /\ \A v \in Writers \ {w} : flush'[v] = flush[v]
    BY <1>4, IInvParts DEF EndFlush, NotFlushing, FlushOK
  <2> QED BY <1>1, <1>2, <2>2, <2>3, <2>4
<1> QED BY <1>3, <1>4 DEF Land, t

\* The rest of the invariant, where a chain that was emptied is all that changed.
LEMMA EmptiedMade ==
    ASSUME IInv, MadeInv, NEW w \in Writers, UNCHANGED ops,
           store'[w].held = <<>>, flush'[w].phase \in {"idle", "tag"},
           \A v \in Writers \ {w} : store'[v] = store[v] /\ flush'[v] = flush[v]
    PROVE  ChainsMade' /\ ChainsWait' /\ SentMade'
<1>1. ChainsMade'
  <2> SUFFICES ASSUME NEW v \in Writers
               PROVE  /\ Sound(store'[v].held, store'[v].baseView)
                      /\ Made(store'[v].held, v, ops[v]) /\ Ordered(store'[v].held)
    BY DEF ChainsMade
  <2>1. CASE v = w
    BY <2>1 DEF Sound, Made, Ordered
  <2>2. CASE v # w
    BY <2>2 DEF MadeInv, ChainsMade
  <2> QED BY <2>1, <2>2
<1>2. ChainsWait'
  <2> SUFFICES ASSUME NEW v \in Writers
               PROVE  /\ flush'[v].phase = "idle" =>
                            \A i \in DOMAIN store'[v].held : Waits(store'[v].held[i])
                      /\ flush'[v].phase = "tag" => store'[v].held = <<>>
    BY DEF ChainsWait
  <2>1. CASE v = w
    BY <2>1
  <2>2. CASE v # w
    BY <2>2 DEF MadeInv, ChainsWait
  <2> QED BY <2>1, <2>2
<1>3. SentMade'
  <2> SUFFICES ASSUME NEW v \in Writers, flush'[v].phase \in {"push", "refused"},
                      NEW p \in flush'[v].sent
               PROVE  Made(p.recs, v, ops[v]) /\ Ids(store'[v].held) \subseteq Ids(p.recs)
    BY DEF SentMade
  <2>1. v # w
    OBVIOUS
  <2> QED BY <2>1 DEF MadeInv, SentMade
<1> QED BY <1>1, <1>2, <1>3

\* The chain of an acknowledged push fitted on the branch it landed on.
LEMMA AckedPush ==
    ASSUME IInv, MadeInv, NEW w \in Writers, PushAcked(w)
    PROVE  /\ ThePush(w) \in Pushes /\ ThePush(w).recs = store[w].held /\ ThePush(w).by = w
           /\ Sound(store[w].held, origin.view) /\ Made(store[w].held, w, ops[w])
<1>1. Sound(store[w].held, store[w].baseView) /\ Made(store[w].held, w, ops[w])
  BY DEF MadeInv, ChainsMade
<1>2. Sound(store[w].held, origin.view)
  BY <1>1, StoreFacts, SoundEmpty DEF PushAcked
<1> QED BY <1>1, <1>2, PushType DEF ThePush, Push

LEMMA AckedHead ==
    ASSUME IInv, NEW w \in Writers, NEW s, s = [store[w] EXCEPT !.head = origin.ver + 1]
    PROVE  /\ s \in Stores /\ s.head = origin.ver + 1 /\ s.view = store[w].view
           /\ s.fetched = store[w].fetched
BY StoreFacts DEF Stores, Branches

LEMMA PushAckedMade ==
    ASSUME IInv, MadeInv, NEW w \in Writers, PushAcked(w)
    PROVE  MadeInv'
<1>1. PICK s : s = [store[w] EXCEPT !.head = origin.ver + 1]
  OBVIOUS
<1>2. s \in Stores /\ Land(w, s) /\ Arrive(ThePush(w)) /\ ops' = ops
  BY <1>1, AckedHead DEF PushAcked
<1>3. FlightMade' /\ LastMade' /\ LandedMade'
  BY <1>2, AckedPush, ArriveMade
<1>4. ChainsMade' /\ ChainsWait' /\ SentMade'
  BY <1>2, LandFacts, EmptiedMade
<1> QED BY <1>3, <1>4 DEF MadeInv

LEMMA OwnLandedMade ==
    ASSUME IInv, MadeInv, NEW w \in Writers, OwnLanded(w)
    PROVE  MadeInv'
<1>1. PICK s : s = Fetched(store[w])
  OBVIOUS
<1>2. s \in Stores
  BY <1>1, StoreFacts DEF Fetched, Stores, Branches
<1>3. /\ Land(w, s) /\ ops' = ops /\ origin' = origin /\ inflight' = inflight
      /\ landed' = landed
  BY <1>1 DEF OwnLanded, remote
<1>4. ChainsMade' /\ ChainsWait' /\ SentMade'
  BY <1>2, <1>3, LandFacts, EmptiedMade
<1> QED BY <1>3, <1>4 DEF MadeInv, FlightMade, LastMade, LandedMade

LEMMA LateArrivalMade ==
    ASSUME IInv, MadeInv, NEW push \in inflight, LateArrival(push)
    PROVE  MadeInv'
<1>1. push \in Pushes /\ Sound(push.recs, origin.view) /\ Made(push.recs, push.by, ops[push.by])
  BY IInvParts DEF RestOK, MadeInv, FlightMade
<1>2. Arrive(push) /\ ops' = ops /\ store' = store /\ flush' = flush
  BY DEF LateArrival
<1>3. FlightMade' /\ LastMade' /\ LandedMade'
  BY <1>1, <1>2, ArriveMade
<1> QED BY <1>2, <1>3 DEF MadeInv, ChainsMade, ChainsWait, SentMade

LEMMA InitMade == Init => MadeInv
<1> SUFFICES ASSUME Init PROVE MadeInv
  OBVIOUS
<1>1. /\ \A w \in Writers : store[w].held = <<>> /\ flush[w].phase = "idle"
      /\ origin.last.recs = <<>> /\ inflight = {} /\ landed = {}
  BY DEF Init, Opened, NotFlushing, NoPush
<1>2. ChainsMade /\ ChainsWait
  BY <1>1, SoundEmpty DEF ChainsMade, ChainsWait, Made, Ordered
<1>3. FlightMade /\ SentMade /\ LandedMade
  BY <1>1 DEF FlightMade, SentMade, LandedMade
<1>4. LastMade
  BY <1>1 DEF LastMade, Made, Ids
<1> QED BY <1>2, <1>3, <1>4 DEF MadeInv

LEMMA NextMade == IInv /\ IInv' /\ MadeInv /\ [Next]_vars => MadeInv'
<1> SUFFICES ASSUME IInv, IInv', MadeInv, [Next]_vars PROVE MadeInv'
  OBVIOUS
<1>1. CASE UNCHANGED vars
  BY <1>1 DEF vars, remote, histories, MadeInv, ChainsMade, ChainsWait, FlightMade,
              SentMade, LastMade, LandedMade
<1> QED BY <1>1, StepKinds, QuietMade, PushAckedMade, OwnLandedMade, LateArrivalMade

\* Every chain, waiting, on its way or arrived, fits on what it is based on.
THEOREM ChainsFit == Spec => []MadeInv
BY InitMade, NextMade, Invariance, PTL DEF Spec

-----------------------------------------------------------------------------
(* No update is lost *)

LEMMA ArriveAdvances ==
    ASSUME IInv, NEW push \in Pushes, Arrive(push), Sound(push.recs, origin.view),
           NEW p \in Advancing
    PROVE  Rank(p, origin'.view[p]) = Rank(p, origin.view[p])
                                        + Written(push.recs, p, Len(push.recs))
<1>1. origin'.view = Over(origin.view, push.recs)
  BY ArriveInv
<1>2. origin.view \in Views /\ push.recs \in Seq(HeldWrites)
  BY IInvParts DEF RestOK, Branches, Pushes
<1> QED BY <1>1, <1>2, RankOver

\* A step that moves the branch lands a push that fits on it.
LEMMA BranchMoves ==
    ASSUME IInv, MadeInv, [Next]_vars, origin' # origin
    PROVE  \E push \in Pushes : Arrive(push) /\ Sound(push.recs, origin.view)
<1>1. ~ UNCHANGED vars
  BY DEF vars, remote
<1>2. ASSUME NEW w \in Writers, PushAcked(w)
      PROVE  \E push \in Pushes : Arrive(push) /\ Sound(push.recs, origin.view)
  <2>1. /\ ThePush(w) \in Pushes /\ Arrive(ThePush(w))
        /\ Sound(ThePush(w).recs, origin.view)
    BY <1>2, AckedPush DEF PushAcked
  <2> QED BY <2>1
<1>3. ASSUME NEW push \in inflight, LateArrival(push)
      PROVE  push \in Pushes /\ Arrive(push) /\ Sound(push.recs, origin.view)
  BY <1>3, IInvParts DEF RestOK, MadeInv, FlightMade, LateArrival
<1> QED BY <1>1, <1>2, <1>3, StepKinds DEF Quiet, OwnLanded, remote

\* No update is lost: the branch's checkpoint and its sheets advance by exactly
\* the records of the push that lands (held.go, flush; store.go, UpdateIfSHA).
THEOREM UpdatesAreKept == Spec => NoLostUpdate
<1> DEFINE written(p) == Cardinality({i \in DOMAIN origin'.last.recs :
                                         origin'.last.recs[i].path = p})
           seq(b)     == IF b = Absent THEN 0 ELSE b.seq
           new(p, b)  == IF p \in Registers /\ b = Absent THEN 1 ELSE 0
<1>1. ASSUME IInv, MadeInv, [Next]_vars, origin' # origin, NEW p \in Advancing
      PROVE  seq(origin'.view[p]) + new(p, origin.view[p])
               = seq(origin.view[p]) + written(p) + new(p, origin'.view[p])
  <2>1. PICK push \in Pushes : Arrive(push) /\ Sound(push.recs, origin.view)
    BY <1>1, BranchMoves
  <2>2. origin' \in Branches /\ origin \in Branches /\ origin'.last = push /\ p \in Records
    BY <1>1, <2>1, ArriveInv, IInvParts, AdvancingPaths DEF RestOK, Arrive
  <2>3. push.recs \in Seq(HeldWrites)
    BY DEF Pushes
  <2>4. written(p) = Written(push.recs, p, Len(push.recs))
    BY <2>2, <2>3, ChainDomain DEF Written, WrittenAt
  <2>5. Rank(p, origin'.view[p]) = Rank(p, origin.view[p]) + written(p)
    BY <1>1, <2>1, <2>4, ArriveAdvances
  <2>6. /\ origin.view[p] \in Blobs \cup {Absent} /\ origin'.view[p] \in Blobs \cup {Absent}
        /\ written(p) \in Nat
    BY <2>2, <2>3, <2>4, WrittenType, ChainDomain DEF Branches, Views
  <2> HIDE DEF written
  <2> QED BY <1>1, <2>5, <2>6, ConstantsAssumption DEF Rank, Blobs, Advancing
<1>2. IInv /\ MadeInv /\ [Next]_vars =>
        [origin' # origin =>
           \A p \in Registers \cup {Checkpoint} :
              LET w == Cardinality({i \in DOMAIN origin'.last.recs :
                                       origin'.last.recs[i].path = p})
                  s(b)  == IF b = Absent THEN 0 ELSE b.seq
                  n(b)  == IF p \in Registers /\ b = Absent THEN 1 ELSE 0
              IN  s(origin'.view[p]) + n(origin.view[p])
                     = s(origin.view[p]) + w + n(origin'.view[p])]_vars
  BY <1>1 DEF Advancing
<1> QED BY <1>2, Invariance, ChainsFit, PTL DEF Spec, NoLostUpdate

=============================================================================
