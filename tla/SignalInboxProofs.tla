------------------------- MODULE SignalInboxProofs -------------------------
(***************************************************************************)
(* Theorems about SignalInbox for every set of signals and ids, every way  *)
(* of drawing candidates, every limit, and with every fault allowed: a     *)
(* signal whose PUTs were answered is filed at most once, is not on record *)
(* while its draft is pending, and is found at its claim's candidates; and *)
(* what is lost is what it takes to file one twice.                        *)
(***************************************************************************)
EXTENDS SignalInbox, TLAPS

-----------------------------------------------------------------------------
(* The inductive invariant *)

\* Who is in line is being committed, once, and nothing of his is on record
\* until the PUT of the first one has created it.
InLineIsCommitting == \A k \in 1..Len(line) : draft[line[k].sig] = "committing"

OncePerLine == \A j, k \in 1..Len(line) : line[j].sig = line[k].sig => j = k

NotYetWritten ==
    \A k \in 1..Len(line) : line[k].sig \in Clear =>
        (k = 1 /\ turn.answer = "created") \/ Of(line[k].sig) = {}

\* One press at a time asks about a draft, one that is committing, that is not
\* in line, and whose record is at no candidate read so far.
AskedIsStranded ==
    \A r \in asking :
        draft[r.sig] = "committing" /\ r.cands = cands[r.sig] /\ ~InLine(r.sig)

OneAsker == \A q, r \in asking : q.sig = r.sig => q = r

NotHereSoFar ==
    \A r \in asking : r.sig \in Clear =>
        \A j \in 1..Width : j < r.at => tracker[r.cands[j]] # r.sig

AnswerIsReal == line # <<>> /\ turn.answer = "created" => tracker[Target] = Current

LateIsBlurred == \A p \in late : p[1] \in blurred

Filing == FiledOnce /\ PendingIsUnfiled /\ ClaimNamesItsTick /\ FiledIsOnRecord
Lining == InLineIsCommitting /\ OncePerLine /\ NotYetWritten /\ AnswerIsReal
Asking == AskedIsStranded /\ OneAsker /\ NotHereSoFar

IInv == TypeOK /\ Filing /\ Lining /\ Asking /\ LateIsBlurred

-----------------------------------------------------------------------------
(* Sequences *)

LEMMA Appended ==
    ASSUME NEW S, NEW q \in Seq(S), NEW e \in S
    PROVE  /\ Append(q, e) \in Seq(S) /\ Len(Append(q, e)) = Len(q) + 1
           /\ \A k \in 1..Len(q) : Append(q, e)[k] = q[k]
           /\ Append(q, e)[Len(q) + 1] = e
OBVIOUS

LEMMA Rest ==
    ASSUME NEW S, NEW q \in Seq(S), q # <<>>
    PROVE  /\ Tail(q) \in Seq(S) /\ Len(Tail(q)) = Len(q) - 1
           /\ Len(q) \in Nat /\ 1 \in 1..Len(q) /\ q[1] \in S
           /\ \A k \in 1..Len(Tail(q)) : k + 1 \in 1..Len(q) /\ Tail(q)[k] = q[k + 1]
OBVIOUS

-----------------------------------------------------------------------------
(* The initial states *)

LEMMA InitIInv == Init => IInv
<1> SUFFICES ASSUME Init PROVE IInv
  OBVIOUS
<1>1. TypeOK
  <2>1. line \in Seq(Claims) /\ Len(line) = 0
    BY DEF Init
  <2>2. First \in Turns
    BY ConstantsAssumption DEF First, Turns, Answers
  <2> QED BY <2>1, <2>2, ConstantsAssumption DEF Init, TypeOK, States, Filed
<1>2. \A s \in Signals : Of(s) = {}
  BY ConstantsAssumption DEF Init, Of
<1>3. Filing
  BY <1>2 DEF Init, Filing, FiledOnce, PendingIsUnfiled, ClaimNamesItsTick, FiledIsOnRecord,
     Clear, Filed
<1>4. Lining /\ Asking /\ LateIsBlurred
  BY DEF Init, Lining, Asking, InLineIsCommitting, OncePerLine, NotYetWritten, AnswerIsReal,
     AskedIsStranded, OneAsker, NotHereSoFar, LateIsBlurred
<1> QED BY <1>1, <1>3, <1>4 DEF IInv

-----------------------------------------------------------------------------
(* The press *)

LEMMA SubmitKeeps == ASSUME IInv, NEW s \in Signals, Submit(s) PROVE IInv'
<1> USE DEF row, chain
<1>1. TypeOK'
  BY DEF IInv, Submit, TypeOK, States, Filed
<1>2. Filing'
  BY DEF IInv, Filing, Submit, TypeOK, FiledOnce, PendingIsUnfiled, ClaimNamesItsTick,
     FiledIsOnRecord, Clear, Filed, Of
<1>3. Lining'
  BY DEF IInv, Lining, Submit, TypeOK, InLineIsCommitting, OncePerLine, NotYetWritten,
     AnswerIsReal, Clear, Of, Target, Current
<1>4. Asking'
  BY DEF IInv, Asking, Submit, TypeOK, AskedIsStranded, OneAsker, NotHereSoFar, Clear, InLine
<1>5. LateIsBlurred'
  BY DEF IInv, Submit, LateIsBlurred
<1> QED BY <1>1, <1>2, <1>3, <1>4, <1>5 DEF IInv

\* What the press decides about a draft that has no record.
LEMMA DecideKeeps ==
    ASSUME IInv, NEW s \in Signals, NEW a \in Actions, Decide(s, a),
           draft[s] \in {"pending", "committing"}, ~InLine(s),
           s \in Clear => Of(s) = {},
           \A r \in asking' : r \in asking /\ r.sig # s,
           UNCHANGED <<tick, tracker, late, blurred>>
    PROVE  IInv'
<1>1. LateIsBlurred'
  BY DEF IInv, LateIsBlurred
<1>2. ASSUME NEW d \in {"discarded", "pending"},
             draft' = [draft EXCEPT ![s] = d], cands' = [cands EXCEPT ![s] = Nothing],
             UNCHANGED chain
      PROVE  IInv'
  <2> USE <1>2 DEF chain
  <2>1. TypeOK'
    BY DEF IInv, TypeOK, States, Filed
  <2>2. Filing'
    BY DEF IInv, Filing, TypeOK, FiledOnce, PendingIsUnfiled, ClaimNamesItsTick,
       FiledIsOnRecord, Clear, Filed, Of
  <2>3. Lining'
    BY DEF IInv, Lining, TypeOK, InLineIsCommitting, OncePerLine, NotYetWritten,
       AnswerIsReal, Clear, Of, Target, Current, InLine
  <2>4. Asking'
    BY DEF IInv, Asking, TypeOK, AskedIsStranded, OneAsker, NotHereSoFar, Clear, InLine
  <2> QED BY <1>1, <2>1, <2>2, <2>3, <2>4 DEF IInv
<1>3. ASSUME a # "discard", Claim(s, a) PROVE IInv'
  <2>1. PICK c \in Candidates : cands' = [cands EXCEPT ![s] = c]
    BY <1>3 DEF Claim
  <2>2. /\ draft' = [draft EXCEPT ![s] = "committing"]
        /\ line' = Append(line, [sig |-> s, action |-> a])
        /\ turn' = IF line = <<>> THEN First ELSE turn
    BY <1>3 DEF Claim
  <2>3. [sig |-> s, action |-> a] \in Claims /\ line \in Seq(Claims) /\ Len(line) \in Nat
    BY <1>3 DEF Claims, Actions, IInv, TypeOK
  <2>4. /\ line' \in Seq(Claims) /\ Len(line') = Len(line) + 1
        /\ \A k \in 1..Len(line) : line'[k] = line[k]
        /\ line'[Len(line) + 1].sig = s
    BY <2>2, <2>3, Appended
  <2>5. First \in Turns
    BY ConstantsAssumption DEF First, Turns, Answers
  <2>6. TypeOK'
    BY <2>1, <2>2, <2>4, <2>5, ConstantsAssumption DEF IInv, TypeOK, States, Filed
  <2>7. Filing'
    BY <2>1, <2>2 DEF IInv, Filing, TypeOK, FiledOnce, PendingIsUnfiled, ClaimNamesItsTick,
       FiledIsOnRecord, Clear, Filed, Of
  <2>8. \A k \in 1..Len(line') : (k \in 1..Len(line) /\ line'[k] = line[k] /\ line[k].sig # s)
                                  \/ (k = Len(line) + 1 /\ line'[k].sig = s)
    BY <2>3, <2>4 DEF InLine
  <2>9. Lining'
    <3>1. InLineIsCommitting'
      BY <2>2, <2>8 DEF IInv, Lining, TypeOK, InLineIsCommitting
    <3>2. OncePerLine'
      BY <2>3, <2>8 DEF IInv, Lining, OncePerLine
    <3>3. NotYetWritten'
      <4> SUFFICES ASSUME NEW k \in 1..Len(line'), line'[k].sig \in Clear'
                   PROVE  (k = 1 /\ turn'.answer = "created") \/ (Of(line[k].sig))' = {}
        BY DEF NotYetWritten
      <4>1. CASE k \in 1..Len(line) /\ line'[k] = line[k]
        <5>1. line # <<>>
          BY <4>1, <2>3
        <5> QED BY <4>1, <5>1, <2>2 DEF IInv, Lining, NotYetWritten, Clear, Of
      <4>2. CASE line'[k].sig = s
        BY <4>2 DEF Clear, Of
      <4> QED BY <2>8, <4>1, <4>2
    <3>4. AnswerIsReal'
      <4>1. CASE line = <<>>
        BY <4>1, <2>2 DEF AnswerIsReal, First
      <4>2. CASE line # <<>>
        <5>1. 1 \in 1..Len(line) /\ line[1] \in Claims
          BY <4>2, <2>3, Rest
        <5>2. line'[1] = line[1] /\ line[1].sig # s /\ line[1].sig \in Signals
          BY <5>1, <2>4 DEF InLine, Claims
        <5> QED BY <4>2, <5>2, <2>1, <2>2 DEF IInv, Lining, AnswerIsReal, Target, Current, TypeOK
      <4> QED BY <4>1, <4>2
    <3> QED BY <3>1, <3>2, <3>3, <3>4 DEF Lining
  <2>10. Asking'
    <3>1. \A r \in asking' : ~(InLine(r.sig))'
      BY <2>8 DEF IInv, Asking, AskedIsStranded, InLine
    <3> QED BY <3>1, <2>1, <2>2 DEF IInv, Asking, TypeOK, AskedIsStranded, OneAsker,
            NotHereSoFar, Clear
  <2> QED BY <1>1, <2>6, <2>7, <2>9, <2>10 DEF IInv
<1> QED BY <1>2, <1>3 DEF Decide, Discard, Defer, Actions

LEMMA PressKeeps == ASSUME IInv, NEW s \in Signals, NEW a \in Actions, Press(s, a) PROVE IInv'
<1>1. draft[s] = "pending" /\ Decide(s, a) /\ UNCHANGED <<tick, asking, tracker, late, blurred>>
  BY DEF Press
<1>2. ~InLine(s)
  BY <1>1 DEF IInv, Lining, InLineIsCommitting, InLine
<1>3. s \in Clear => Of(s) = {}
  BY <1>1 DEF IInv, Filing, PendingIsUnfiled
<1>4. \A r \in asking' : r \in asking /\ r.sig # s
  BY <1>1 DEF IInv, Asking, AskedIsStranded
<1> QED BY <1>1, <1>2, <1>3, <1>4, DecideKeeps

LEMMA AskKeeps == ASSUME IInv, NEW s \in Signals, NEW a \in Actions, Ask(s, a) PROVE IInv'
<1> DEFINE r == [sig |-> s, action |-> a, cands |-> cands[s], at |-> 1]
<1>1. /\ draft[s] = "committing" /\ ~InLine(s) /\ \A q \in asking : q.sig # s
      /\ asking' = asking \cup {r}
      /\ UNCHANGED <<row, chain, tracker, late, blurred>>
  BY DEF Ask, Stranded, Live
<1>2. r \in Asks
  BY <1>1, ConstantsAssumption DEF IInv, TypeOK, Asks
<1>3. r.sig = s /\ r.cands = cands[s] /\ r.at = 1
  OBVIOUS
<1> HIDE DEF r
<1> USE <1>1 DEF row, chain
<1>4. TypeOK'
  BY <1>2 DEF IInv, TypeOK
<1>5. Filing' /\ Lining' /\ LateIsBlurred'
  BY DEF IInv, Filing, FiledOnce, PendingIsUnfiled, ClaimNamesItsTick, FiledIsOnRecord, Clear, Of,
     Lining, InLineIsCommitting, OncePerLine, NotYetWritten, AnswerIsReal, Target, Current,
     LateIsBlurred
<1>6. Asking'
  BY <1>3, ConstantsAssumption
     DEF IInv, Asking, AskedIsStranded, OneAsker, NotHereSoFar, InLine, Clear
<1> QED BY <1>4, <1>5, <1>6 DEF IInv

-----------------------------------------------------------------------------
(* A read *)

\* Presses that stop asking, or go on, disturb nothing but the presses asking.
LEMMA OnlyAsking ==
    ASSUME IInv, UNCHANGED <<row, chain, tracker, late, blurred>>
    PROVE  Filing' /\ Lining' /\ LateIsBlurred' /\ (asking' \subseteq Asks => TypeOK')
BY DEF IInv, Filing, FiledOnce, PendingIsUnfiled, ClaimNamesItsTick, FiledIsOnRecord, Clear, Of,
   Lining, InLineIsCommitting, OncePerLine, NotYetWritten, AnswerIsReal, Target, Current,
   LateIsBlurred, TypeOK, row, chain

LEMMA FoundKeeps ==
    ASSUME IInv, NEW r \in asking, Found(r), UNCHANGED <<tracker, late, blurred>>
    PROVE  IInv'
<1> DEFINE s == r.sig
           id == r.cands[r.at]
<1>1. s \in Signals /\ id \in Ids /\ draft[s] = "committing" /\ ~InLine(s)
  BY ConstantsAssumption DEF IInv, TypeOK, Asks, Asking, AskedIsStranded
<1>2. /\ tracker[id] = s
      /\ draft' = [draft EXCEPT ![s] = "created"]
      /\ tick' = [tick EXCEPT ![s] = id] /\ cands' = [cands EXCEPT ![s] = Nothing]
      /\ asking' = asking \ {r} /\ UNCHANGED <<line, turn, tracker, late, blurred>>
  BY DEF Found, RecordCommitted, chain
<1>3. \A q \in asking' : q \in asking /\ q.sig # s
  BY <1>2 DEF IInv, Asking, OneAsker
<1> HIDE DEF s, id
<1>4. TypeOK'
  BY <1>1, <1>2, ConstantsAssumption DEF IInv, TypeOK, States, Filed
<1>5. Filing'
  BY <1>1, <1>2 DEF IInv, Filing, TypeOK, FiledOnce, PendingIsUnfiled, ClaimNamesItsTick,
     FiledIsOnRecord, Clear, Filed, Of
<1>6. Lining'
  <2>1. InLineIsCommitting'
    BY <1>1, <1>2 DEF IInv, Lining, TypeOK, InLineIsCommitting, InLine
  <2>2. OncePerLine' /\ NotYetWritten'
    BY <1>2 DEF IInv, Lining, OncePerLine, NotYetWritten, Clear, Of
  <2>3. AnswerIsReal'
    <3>1. ASSUME line # <<>> PROVE cands'[line[1].sig] = cands[line[1].sig]
      <4>1. 1 \in 1..Len(line) /\ line[1] \in Claims
        BY <3>1, Rest DEF IInv, TypeOK
      <4> QED BY <4>1, <1>1, <1>2 DEF InLine, IInv, TypeOK, Claims
    <3> QED BY <3>1, <1>2 DEF IInv, Lining, AnswerIsReal, Target, Current
  <2> QED BY <2>1, <2>2, <2>3 DEF Lining
<1>7. AskedIsStranded'
  <2> SUFFICES ASSUME NEW q \in asking'
               PROVE  draft'[q.sig] = "committing" /\ q.cands = cands'[q.sig] /\ ~(InLine(q.sig))'
    BY DEF AskedIsStranded
  <2>1. q \in asking /\ q.sig # s /\ q.sig \in Signals
    BY <1>3 DEF IInv, TypeOK, Asks
  <2> QED BY <2>1, <1>2 DEF IInv, TypeOK, Asking, AskedIsStranded, InLine
<1>8. OneAsker' /\ NotHereSoFar'
  BY <1>2, <1>3 DEF IInv, Asking, OneAsker, NotHereSoFar, Clear
<1> QED BY <1>2, <1>4, <1>5, <1>6, <1>7, <1>8 DEF IInv, Asking, LateIsBlurred

LEMMA NotHereKeeps ==
    ASSUME IInv, NEW r \in asking, NotHere(r), UNCHANGED <<tracker, late, blurred>>
    PROVE  IInv'
<1> DEFINE n == [r EXCEPT !.at = r.at + 1]
<1>1. /\ tracker[r.cands[r.at]] # r.sig /\ r.at < Width
      /\ asking' = (asking \ {r}) \cup {n} /\ UNCHANGED <<row, chain>>
  BY DEF NotHere
<1>2. r \in Asks /\ r.at \in 1..Width
  BY DEF IInv, TypeOK, Asks
<1>3. n \in Asks /\ n.sig = r.sig /\ n.cands = r.cands /\ n.at = r.at + 1
  BY <1>1, <1>2, ConstantsAssumption DEF Asks
<1> HIDE DEF n
<1>4. AskedIsStranded' /\ OneAsker'
  BY <1>1, <1>3 DEF IInv, Asking, AskedIsStranded, OneAsker, InLine, row, chain
<1>5. NotHereSoFar'
  <2> SUFFICES ASSUME NEW q \in asking', (q.sig \in Clear)', NEW j \in 1..Width, j < q.at
               PROVE  tracker[q.cands[j]] # q.sig
    BY DEF NotHereSoFar
  <2>1. CASE q \in asking
    BY <2>1 DEF IInv, Asking, NotHereSoFar, Clear
  <2>2. CASE q = n
    <3>1. j < r.at \/ j = r.at
      BY <2>2, <1>2, <1>3
    <3> QED BY <2>2, <3>1, <1>1, <1>3 DEF IInv, Asking, NotHereSoFar, Clear
  <2> QED BY <2>1, <2>2, <1>1
<1>6. asking' \subseteq Asks
  BY <1>1, <1>3 DEF IInv, TypeOK
<1> QED BY <1>1, <1>4, <1>5, <1>6, OnlyAsking DEF IInv, Asking

LEMMA NowhereKeeps ==
    ASSUME IInv, NEW r \in asking, Nowhere(r), UNCHANGED <<tracker, late, blurred>>
    PROVE  IInv'
<1>1. r.sig \in Signals /\ r.action \in Actions /\ draft[r.sig] = "committing"
      /\ ~InLine(r.sig) /\ r.cands = cands[r.sig]
  BY DEF IInv, TypeOK, Asks, Asking, AskedIsStranded
<1>2. /\ tracker[r.cands[r.at]] # r.sig /\ r.at = Width /\ asking' = asking \ {r}
      /\ Decide(r.sig, r.action) /\ tick' = tick
  BY DEF Nowhere
<1>3. \A q \in asking' : q \in asking /\ q.sig # r.sig
  BY <1>2 DEF IInv, Asking, OneAsker
<1>4. ASSUME r.sig \in Clear PROVE Of(r.sig) = {}
  <2>1. \A j \in 1..Width : tracker[r.cands[j]] # r.sig
    BY <1>2, <1>4, ConstantsAssumption DEF IInv, Asking, NotHereSoFar
  <2>2. \A id \in Of(r.sig) : \E k \in 1..Width : r.cands[k] = id
    BY <1>1, <1>4 DEF IInv, Filing, ClaimNamesItsTick
  <2> QED BY <2>1, <2>2 DEF Of
<1> QED BY <1>1, <1>2, <1>3, <1>4, DecideKeeps

LEMMA ReadsKeeps == ASSUME IInv, NEW s \in Signals, Reads(s) PROVE IInv'
<1>1. PICK r \in asking : Read(r)
  BY DEF Reads
<1>2. ASSUME ReadFails(r), UNCHANGED <<tracker, late, blurred>> PROVE IInv'
  <2>1. asking' \subseteq asking /\ UNCHANGED <<row, chain, tracker, late, blurred>>
    BY <1>2 DEF ReadFails
  <2>2. asking' \subseteq Asks
    BY <2>1 DEF IInv, TypeOK
  <2>3. Asking'
    BY <2>1 DEF IInv, Asking, AskedIsStranded, OneAsker, NotHereSoFar, InLine, Clear, row, chain
  <2> QED BY <2>1, <2>2, <2>3, OnlyAsking DEF IInv
<1> QED BY <1>1, <1>2, FoundKeeps, NotHereKeeps, NowhereKeeps DEF Read

-----------------------------------------------------------------------------
(* The commit *)

\* Whose commit is under way, and at which id.
LEMMA AtTheHead ==
    ASSUME IInv, line # <<>>
    PROVE  /\ 1 \in 1..Len(line) /\ Len(line) \in Nat /\ line[1] \in Claims
           /\ Current \in Signals /\ InLine(Current) /\ draft[Current] = "committing"
           /\ cands[Current] \in Candidates /\ turn.at \in 1..Width
           /\ Target \in Ids /\ Target = cands[Current][turn.at]
<1>1. 1 \in 1..Len(line) /\ Len(line) \in Nat /\ line[1] \in Claims
  BY Rest DEF IInv, TypeOK
<1>2. Current \in Signals /\ InLine(Current) /\ draft[Current] = "committing"
  BY <1>1 DEF Current, Claims, InLine, IInv, Lining, InLineIsCommitting
<1>3. cands[Current] \in Candidates /\ turn.at \in 1..Width
  BY <1>2 DEF IInv, TypeOK, Turns
<1>4. Target \in Ids
  BY <1>3, ConstantsAssumption DEF Target
<1> QED BY <1>1, <1>2, <1>3, <1>4 DEF Target

LEMMA PutLandsKeeps == ASSUME IInv, PutLands PROVE IInv'
<1>1. line # <<>> /\ turn.answer = "none" /\ tracker[Target] = Nothing
      /\ tracker' = [tracker EXCEPT ![Target] = Current]
      /\ UNCHANGED <<draft, cands, tick, line, asking, late>>
  BY DEF PutLands, Writing, Empty, row
<1>2. PICK a \in {"created", "refused"} :
        /\ turn' = [turn EXCEPT !.answer = a]
        /\ a = "created" => blurred' = blurred
        /\ a = "refused" => blurred' = blurred \cup {Current}
  BY DEF PutLands
<1>3. turn'.answer = a /\ turn'.at = turn.at /\ turn' \in Turns
  BY <1>2 DEF IInv, TypeOK, Turns, Answers
<1> DEFINE c == Current
           id == Target
<1>4. /\ c \in Signals /\ id \in Ids /\ draft[c] = "committing" /\ InLine(c)
      /\ cands[c] \in Candidates /\ turn.at \in 1..Width /\ id = cands[c][turn.at]
      /\ 1 \in 1..Len(line) /\ c = line[1].sig
  BY <1>1, AtTheHead DEF Current
<1>5. Nothing \notin Signals
  BY ConstantsAssumption
<1>6. c \in Clear => Of(c) = {}
  BY <1>1, <1>4 DEF IInv, Lining, NotYetWritten
<1>7. Target' = id /\ Current' = c
  BY <1>1, <1>3 DEF Target, Current
<1>write. tracker[id] = Nothing /\ tracker' = [tracker EXCEPT ![id] = c]
  BY <1>1
<1>clear. Clear' \subseteq Clear /\ (a = "refused" => c \notin Clear')
  BY <1>2 DEF Clear
<1> HIDE DEF c, id
<1>8. TypeOK'
  <2>1. tracker' \in [Ids -> Signals \cup {"Foreign", Nothing}]
    BY <1>4, <1>write DEF IInv, TypeOK
  <2>2. blurred' \subseteq Signals
    BY <1>2, <1>4 DEF IInv, TypeOK, Current
  <2> QED BY <1>1, <1>3, <2>1, <2>2 DEF IInv, TypeOK
<1>9. \A s \in Signals : Of(s)' \subseteq Of(s) \cup {id} /\ (s # c => Of(s)' = Of(s))
  BY <1>4, <1>5, <1>write DEF IInv, TypeOK, Of
<1>10. Filing'
  <2>1. FiledOnce'
    BY <1>6, <1>9, <1>clear DEF IInv, Filing, FiledOnce, Clear
  <2>2. PendingIsUnfiled'
    BY <1>1, <1>4, <1>9, <1>clear DEF IInv, Filing, PendingIsUnfiled, Clear
  <2>3. ClaimNamesItsTick'
    BY <1>1, <1>4, <1>6, <1>9, <1>clear DEF IInv, Filing, ClaimNamesItsTick, Clear
  <2>4. FiledIsOnRecord'
    BY <1>1, <1>4, <1>5, <1>write DEF IInv, Filing, FiledIsOnRecord, TypeOK, Filed
  <2> QED BY <2>1, <2>2, <2>3, <2>4 DEF Filing
<1>11. Lining'
  <2>1. InLineIsCommitting' /\ OncePerLine'
    BY <1>1 DEF IInv, Lining, InLineIsCommitting, OncePerLine
  <2>2. AnswerIsReal'
    BY <1>4, <1>7, <1>write DEF AnswerIsReal, IInv, TypeOK
  <2>3. NotYetWritten'
    <3> SUFFICES ASSUME NEW k \in 1..Len(line), (line[k].sig \in Clear)'
                 PROVE  (k = 1 /\ turn'.answer = "created") \/ (Of(line[k].sig))' = {}
      BY <1>1 DEF NotYetWritten
    <3>1. CASE k = 1
      BY <3>1, <1>1, <1>3, <1>4, <1>clear
    <3>2. CASE k # 1
      <4>1. line[k].sig # c /\ line[k].sig \in Clear
        BY <3>2, <1>1, <1>4, <1>clear DEF IInv, Lining, OncePerLine
      <4>2. line[k].sig \in Signals
        BY <4>1 DEF Clear
      <4> QED BY <3>2, <4>1, <4>2, <1>1, <1>9 DEF IInv, Lining, NotYetWritten
    <3> QED BY <3>1, <3>2
  <2> QED BY <2>1, <2>2, <2>3 DEF Lining
<1>12. Asking'
  <2>1. AskedIsStranded' /\ OneAsker'
    BY <1>1 DEF IInv, Asking, AskedIsStranded, OneAsker, InLine
  <2>2. NotHereSoFar'
    <3> SUFFICES ASSUME NEW r \in asking, (r.sig \in Clear)', NEW j \in 1..Width, j < r.at
                 PROVE  tracker'[r.cands[j]] # r.sig
      BY <1>1 DEF NotHereSoFar
    <3>1. r.sig # c /\ r.sig \in Clear /\ r.cands[j] \in Ids
      BY <1>4, <1>clear, ConstantsAssumption DEF IInv, Asking, AskedIsStranded, TypeOK, Asks
    <3>2. tracker[r.cands[j]] # r.sig
      BY <3>1 DEF IInv, Asking, NotHereSoFar
    <3> QED BY <3>1, <3>2, <1>4, <1>write DEF IInv, TypeOK
  <2> QED BY <2>1, <2>2 DEF Asking
<1>13. LateIsBlurred'
  BY <1>1, <1>2 DEF IInv, LateIsBlurred
<1> QED BY <1>8, <1>10, <1>11, <1>12, <1>13 DEF IInv

LEMMA PutAnsweredKeeps == ASSUME IInv, PutAnswered PROVE IInv'
<1>1. turn.answer = "none" /\ UNCHANGED <<draft, cands, tick, line, asking, tracker, late, blurred>>
  BY DEF PutAnswered, Writing, row
<1>2. PICK a \in {"exists", "refused"} : turn' = [turn EXCEPT !.answer = a]
  BY DEF PutAnswered
<1>3. turn'.answer = a /\ turn'.at = turn.at /\ turn' \in Turns
  BY <1>2 DEF IInv, TypeOK, Turns, Answers
<1>4. TypeOK' /\ Filing' /\ LateIsBlurred'
  BY <1>1, <1>3 DEF IInv, TypeOK, Filing, FiledOnce, PendingIsUnfiled, ClaimNamesItsTick,
     FiledIsOnRecord, Clear, Of, LateIsBlurred
<1>5. Lining' /\ Asking'
  BY <1>1, <1>3 DEF IInv, Lining, InLineIsCommitting, OncePerLine, NotYetWritten, AnswerIsReal,
     Clear, Of, Asking, AskedIsStranded, OneAsker, NotHereSoFar, InLine
<1> QED BY <1>4, <1>5 DEF IInv

\* The next in line moves up, and the row of the one before it is settled.
LEMMA AdvanceKeeps ==
    ASSUME IInv, line # <<>>, Advance, UNCHANGED <<asking, tracker, late, blurred>>,
           NEW d \in {"pending"} \cup Filed, NEW t \in Ids \cup {Nothing},
           draft' = [draft EXCEPT ![Current] = d], cands' = [cands EXCEPT ![Current] = Nothing],
           tick' = [tick EXCEPT ![Current] = t],
           d \in Filed <=> t # Nothing,
           d \in Filed => tracker[t] = Current,
           d = "pending" /\ Current \in Clear => Of(Current) = {}
    PROVE  IInv'
<1> DEFINE c == Current
<1>1. c \in Signals /\ draft[c] = "committing" /\ InLine(c) /\ c = line[1].sig
  BY AtTheHead DEF Current
<1>2. /\ draft' = [draft EXCEPT ![c] = d] /\ cands' = [cands EXCEPT ![c] = Nothing]
      /\ tick' = [tick EXCEPT ![c] = t]
      /\ d \in Filed => tracker[t] = c
      /\ d = "pending" /\ c \in Clear => Of(c) = {}
  OBVIOUS
<1>3. /\ line' \in Seq(Claims) /\ turn' = First
      /\ \A k \in 1..Len(line') : k + 1 \in 1..Len(line) /\ line'[k] = line[k + 1]
  BY Rest DEF Advance, IInv, TypeOK
<1>4. First \in Turns /\ First.answer = "none"
  BY ConstantsAssumption DEF First, Turns, Answers
<1> HIDE DEF c
<1>5. TypeOK'
  BY <1>1, <1>2, <1>3, <1>4 DEF IInv, TypeOK, States, Filed
<1>6. Filing'
  BY <1>1, <1>2 DEF IInv, Filing, TypeOK, FiledOnce, PendingIsUnfiled, ClaimNamesItsTick,
     FiledIsOnRecord, Clear, Filed, Of
<1>7. \A k \in 1..Len(line') : line[k + 1].sig # c
  <2> SUFFICES ASSUME NEW k \in 1..Len(line'), line[k + 1].sig = c PROVE FALSE
    OBVIOUS
  <2>1. 1 \in 1..Len(line) /\ k + 1 \in 1..Len(line)
    BY <1>3, AtTheHead
  <2>2. k + 1 = 1
    BY <2>1, <1>1 DEF IInv, Lining, OncePerLine
  <2> QED BY <2>2
<1>8. Lining'
  <2>1. InLineIsCommitting'
    BY <1>1, <1>2, <1>3, <1>7 DEF IInv, Lining, TypeOK, InLineIsCommitting
  <2>2. OncePerLine'
    BY <1>3 DEF IInv, Lining, OncePerLine
  <2>3. NotYetWritten'
    <3> SUFFICES ASSUME NEW k \in 1..Len(line'), (line[k].sig \in Clear)'
                 PROVE  (Of(line[k].sig))' = {}
      BY DEF NotYetWritten
    <3>1. k + 1 # 1 /\ k + 1 \in 1..Len(line) /\ line'[k] = line[k + 1]
      BY <1>3
    <3>2. Of(line[k + 1].sig) = {}
      BY <3>1 DEF IInv, Lining, NotYetWritten, Clear
    <3> QED BY <3>1, <3>2 DEF Of
  <2>4. AnswerIsReal'
    BY <1>3, <1>4 DEF AnswerIsReal
  <2> QED BY <2>1, <2>2, <2>3, <2>4 DEF Lining
<1>9. Asking'
  <2>1. \A r \in asking : r.sig # c /\ ~(InLine(r.sig))'
    BY <1>1, <1>3 DEF IInv, Asking, AskedIsStranded, InLine
  <2> QED BY <2>1, <1>1, <1>2 DEF IInv, Asking, TypeOK, AskedIsStranded, OneAsker, NotHereSoFar,
          Clear
<1> QED BY <1>5, <1>6, <1>8, <1>9 DEF IInv, LateIsBlurred

LEMMA AnswerKeeps == ASSUME IInv, Answer PROVE IInv'
<1>1. line # <<>> /\ UNCHANGED <<asking, tracker, late, blurred>>
  BY DEF Answer
<1>2. /\ Current \in Signals /\ Target \in Ids /\ line[1] \in Claims /\ 1 \in 1..Len(line)
      /\ Current = line[1].sig /\ tick[Current] = Nothing
  BY <1>1, AtTheHead DEF Current, IInv, TypeOK, Filed
<1>3. CASE Committed
  <2> DEFINE d == IF line[1].action = "dispatch" THEN "dispatched" ELSE "created"
  <2>1. /\ draft' = [draft EXCEPT ![Current] = d] /\ tick' = [tick EXCEPT ![Current] = Target]
        /\ cands' = [cands EXCEPT ![Current] = Nothing] /\ Advance
    BY <1>3 DEF Committed, RecordCommitted
  <2>2. d \in Filed
    BY DEF Filed
  <2>3. tracker[Target] = Current
    BY <1>1, <1>3 DEF Committed, IInv, Lining, AnswerIsReal
  <2>4. Target # Nothing /\ d # "pending"
    BY <1>2, ConstantsAssumption
  <2> HIDE DEF d
  <2> QED BY <1>1, <1>2, <2>1, <2>2, <2>3, <2>4, AdvanceKeeps
<1>4. CASE Retry
  <2>1. /\ turn.answer \in {"exists", "refused"} /\ ~Spent
        /\ turn' = [at |-> NextAt, tries |-> turn.tries + 1, answer |-> "none"]
        /\ UNCHANGED <<draft, cands, tick, line>>
    BY <1>4 DEF Retry, row
  <2>2. NextAt \in 1..Width /\ turn.tries + 1 \in 1..MaxAttempts
    BY <2>1, ConstantsAssumption DEF Spent, NextAt, IInv, TypeOK, Turns
  <2>3. turn' \in Turns /\ turn'.answer = "none"
    BY <2>1, <2>2 DEF Turns, Answers
  <2>4. TypeOK' /\ Filing' /\ LateIsBlurred'
    BY <1>1, <2>1, <2>3 DEF IInv, TypeOK, Filing, FiledOnce, PendingIsUnfiled, ClaimNamesItsTick,
       FiledIsOnRecord, Clear, Of, LateIsBlurred
  <2>5. Lining' /\ Asking'
    BY <1>1, <2>1, <2>3 DEF IInv, Lining, InLineIsCommitting, OncePerLine, NotYetWritten,
       AnswerIsReal, Clear, Of, Asking, AskedIsStranded, OneAsker, NotHereSoFar, InLine
  <2> QED BY <2>4, <2>5 DEF IInv
<1>5. CASE GiveBack
  <2>1. /\ turn.answer \in {"exists", "refused"} /\ tick' = tick
        /\ draft' = [draft EXCEPT ![Current] = "pending"]
        /\ cands' = [cands EXCEPT ![Current] = Nothing] /\ Advance
    BY <1>5 DEF GiveBack
  <2>2. tick' = [tick EXCEPT ![Current] = Nothing]
    BY <1>2, <2>1 DEF IInv, TypeOK
  <2>3. Current \in Clear => Of(Current) = {}
    BY <1>2, <2>1 DEF IInv, Lining, NotYetWritten
  <2>4. "pending" \notin Filed
    BY DEF Filed
  <2> QED BY <1>1, <2>1, <2>2, <2>3, <2>4, AdvanceKeeps
<1> QED BY <1>3, <1>4, <1>5 DEF Answer

-----------------------------------------------------------------------------
(* What the inbox does not control *)

\* A record of somebody else's at a free id takes nothing away.
LEMMA ForeignKeeps == ASSUME IInv, NEW id \in Ids, Foreign(id) PROVE IInv'
<1>1. /\ tracker[id] = Nothing /\ tracker' = [tracker EXCEPT ![id] = "Foreign"]
      /\ UNCHANGED <<draft, cands, tick, line, turn, asking, late, blurred>>
  BY DEF Foreign, Empty, row, chain
<1>2. \A s \in Signals : s # Nothing /\ s # "Foreign"
  BY ConstantsAssumption
<1>3. TypeOK' /\ \A s \in Signals : Of(s)' = Of(s)
  BY <1>1, <1>2 DEF IInv, TypeOK, Of
<1>4. Filing'
  BY <1>1, <1>2, <1>3 DEF IInv, Filing, FiledOnce, PendingIsUnfiled, ClaimNamesItsTick,
     FiledIsOnRecord, Clear, TypeOK, Filed
<1>5. Lining'
  <2>1. AnswerIsReal'
    <3>1. ASSUME line # <<>> PROVE Current \in Signals /\ Target \in Ids
      BY <3>1, AtTheHead
    <3> QED BY <3>1, <1>1, <1>2 DEF IInv, Lining, AnswerIsReal, TypeOK, Target, Current
  <2>2. NotYetWritten'
    BY <1>1, <1>3 DEF IInv, Lining, NotYetWritten, Clear
  <2> QED BY <1>1, <2>1, <2>2 DEF IInv, Lining, InLineIsCommitting, OncePerLine
<1>6. Asking'
  <2>1. \A r \in asking : \A j \in 1..Width :
          tracker[r.cands[j]] # r.sig => tracker'[r.cands[j]] # r.sig
    BY <1>1, <1>2, ConstantsAssumption DEF IInv, TypeOK, Asks
  <2> QED BY <1>1, <2>1 DEF IInv, Asking, AskedIsStranded, OneAsker, NotHereSoFar, InLine, Clear
<1> QED BY <1>1, <1>3, <1>4, <1>5, <1>6 DEF IInv, LateIsBlurred

LEMMA EvictKeeps == ASSUME IInv, Evict PROVE IInv'
<1>1. /\ line' = <<>> /\ Len(line') = 0 /\ turn' = First /\ asking' = {}
      /\ UNCHANGED <<draft, cands, tick, tracker>>
  BY DEF Evict, row
<1>2. \/ UNCHANGED <<late, blurred>>
      \/ /\ line # <<>> /\ late' = late \cup {<<Current, Target>>}
         /\ blurred' = blurred \cup {Current}
  BY DEF Evict, Writing
<1>3. late' \subseteq Signals \X Ids /\ blurred' \subseteq Signals /\ LateIsBlurred'
  BY <1>2, AtTheHead DEF IInv, TypeOK, LateIsBlurred
<1>4. First \in Turns
  BY ConstantsAssumption DEF First, Turns, Answers
<1>5. TypeOK'
  BY <1>1, <1>3, <1>4 DEF IInv, TypeOK
<1>6. Filing'
  BY <1>1, <1>2 DEF IInv, Filing, FiledOnce, PendingIsUnfiled, ClaimNamesItsTick,
     FiledIsOnRecord, Clear, Of
<1>7. Lining' /\ Asking'
  BY <1>1 DEF Lining, InLineIsCommitting, OncePerLine, NotYetWritten, AnswerIsReal,
     Asking, AskedIsStranded, OneAsker, NotHereSoFar
<1> QED BY <1>3, <1>5, <1>6, <1>7 DEF IInv

LEMMA LatePutKeeps == ASSUME IInv, NEW p \in late, LatePut(p) PROVE IInv'
<1>1. /\ late' = late \ {p} /\ UNCHANGED <<draft, cands, tick, line, turn, asking, blurred>>
      /\ p[1] \in Signals /\ p[1] \notin Clear /\ p[2] \in Ids
  BY DEF LatePut, row, chain, IInv, TypeOK, LateIsBlurred, Clear
<1>2. \/ tracker' = tracker
      \/ tracker[p[2]] = Nothing /\ tracker' = [tracker EXCEPT ![p[2]] = p[1]]
  BY DEF LatePut, Empty
<1>3. Nothing \notin Signals
  BY ConstantsAssumption
<1>4. /\ tracker' \in [Ids -> Signals \cup {"Foreign", Nothing}]
      /\ \A s \in Clear : Of(s)' = Of(s)
      /\ \A i \in Ids : tracker[i] # Nothing => tracker'[i] = tracker[i]
  <2>1. tracker \in [Ids -> Signals \cup {"Foreign", Nothing}]
    BY DEF IInv, TypeOK
  <2>2. CASE tracker' = tracker
    BY <2>1, <2>2 DEF Of
  <2>3. CASE tracker[p[2]] = Nothing /\ tracker' = [tracker EXCEPT ![p[2]] = p[1]]
    <3> DEFINE w == p[1]
               id == p[2]
    <3>1. w \in Signals /\ w \notin Clear /\ id \in Ids /\ tracker[id] = Nothing
          /\ tracker' = [tracker EXCEPT ![id] = w]
      BY <1>1, <2>3
    <3>2. \A s \in Clear : s # w /\ s # Nothing
      BY <3>1, <1>3 DEF Clear
    <3> HIDE DEF w, id
    <3> QED BY <2>1, <3>1, <3>2 DEF Of
  <2> QED BY <1>2, <2>2, <2>3
<1>5. TypeOK' /\ LateIsBlurred'
  BY <1>1, <1>4 DEF IInv, TypeOK, LateIsBlurred
<1>6. Filing'
  BY <1>1, <1>3, <1>4 DEF IInv, Filing, FiledOnce, PendingIsUnfiled, ClaimNamesItsTick,
     FiledIsOnRecord, Clear, TypeOK, Filed
<1>7. Lining'
  <2>1. AnswerIsReal'
    <3>1. ASSUME line # <<>> PROVE Current \in Signals /\ Target \in Ids
      BY <3>1, AtTheHead
    <3> QED BY <3>1, <1>1, <1>3, <1>4 DEF IInv, Lining, AnswerIsReal, Target, Current
  <2>2. NotYetWritten'
    BY <1>1, <1>4 DEF IInv, Lining, NotYetWritten, Clear
  <2> QED BY <1>1, <2>1, <2>2 DEF IInv, Lining, InLineIsCommitting, OncePerLine
<1>8. Asking'
  <2>1. \A r \in asking : r.sig \in Clear => \A j \in 1..Width : j < r.at =>
          tracker'[r.cands[j]] # r.sig
    <3> SUFFICES ASSUME NEW r \in asking, r.sig \in Clear, NEW j \in 1..Width, j < r.at
                 PROVE  tracker'[r.cands[j]] # r.sig
      OBVIOUS
    <3>1. tracker[r.cands[j]] # r.sig /\ r.cands[j] \in Ids
      BY ConstantsAssumption DEF IInv, Asking, NotHereSoFar, TypeOK, Asks
    <3> QED BY <3>1, <1>4 DEF Of
  <2> QED BY <1>1, <2>1 DEF IInv, Asking, AskedIsStranded, OneAsker, NotHereSoFar, InLine, Clear
<1> QED BY <1>5, <1>6, <1>7, <1>8 DEF IInv

-----------------------------------------------------------------------------
(* The theorems *)

LEMMA NextKeeps == IInv /\ [Next]_vars => IInv'
<1> SUFFICES ASSUME IInv, [Next]_vars PROVE IInv'
  OBVIOUS
<1>1. CASE UNCHANGED vars
  BY <1>1 DEF vars, row, chain, IInv, TypeOK, Filing, FiledOnce, PendingIsUnfiled,
     ClaimNamesItsTick, FiledIsOnRecord, Clear, Of, Lining, InLineIsCommitting, OncePerLine,
     NotYetWritten, AnswerIsReal, Target, Current, Asking, AskedIsStranded, OneAsker,
     NotHereSoFar, InLine, LateIsBlurred
<1>2. CASE Next
  BY <1>2, SubmitKeeps, PressKeeps, AskKeeps, ReadsKeeps, PutLandsKeeps, PutAnsweredKeeps,
     AnswerKeeps, ForeignKeeps, EvictKeeps, LatePutKeeps DEF Next, Commit
<1> QED BY <1>1, <1>2

\* The rows, the chain and the presses under way always have their shape, and
\* the claims along the chain are of distinct drafts that are committing.
THEOREM Invariance == Spec => []IInv
BY InitIInv, NextKeeps, PTL DEF Spec

THEOREM TypeCorrect == Spec => []TypeOK
BY Invariance, PTL DEF IInv

\* A signal whose PUTs were answered is filed at most once, however it was
\* pressed, whatever the inbox lost, and whoever else took its candidates.
THEOREM FiledAtMostOnce == Spec => []FiledOnce
BY Invariance, PTL DEF IInv, Filing

\* While a draft waits for a decision nothing of it is on record, what an
\* interrupted press may have written is at one of its candidates, and what a
\* filed draft names is its own record.
THEOREM DraftsAgree == Spec => []DraftAgrees
BY Invariance, PTL DEF IInv, Filing, DraftAgrees

\* A draft that was filed or discarded is not decided again.
LEMMA StepKeepsDecisions ==
    ASSUME IInv, [Next]_vars, NEW s \in Signals, draft[s] \in Filed \cup {"discarded"}
    PROVE  draft'[s] = draft[s] /\ tick'[s] = tick[s]
<1>1. draft[s] # "pending" /\ draft[s] # "committing" /\ draft[s] # "absent"
  BY DEF Filed
<1>2. ASSUME NEW r \in Signals, NEW a \in Actions, Decide(r, a), r # s
      PROVE  draft'[s] = draft[s]
  BY <1>2 DEF Decide, Discard, Defer, Claim, IInv, TypeOK
<1>3. CASE UNCHANGED vars
  BY <1>3 DEF vars, row
<1>4. ASSUME NEW r \in Signals, Submit(r) PROVE draft'[s] = draft[s] /\ tick'[s] = tick[s]
  BY <1>1, <1>4 DEF Submit, IInv, TypeOK
<1>5. ASSUME NEW r \in Signals, NEW a \in Actions, Press(r, a)
      PROVE  draft'[s] = draft[s] /\ tick'[s] = tick[s]
  BY <1>1, <1>2, <1>5 DEF Press
<1>6. ASSUME NEW r \in asking, Read(r) PROVE draft'[s] = draft[s] /\ tick'[s] = tick[s]
  <2>1. r.sig \in Signals /\ r.action \in Actions /\ r.sig # s
    BY <1>1 DEF IInv, TypeOK, Asks, Asking, AskedIsStranded
  <2>2. CASE Found(r)
    BY <2>1, <2>2 DEF Found, RecordCommitted, IInv, TypeOK
  <2>3. CASE Nowhere(r)
    BY <1>2, <2>1, <2>3 DEF Nowhere
  <2> QED BY <1>6, <2>2, <2>3 DEF Read, NotHere, ReadFails, row
<1>7. ASSUME Answer PROVE draft'[s] = draft[s] /\ tick'[s] = tick[s]
  <2>1. Current \in Signals /\ Current # s
    BY <1>1, <1>7, AtTheHead DEF Answer
  <2> QED BY <1>7, <2>1 DEF Answer, Committed, RecordCommitted, Retry, GiveBack, row, IInv, TypeOK
<1>8. ASSUME Next PROVE draft'[s] = draft[s] /\ tick'[s] = tick[s]
  BY <1>4, <1>5, <1>6, <1>7, <1>8
     DEF Next, Reads, Ask, Commit, PutLands, PutAnswered, Foreign, Evict, LatePut, row
<1> QED BY <1>3, <1>8

THEOREM DecisionsAreFinal == Spec => DecisionIsFinal
<1>1. IInv /\ [Next]_vars =>
        [\A s \in Signals : draft[s] \in Filed \cup {"discarded"} =>
           draft'[s] = draft[s] /\ tick'[s] = tick[s]]_vars
  BY StepKeepsDecisions
<1> QED BY <1>1, Invariance, PTL DEF Spec, DecisionIsFinal

NoneBlurred == blurred = {}

\* Without a PUT whose answer is lost no signal is blurred: an eviction alone
\* files nothing twice, wherever it strikes.
THEOREM EvictionFilesNothingTwice ==
    ASSUME Faults \subseteq {"evict"}
    PROVE  Spec => []BlipFilesNothingTwice
<1>1. Init => NoneBlurred
  BY DEF Init, NoneBlurred
<1>2. NoneBlurred /\ [Next]_vars => NoneBlurred'
  <2> SUFFICES ASSUME blurred = {}, [Next]_vars PROVE blurred' = {}
    BY DEF NoneBlurred
  <2>1. "lost" \notin Faults /\ "late" \notin Faults
    OBVIOUS
  <2> QED BY <2>1 DEF Next, Submit, Press, Ask, Reads, Read, Commit, PutLands, PutAnswered, Answer,
          Foreign, Evict, LatePut, vars
<1>3. NoneBlurred /\ FiledOnce => BlipFilesNothingTwice
  BY DEF NoneBlurred, FiledOnce, BlipFilesNothingTwice, Clear
<1> QED BY <1>1, <1>2, <1>3, FiledAtMostOnce, PTL DEF Spec
=============================================================================
