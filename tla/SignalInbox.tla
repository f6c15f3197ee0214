---------------------------- MODULE SignalInbox ----------------------------
(***************************************************************************)
(* The human gate of one project (cloudflare/src/signal-inbox.ts) and the  *)
(* commit it makes (cloudflare/src/tracker-write.ts): a signal becomes a   *)
(* draft, and a person's press files it as one tick record, by a create-   *)
(* only PUT at the first candidate id that the tracker does not hold.      *)
(*                                                                         *)
(* The inbox is a Durable Object: its storage is synchronous and outlives  *)
(* it, so a method is atomic between two awaits; its promise chain, and    *)
(* the set of drafts it is working on, are lost when it is evicted.  The   *)
(* awaits are the PUTs, one at a time along the chain, and the reads of a  *)
(* press that found a `committing` row nobody is working on.               *)
(*                                                                         *)
(* A signal_dedup row is written with the draft and is never removed: a    *)
(* draft that is not "absent" stands for both.                             *)
(***************************************************************************)
EXTENDS Naturals, Sequences, FiniteSets

CONSTANTS
    Signals,      \* (source, external_ref) pairs
    Ids,          \* tick ids
    Width,        \* how many candidates a claim mints (six)
    Candidates,   \* the lists it may draw: at random, nothing keeps ids apart
    MaxAttempts,  \* MAX_COMMIT_ATTEMPTS
    QueueLimit,   \* SIGNAL_INBOX_QUEUE_LIMIT
    MaxPending,   \* MAX_PENDING_DRAFTS
    Faults,       \* "evict": the object may be evicted
                  \* "lost": a PUT may land and its response be lost
                  \* "late": a PUT under way at an eviction may land later
    MaxLate,      \* bound: how many such PUTs are on their way at once
    Nothing       \* no id, no record, no candidates

ASSUME ConstantsAssumption ==
    /\ Width \in Nat \ {0} /\ MaxAttempts \in Nat \ {0}
    /\ Faults \subseteq {"evict", "lost", "late"}
    /\ "Foreign" \notin Signals /\ Nothing \notin Signals \cup Ids \cup {"Foreign"}
    /\ Candidates \subseteq [1..Width -> Ids] /\ Nothing \notin Candidates

VARIABLES
    draft,    \* signal_draft.state
    cands,    \* signal_draft.candidates
    tick,     \* signal_draft.tick_id
    line,     \* the promise chain: the claimed drafts, the first one's commit under way
    turn,     \* commitTickRecord's locals for the first of them
    asking,   \* presses that are reading the tracker for a stranded draft
    tracker,  \* .tick/issues/<id>.json: whose record it is
    late,     \* PUTs of an evicted inbox that are still on their way
    blurred   \* history: signals a PUT of whom landed and was not answered

row  == <<draft, cands, tick>>
chain == <<line, turn>>
vars == <<row, chain, asking, tracker, late, blurred>>

Actions == {"create", "dispatch", "discard"}
Filed   == {"created", "dispatched"}
States  == {"absent", "pending", "committing", "discarded"} \cup Filed
Claims  == [sig : Signals, action : {"create", "dispatch"}]

Asks    == [sig : Signals, action : Actions, cands : Candidates, at : 1..Width]

\* The answer of the PUT under way: none yet, or what its caller will read.
\* "refused" is every one that leaves the candidate as it was: a 409, a throw.
Answers == {"none", "created", "exists", "refused"}
Turns   == [at : 1..Width, tries : 1..MaxAttempts, answer : Answers]
First   == [at |-> 1, tries |-> 1, answer |-> "none"]

Empty(id) == tracker[id] = Nothing
Pending   == {s \in Signals : draft[s] = "pending"}
InLine(s) == \E k \in 1..Len(line) : line[k].sig = s
LiveInLine(s) == InLine(s)

\* #committing: the drafts this instance is committing or asking about.
Live(s) == InLine(s) \/ \E r \in asking : r.sig = s

\* The record the head of the line is writing, at the candidate it has reached.
Current == line[1].sig
TargetDrawnAnew ==
    IF \E id \in Ids : Empty(id) THEN CHOOSE id \in Ids : Empty(id)
    ELSE cands[Current][turn.at]

Target == cands[Current][turn.at]

-----------------------------------------------------------------------------
(* Admission and the press *)

\* A redelivery finds the dedup row and changes neither draft nor tracker.
Submit(s) ==
    /\ draft[s] = "absent" /\ Cardinality(Pending) < MaxPending
    /\ draft' = [draft EXCEPT ![s] = "pending"]
    /\ UNCHANGED <<cands, tick, chain, asking, tracker, late, blurred>>

\* decide, from the moment it holds a pending draft: synchronous up to the
\* commit's first await.
Discard(s) ==
    /\ draft' = [draft EXCEPT ![s] = "discarded"]
    /\ cands' = [cands EXCEPT ![s] = Nothing]
    /\ UNCHANGED chain

InboxFull == Len(line) >= QueueLimit

Defer(s) ==
    /\ InboxFull
    /\ draft' = [draft EXCEPT ![s] = "pending"]
    /\ cands' = [cands EXCEPT ![s] = Nothing]
    /\ UNCHANGED chain

Claim(s, a) ==
    /\ ~InboxFull
    /\ draft' = [draft EXCEPT ![s] = "committing"]
    /\ \E c \in Candidates : cands' = [cands EXCEPT ![s] = c]
    /\ line' = Append(line, [sig |-> s, action |-> a])
    /\ turn' = IF line = <<>> THEN First ELSE turn

Decide(s, a) == IF a = "discard" THEN Discard(s) ELSE Defer(s) \/ Claim(s, a)

Press(s, a) ==
    /\ draft[s] = "pending" /\ Decide(s, a)
    /\ UNCHANGED <<tick, asking, tracker, late, blurred>>

\* A press on a `committing` row this instance is not working on asks the
\* tracker first, one candidate at a time.
Stranded(s) == draft[s] = "committing" /\ ~Live(s)

Ask(s, a) ==
    /\ Stranded(s)
    /\ asking' = asking \cup {[sig |-> s, action |-> a, cands |-> cands[s], at |-> 1]}
    /\ UNCHANGED <<row, chain, tracker, late, blurred>>

\* #recordCommitted.
RecordCommitted(s, a, id) ==
    /\ draft' = [draft EXCEPT ![s] = IF a = "dispatch" THEN "dispatched" ELSE "created"]
    /\ tick' = [tick EXCEPT ![s] = id]
    /\ cands' = [cands EXCEPT ![s] = Nothing]

\* A read that answers: the record is this draft's, or the walk goes on, or it
\* has read every candidate and the press decides a draft pending again.
Found(r) ==
    /\ tracker[r.cands[r.at]] = r.sig
    /\ RecordCommitted(r.sig, "create", r.cands[r.at])
    /\ asking' = asking \ {r} /\ UNCHANGED chain

NotHere(r) ==
    /\ tracker[r.cands[r.at]] # r.sig /\ r.at < Width
    /\ asking' = (asking \ {r}) \cup {[r EXCEPT !.at = r.at + 1]}
    /\ UNCHANGED <<row, chain>>

NowhereTooSoon(r) ==
    /\ tracker[r.cands[r.at]] # r.sig /\ r.at + 1 >= Width
    /\ asking' = asking \ {r}
    /\ Decide(r.sig, r.action) /\ UNCHANGED tick

Nowhere(r) ==
    /\ tracker[r.cands[r.at]] # r.sig /\ r.at = Width
    /\ asking' = asking \ {r}
    /\ Decide(r.sig, r.action) /\ UNCHANGED tick

\* A read that throws, or a record it cannot parse: no verdict.
ReadFails(r) == asking' = asking \ {r} /\ UNCHANGED <<row, chain>>

Read(r) ==
    /\ Found(r) \/ NotHere(r) \/ Nowhere(r) \/ ReadFails(r)
    /\ UNCHANGED <<tracker, late, blurred>>

Reads(s) == \E r \in asking : r.sig = s /\ Read(r)

-----------------------------------------------------------------------------
(* The commit: #accept and commitTickRecord, for the head of the line *)

Writing == line # <<>> /\ turn.answer = "none"

\* The PUT reaches the tracker, which creates the record or says that the id is
\* taken; or it is refused having done nothing; or its answer never comes back.
PutLands ==
    /\ Writing /\ Empty(Target)
    /\ tracker' = [tracker EXCEPT ![Target] = Current]
    /\ \/ turn' = [turn EXCEPT !.answer = "created"] /\ UNCHANGED blurred
       \/ /\ "lost" \in Faults
          /\ turn' = [turn EXCEPT !.answer = "refused"]
          /\ blurred' = blurred \cup {Current}
    /\ UNCHANGED <<row, line, asking, late>>

PutAnswered ==
    /\ Writing
    /\ \E a \in {"exists", "refused"} :
         /\ a = "exists" => ~Empty(Target)
         /\ turn' = [turn EXCEPT !.answer = a]
    /\ UNCHANGED <<row, line, asking, tracker, late, blurred>>

\* The next in line starts its own commit.
Advance == line' = Tail(line) /\ turn' = First

Committed ==
    /\ turn.answer = "created"
    /\ RecordCommitted(Current, line[1].action, Target)
    /\ Advance

\* Which candidate the next attempt names: `exists` moves on, a refusal stays.
NextAt == IF turn.answer = "exists" THEN turn.at + 1 ELSE turn.at
Spent == turn.tries = MaxAttempts \/ NextAt > Width

RetryUncounted ==
    /\ turn.answer \in {"exists", "refused"} /\ ~Spent
    /\ turn' = [at |-> NextAt, tries |-> turn.tries, answer |-> "none"]
    /\ UNCHANGED <<row, line>>

Retry ==
    /\ turn.answer \in {"exists", "refused"} /\ ~Spent
    /\ turn' = [at |-> NextAt, tries |-> turn.tries + 1, answer |-> "none"]
    /\ UNCHANGED <<row, line>>

GiveBackKeepsClaim ==
    /\ turn.answer \in {"exists", "refused"} /\ Spent
    /\ draft' = [draft EXCEPT ![Current] = "pending"]
    /\ UNCHANGED <<cands, tick>> /\ Advance

\* Unsettled: back to pending.
GiveBack ==
    /\ turn.answer \in {"exists", "refused"} /\ Spent
    /\ draft' = [draft EXCEPT ![Current] = "pending"]
    /\ cands' = [cands EXCEPT ![Current] = Nothing]
    /\ UNCHANGED tick /\ Advance

Answer ==
    /\ line # <<>> /\ (Committed \/ Retry \/ GiveBack)
    /\ UNCHANGED <<asking, tracker, late, blurred>>

-----------------------------------------------------------------------------
(* What the inbox does not control *)

\* Another writer of the tracker (a run's container, `tk`) takes an id.
Foreign(id) ==
    /\ Empty(id)
    /\ tracker' = [tracker EXCEPT ![id] = "Foreign"]
    /\ UNCHANGED <<row, chain, asking, late, blurred>>

\* The object is evicted: its chain and its set of drafts are gone, the rows
\* stand.  A PUT under way is lost with it, or still on its way.
Evict ==
    /\ "evict" \in Faults /\ (line # <<>> \/ asking # {})
    /\ line' = <<>> /\ turn' = First /\ asking' = {}
    /\ \/ UNCHANGED <<late, blurred>>
       \/ /\ "late" \in Faults /\ Writing /\ Cardinality(late) < MaxLate
          /\ late' = late \cup {<<Current, Target>>}
          /\ blurred' = blurred \cup {Current}
    /\ UNCHANGED <<row, tracker>>

LatePut(p) ==
    /\ late' = late \ {p}
    /\ tracker' = IF Empty(p[2]) THEN [tracker EXCEPT ![p[2]] = p[1]] ELSE tracker
    /\ UNCHANGED <<row, chain, asking, blurred>>

-----------------------------------------------------------------------------
(* The specification *)

Init ==
    /\ draft = [s \in Signals |-> "absent"]
    /\ cands = [s \in Signals |-> Nothing] /\ tick = [s \in Signals |-> Nothing]
    /\ line = <<>> /\ turn = First /\ asking = {}
    /\ tracker = [id \in Ids |-> Nothing] /\ late = {} /\ blurred = {}

Commit == PutLands \/ PutAnswered \/ Answer

Next ==
    \/ \E s \in Signals : Submit(s)
    \/ \E s \in Signals, a \in Actions : Press(s, a) \/ Ask(s, a)
    \/ \E s \in Signals : Reads(s)
    \/ Commit
    \/ \E id \in Ids : Foreign(id)
    \/ Evict
    \/ \E p \in late : LatePut(p)

Spec == Init /\ [][Next]_vars

\* A request that was sent is answered, or throws: fetch does not hang.
FairSpec == Spec /\ WF_vars(Commit) /\ \A s \in Signals : WF_vars(Reads(s))

-----------------------------------------------------------------------------
(* Properties *)

Of(s)   == {id \in Ids : tracker[id] = s}
Clear   == Signals \ blurred

\* The shape of the rows, of the chain and of the presses under way; a draft
\* has candidates while it is being committed, and an id once it is filed.
TypeOK ==
    /\ draft \in [Signals -> States]
    /\ cands \in [Signals -> Candidates \cup {Nothing}]
    /\ tick \in [Signals -> Ids \cup {Nothing}]
    /\ \A s \in Signals : draft[s] = "committing" <=> cands[s] # Nothing
    /\ \A s \in Signals : draft[s] \in Filed <=> tick[s] # Nothing
    /\ line \in Seq(Claims) /\ turn \in Turns /\ asking \subseteq Asks
    /\ tracker \in [Ids -> Signals \cup {"Foreign", Nothing}]
    /\ late \subseteq Signals \X Ids /\ blurred \subseteq Signals

\* No signal is filed twice, whatever was pressed, retried or asked again after
\* an eviction, as long as the answers to its PUTs came back.
FiledOnce == \A s \in Clear : \A i, j \in Of(s) : i = j

\* A draft that is offered for a decision, or was discarded, has no record in
\* the tracker: "nothing was committed, so accepting this draft again is safe".
PendingIsUnfiled ==
    \A s \in Clear : draft[s] \in {"absent", "pending", "discarded"} => Of(s) = {}

\* The claim's candidates are the only handle on what an interrupted press may
\* have written: while a draft is `committing`, its record is at one of them.
ClaimNamesItsTick ==
    \A s \in Clear : draft[s] = "committing" =>
        \A id \in Of(s) : \E k \in 1..Width : cands[s][k] = id

\* A draft that says it was filed names a record that is its own, whatever is lost.
FiledIsOnRecord == \A s \in Signals : draft[s] \in Filed => tracker[tick[s]] = s

\* In every phase the draft says of the tracker what is there.
DraftAgrees == PendingIsUnfiled /\ ClaimNamesItsTick /\ FiledIsOnRecord

\* A draft somebody decided is never decided again, whatever is lost.
DecisionIsFinal ==
    [][\A s \in Signals : draft[s] \in Filed \cup {"discarded"} =>
         draft'[s] = draft[s] /\ tick'[s] = tick[s]]_vars

\* Every press is answered: what it put in line leaves it, and its reads end.
EveryPressAnswers == \A s \in Signals : Live(s) ~> ~Live(s)

\* "A GitHub blip must not file a second tick", for every signal.
BlipFilesNothingTwice == \A s \in Signals : \A i, j \in Of(s) : i = j
=============================================================================
