------------------------------ MODULE RunStore ------------------------------
(***************************************************************************)
(* The `.ticfac/` run-state store of internal/runstate: several processes  *)
(* (Writers) read and write the records of one run on one branch of one    *)
(* Git remote.  Nothing is locked.  A record is guarded by a compare-and-  *)
(* swap on its path, carried by a push under a lease on the whole branch:  *)
(* a lost lease is re-examined per path, and the chain of records is then  *)
(* rebuilt on the new head, or refused.                                    *)
(*                                                                         *)
(* One step of a writer is what the store does between two exchanges with  *)
(* origin: a call up to its first push, one push, one re-examination.      *)
(* Between them every other writer, a late push and a crash may step.      *)
(***************************************************************************)
EXTENDS Naturals, Sequences, FiniteSets, SequencesExt

CONSTANTS
    Writers,      \* store instances: each one process with its own checkout
    Markers,      \* paths only ever created: attempts, decisions, evidence
    Registers,    \* paths updated under a sha guard and never held
    Checkpoint,   \* the run's one holdable path
    Trackers,     \* change sets of `.tick/` files, which no record view shows
    LiveStates,   \* checkpoint states of a run that goes on
    EndStates,    \* terminal checkpoint states
    Body,         \* what each writer's records say besides state and sequence
    Absent,       \* no blob at a path
    LosesReplies, \* whether a push may land with its acknowledgement lost
    MaxOps,       \* bound: calls each writer makes
    MaxPushes,    \* maxContendedPushes, 8 in the code
    MaxTries      \* RemoteRetry.Attempts: sends of one push before giving up

Records == Markers \cup Registers \cup {Checkpoint}
States  == LiveStates \cup EndStates
NoState == "-"

\* What a record says, as far as anything here compares it: `at` is its
\* timestamp, which sets two calls of one writer apart.
Blobs == [seq: Nat, state: States \cup {NoState}, body: {Body[w] : w \in Writers}, at: Nat]

ASSUME ConstantsAssumption ==
    /\ Markers \cap Registers = {}
    /\ Checkpoint \notin Markers \cup Registers
    /\ Trackers \cap Records = {}
    /\ NoState \notin States
    /\ MaxOps \in [Writers -> Nat] /\ MaxPushes \in Nat \ {0} /\ MaxTries \in Nat \ {0}
    /\ Writers # {} /\ DOMAIN Body = Writers /\ LosesReplies \in BOOLEAN
    /\ Absent \notin Blobs

VARIABLES
    origin,     \* the branch on origin: version, blobs under Root, last push
    inflight,   \* pushes whose client heard nothing and which may still land
    tag,        \* the run tag on origin: the version it is `at`, 0 for none, and the
                \* versions of pushes of it that nobody heard of and may be `late`
    store,      \* per writer: head, view, baseView, fetched, holding, held
    flush,      \* per writer: the push loop under way
    localTag,   \* per writer: the run tag in its checkout, 0 for none
    answer,     \* per writer: what the last call returned
    ops,        \* per writer: calls made
    landed,     \* history: the records that reached origin
    acked,      \* history: the records a writer was told landed
    disowned,   \* history: the records a writer was told did not land
    ended       \* history: versions whose checkpoint is terminal

remote    == <<origin, inflight>>
histories == <<landed, acked, disowned, ended>>
vars == <<remote, tag, store, flush, localTag, answer, ops, histories>>

-----------------------------------------------------------------------------
(* Records, chains and views *)

Views == [Records -> Blobs \cup {Absent}]
EmptyView == [p \in Records |-> Absent]

HeldWrites == [kind: {"create", "update", "stage"}, path: Records \cup Trackers,
               blob: Blobs, guard: Blobs \cup {Absent}, by: Writers, op: Nat]

Blob(w, n, s) == [seq |-> n, state |-> s, body |-> Body[w], at |-> ops[w]]

\* A view with a chain of records on top: the last record of a path wins.
Over(view, chain) ==
    [p \in Records |->
        LET at == {i \in DOMAIN chain : chain[i].path = p}
        IN  IF at = {} THEN view[p]
            ELSE chain[CHOOSE i \in at : \A j \in at : j <= i].blob]

GuardLostNoCreate(r, view) == r.kind = "update" /\ view[r.path] # r.guard
GuardLostNoUpdate(r, view) == r.kind = "create" /\ view[r.path] # Absent

GuardLost(r, view) ==
    \/ r.kind = "update" /\ view[r.path] # r.guard
    \/ r.kind = "create" /\ view[r.path] # Absent

Conflict(r) == IF r.kind = "update" THEN "conflict_stale_sha" ELSE "conflict_exists"

\* The identity of a record: who made it, at which of its calls, and where.
Id(r) == [by |-> r.by, op |-> r.op, path |-> r.path]
Ids(chain) == {Id(chain[i]) : i \in DOMAIN chain}

\* A push is the head commit it sends and the lease it names.  Commits of two
\* writers are different commits; what `git show --format=%T %P%n%B` prints of
\* them is equal when the tree, the parent and the message are, which for a
\* chain of one is when the record is.
Push(w, base, chain) == [by |-> w, base |-> base, recs |-> chain]
SameContent(p, q) ==
    /\ Len(p.recs) = 1 /\ Len(q.recs) = 1 /\ p.base = q.base
    /\ \A f \in {"kind", "path", "blob"} : p.recs[1][f] = q.recs[1][f]

NoPush == [by |-> CHOOSE w \in Writers : TRUE, base |-> 0, recs |-> <<>>]

-----------------------------------------------------------------------------
(* The state of a store *)

Opened == [head |-> 0, view |-> EmptyView, baseView |-> EmptyView,
           fetched |-> FALSE, holding |-> FALSE, held |-> <<>>]

\* call: what asked for the flush.  "record" is a create or an update that may
\* not be held, "final" a terminal checkpoint, "tag" the tag of a run already
\* over; "stage" and "release" push the chain for no record in particular.
\* tagging: the exchange with origin that ensureRunTag is waiting for.
NotFlushing == [phase |-> "idle", call |-> "none", lost |-> "", sent |-> {},
                uncertain |-> FALSE, try |-> 0, tries |-> 0, tagging |-> "read"]

Idle(w) == flush[w].phase = "idle"

\* A call begins: the writer is between calls and inside the model's bound.
Call(w) == Idle(w) /\ ops[w] < MaxOps[w] /\ ops' = [ops EXCEPT ![w] = @ + 1]

\* The store s having re-read origin, as Fetch outside a held step does.
Fetched(s) == [s EXCEPT !.head = origin.ver, !.view = origin.view, !.fetched = TRUE]
EnsureFetched(s) == IF s.fetched THEN s ELSE Fetched(s)

GuardFor(s, p) == IF s.held # <<>> THEN s.baseView[p] ELSE s.view[p]

\* s with one more record chained; the chain becomes the writer's view.
Chain(s, r) ==
    [s EXCEPT !.baseView = IF s.held = <<>> THEN s.view ELSE @,
              !.held = Append(@, r),
              !.view = Over(@, <<r>>)]

\* s with its chain rebuilt on what origin holds now.
Rebuild(s, chain) ==
    [s EXCEPT !.head = origin.ver, !.baseView = origin.view,
              !.held = chain, !.view = Over(origin.view, chain)]

DropHeldKeepsChain(s) == [s EXCEPT !.view = IF s.held # <<>> THEN s.baseView ELSE @]

DropHeld(s) ==
    [s EXCEPT !.view = IF s.held # <<>> THEN s.baseView ELSE @, !.held = <<>>]

LandedForgets(s) == [s EXCEPT !.view = s.baseView, !.held = <<>>]
LandedKeepsFirst(s) == [s EXCEPT !.held = SubSeq(@, 1, Len(@) - 1)]

Landed(s) == [s EXCEPT !.held = <<>>]

\* The record a call of writer w chains.
Record(w, kind, p, blob, guard) ==
    [kind |-> kind, path |-> p, blob |-> blob, guard |-> guard,
     by |-> w, op |-> ops[w]]

StartFlush(w, call) ==
    flush' = [flush EXCEPT ![w] = [NotFlushing EXCEPT !.phase = "push", !.call = call]]

\* A call that answers without touching origin.
Answer(w, a) == answer' = [answer EXCEPT ![w] = a]
StoreIs(w, s) == store' = [store EXCEPT ![w] = s]

-----------------------------------------------------------------------------
(* The calls *)

\* Store.Fetch: outside a held step the view becomes origin's; inside one the
\* chain is rebased onto origin's new head, or the whole step is lost.
Fetch(w) ==
    LET s == store[w]
        moved == s.held # <<>> /\ s.head # origin.ver
        lost == moved /\ \E i \in DOMAIN s.held : GuardLost(s.held[i], origin.view)
    IN  /\ Call(w)
        /\ StoreIs(w, IF lost THEN Fetched(DropHeld(s))
                      ELSE IF moved THEN [Rebuild(s, s.held) EXCEPT !.fetched = TRUE]
                      ELSE IF s.held # <<>> THEN [s EXCEPT !.fetched = TRUE]
                      ELSE Fetched(s))
        /\ Answer(w, IF lost THEN "held_conflict" ELSE "fetched")
        /\ disowned' = IF lost THEN disowned \cup Ids(s.held) ELSE disowned
        /\ UNCHANGED <<remote, tag, flush, localTag, landed, acked, ended>>

\* A call that ends on what the writer's own view says.
Refuse(w, s, a) ==
    /\ StoreIs(w, s) /\ Answer(w, a)
    /\ UNCHANGED <<remote, tag, flush, localTag, histories>>

\* A record joins the chain.  It may wait there for the step to be released.
Wait(w, s, r, a) ==
    /\ StoreIs(w, Chain(s, r)) /\ Answer(w, a)
    /\ UNCHANGED <<remote, tag, flush, localTag, histories>>

\* A record joins the chain, and the whole chain is pushed now.
Send(w, s, r, call) ==
    /\ StoreIs(w, Chain(s, r)) /\ StartFlush(w, call) /\ Answer(w, "none")
    /\ UNCHANGED <<remote, tag, localTag, histories>>

\* PutAttempt, PutDecision, PutEvidence and the sheets' first versions:
\* CreateIfAbsent.  A create never waits, and the writer's own view answers it.
Create(w, p) ==
    LET s == EnsureFetched(store[w])
    IN  /\ Call(w)
        /\ \/ s.view[p] # Absent /\ Refuse(w, s, "conflict_exists")
           \/ s.view[p] = Absent
              /\ Send(w, s, Record(w, "create", p, Blob(w, 0, NoState), Absent), "record")

\* UpdateIfSHA of a sheet (a finding, an amendment): it never waits either, and
\* a writer that fetched nothing has no base to compare against.
Update(w, p) ==
    LET s == store[w]
    IN  /\ Call(w)
        /\ \/ s.view[p] = Absent /\ Refuse(w, s, "conflict_missing_base")
           \/ s.view[p] # Absent
              /\ Send(w, s, Record(w, "update", p, Blob(w, s.view[p].seq + 1, NoState),
                                   GuardFor(s, p)), "record")

Terminal(state) == state \in EndStates

\* PutCheckpoint.  A checkpoint that says nothing new is an observation, which
\* writes nothing, but re-places the tag of a run that is already over.
PutCheckpoint(w, state) ==
    LET s == EnsureFetched(store[w])
        previous == s.view[Checkpoint]
        first == previous = Absent
        news == IF first THEN TRUE
                ELSE previous.state # state \/ previous.body # Body[w]
        over == Terminal(state)
        record ==
            IF first
            THEN Record(w, "create", Checkpoint, Blob(w, 1, state), Absent)
            ELSE Record(w, "update", Checkpoint, Blob(w, previous.seq + 1, state),
                        GuardFor(s, Checkpoint))
        waits == s.holding /\ ~over /\ ~first
    IN  /\ Call(w)
        /\ \/ news /\ waits /\ Wait(w, s, record, "updated")
           \/ news /\ ~waits /\ Send(w, s, record, IF over THEN "final" ELSE "record")
           \/ ~news /\ ~over /\ Refuse(w, s, "no_change")
           \/ /\ ~news /\ over
              /\ StoreIs(w, s) /\ Answer(w, "no_change")
              /\ flush' = [flush EXCEPT ![w] =
                    [NotFlushing EXCEPT !.phase = IF s.held = <<>> THEN "tag" ELSE "push",
                                        !.call = "tag"]]
              /\ UNCHANGED <<remote, tag, localTag, histories>>

\* StageChanges: a change set of the tracker, which no guard protects.
StageChanges(w, t, held) ==
    LET s == EnsureFetched(store[w])
        r == Record(w, "stage", t, Blob(w, 0, NoState), Absent)
    IN  /\ Call(w)
        /\ \/ s.holding /\ held /\ Wait(w, s, r, "staged")
           \/ ~(s.holding /\ held) /\ Send(w, s, r, "stage")

Hold(w) ==
    /\ Idle(w) /\ ~store[w].holding /\ ops[w] < MaxOps[w]
    /\ StoreIs(w, [store[w] EXCEPT !.holding = TRUE])
    /\ UNCHANGED <<remote, tag, flush, localTag, answer, ops, histories>>

Release(w) ==
    /\ Idle(w) /\ store[w].holding
    /\ IF store[w].held = <<>>
       THEN StoreIs(w, [store[w] EXCEPT !.holding = FALSE]) /\ UNCHANGED flush
       ELSE StartFlush(w, "release") /\ UNCHANGED store
    /\ Answer(w, "none")
    /\ UNCHANGED <<remote, tag, localTag, ops, histories>>

Abandon(w) ==
    /\ Idle(w) /\ store[w].holding
    /\ StoreIs(w, [DropHeld(store[w]) EXCEPT !.holding = FALSE])
    /\ disowned' = disowned \cup Ids(store[w].held)
    /\ Answer(w, "none")
    /\ UNCHANGED <<remote, tag, flush, localTag, ops, landed, acked, ended>>

-----------------------------------------------------------------------------
(* The push loop *)

InPhase(w, phase) == flush[w].phase = phase

\* The record the flush was asked for is still in the chain, at its end.
Subject(w) == flush[w].call \in {"record", "final"} /\ flush[w].lost = ""

ThePush(w) == Push(w, store[w].head, store[w].held)

\* The flush is over.  Release also ends the step, whatever came of the push.
EndFlush(w, s) ==
    /\ StoreIs(w, [s EXCEPT !.holding = @ /\ flush[w].call # "release"])
    /\ flush' = [flush EXCEPT ![w] = NotFlushing]

\* A push reaches origin under its lease.  Every other push under way was
\* leased on the old head, so none of those nobody waits for can land any more.
Arrive(push) ==
    LET view == Over(origin.view, push.recs)
        ver  == origin.ver + 1
    IN  /\ origin' = [ver |-> ver, view |-> view, last |-> push]
        /\ inflight' = {}
        /\ landed' = landed \cup Ids(push.recs)
        /\ ended' = IF view[Checkpoint] # Absent /\ view[Checkpoint].state \in EndStates
                    THEN ended \cup {ver} ELSE ended

\* landHeld: what the call answers once its chain is known to be on origin.
Outcome(w) ==
    IF flush[w].lost # "" THEN flush[w].lost
    ELSE IF flush[w].call \in {"record", "final"}
         THEN IF Last(store[w].held).kind = "update" THEN "updated" ELSE "created"
    ELSE IF flush[w].call = "stage" THEN "staged"
    ELSE IF flush[w].call = "tag" THEN "no_change" ELSE "released"

TagsWhateverLanded(w) == flush[w].call \in {"tag", "final"}

\* The run is tagged when it was over before the call, or when the terminal
\* checkpoint itself landed (EffectPermitted), not what was chained under it.
EndsRun(w) == flush[w].call = "tag" \/ (flush[w].call = "final" /\ flush[w].lost = "")

Land(w, s) ==
    /\ acked' = acked \cup Ids(store[w].held)
    /\ Answer(w, Outcome(w))
    /\ IF EndsRun(w)
       THEN /\ StoreIs(w, Landed(s))
            /\ flush' = [flush EXCEPT ![w].phase = "tag"]
       ELSE EndFlush(w, Landed(s))

\* Every error drops the chain.  What became of the push nobody says.
Fail(w) ==
    /\ EndFlush(w, DropHeld(store[w]))
    /\ Answer(w, "error")
    /\ UNCHANGED <<acked, disowned>>

PushAcked(w) ==
    /\ InPhase(w, "push") /\ store[w].head = origin.ver
    /\ Arrive(ThePush(w))
    /\ Land(w, [store[w] EXCEPT !.head = origin.ver + 1])
    /\ UNCHANGED <<tag, localTag, ops, disowned>>

\* The lease is lost: the branch moved since this writer read it.
PushRefused(w) ==
    /\ InPhase(w, "push") /\ store[w].head # origin.ver
    /\ flush' = [flush EXCEPT ![w].phase = "refused", ![w].sent = @ \cup {ThePush(w)}]
    /\ UNCHANGED <<remote, tag, store, localTag, answer, ops, histories>>

LastTry(w) == flush[w].tries + 1 = MaxTries

Resent(f, push) ==
    [f EXCEPT !.sent = @ \cup {push}, !.uncertain = TRUE, !.tries = @ + 1]

\* The connection died: the push may have arrived, may yet, or never will.  It
\* is sent again, a bounded number of times.
PushLost(w) ==
    /\ LosesReplies /\ InPhase(w, "push")
    /\ inflight' = IF store[w].head = origin.ver THEN inflight \cup {ThePush(w)} ELSE inflight
    /\ \/ /\ ~LastTry(w)
          /\ flush' = [flush EXCEPT ![w] = Resent(@, ThePush(w))]
          /\ UNCHANGED <<store, answer, acked, disowned>>
       \/ LastTry(w) /\ Fail(w)
    /\ UNCHANGED <<origin, tag, localTag, ops, landed, ended>>

\* A push nobody heard back about arrives after all.
LateArrival(push) ==
    /\ push \in inflight
    /\ Arrive(push)
    /\ UNCHANGED <<tag, store, flush, localTag, answer, ops, acked, disowned>>

\* A push that failed for good, or a fetch of origin that did.
ExchangeFails(w) ==
    /\ InPhase(w, "push") \/ InPhase(w, "refused")
    /\ Fail(w)
    /\ UNCHANGED <<remote, tag, localTag, ops, landed, ended>>

OwnWriteIfUncertain(w) == origin.last \in flush[w].sent \/ flush[w].uncertain

\* What moved the branch is this writer: one of the pushes of this call, or,
\* after a push nobody heard back about, one that carries exactly the same.
OwnWrite(w) ==
    \/ origin.last \in flush[w].sent
    \/ flush[w].uncertain /\ \E p \in flush[w].sent : SameContent(origin.last, p)

\* The records of the chain the flush was not asked for.
Others(w) == IF Subject(w) THEN Front(store[w].held) ELSE store[w].held

OwnLanded(w) ==
    /\ InPhase(w, "refused") /\ OwnWrite(w)
    /\ Land(w, Fetched(store[w]))
    /\ UNCHANGED <<remote, tag, localTag, ops, disowned, landed, ended>>

\* A held record lost its guard: nothing of the step is pushed.
HeldLost(w) ==
    /\ InPhase(w, "refused") /\ ~OwnWrite(w)
    /\ \E i \in DOMAIN Others(w) : GuardLost(Others(w)[i], origin.view)
    /\ EndFlush(w, DropHeld(store[w]))
    /\ Answer(w, "held_conflict")
    /\ disowned' = disowned \cup Ids(store[w].held)
    /\ UNCHANGED <<remote, tag, localTag, ops, acked, landed, ended>>

SpentLate(w) == flush[w].try = MaxPushes

Spent(w) == flush[w].try + 1 = MaxPushes

\* The next round of the loop, the subject's conflict kept for the answer.
Again(f, why) == [f EXCEPT !.phase = "push", !.lost = why, !.try = @ + 1, !.tries = 0]

\* The other guards hold.  The chain, without its subject if that one lost its
\* own guard, is rebuilt on what origin holds now and pushed again.
Rebuilt(w) ==
    LET lost == Subject(w) /\ GuardLost(Last(store[w].held), origin.view)
        kept == IF lost THEN Others(w) ELSE store[w].held
        why  == IF lost THEN Conflict(Last(store[w].held)) ELSE flush[w].lost
    IN  /\ InPhase(w, "refused") /\ ~OwnWrite(w)
        /\ \A i \in DOMAIN Others(w) : ~GuardLost(Others(w)[i], origin.view)
        /\ disowned' = IF lost THEN disowned \cup {Id(Last(store[w].held))} ELSE disowned
        /\ IF kept = <<>>
           THEN EndFlush(w, DropHeld(store[w])) /\ Answer(w, why)
           ELSE IF Spent(w)
           THEN EndFlush(w, DropHeld(Rebuild(store[w], kept))) /\ Answer(w, "error")
           ELSE /\ StoreIs(w, Rebuild(store[w], kept))
                /\ flush' = [flush EXCEPT ![w] = Again(@, why)]
                /\ UNCHANGED answer
        /\ UNCHANGED <<remote, tag, localTag, ops, landed, acked, ended>>

(* ensureRunTag, once the chain is on origin: origin is asked for the tag, the
   checkout's own tag is set, it is pushed without force, and origin is asked
   again when that push failed. *)

Tagging(w, exchange) == InPhase(w, "tag") /\ flush[w].tagging = exchange

\* RunTag reads origin, never the checkout.
TagPlaced == tag.at # 0

TagRead(w) ==
    LET head == store[w].head
    IN  /\ Tagging(w, "read")
        /\ \/ TagPlaced /\ EndFlush(w, store[w]) /\ UNCHANGED <<localTag, answer>>
           \* origin did not answer, or the checkout has another's tag of this name
           \/ EndFlush(w, store[w]) /\ Answer(w, "tag_error") /\ UNCHANGED localTag
           \/ /\ ~TagPlaced /\ localTag[w] \in {0, head}
              /\ localTag' = [localTag EXCEPT ![w] = head]
              /\ flush' = [flush EXCEPT ![w].tagging = "push"]
              /\ UNCHANGED <<store, answer>>
        /\ UNCHANGED <<remote, tag, ops, histories>>

\* A tag that is placed refuses every other push of it from then on.
TagAt(version) == tag' = [at |-> version, late |-> {}]

TagPushed(w) ==
    /\ Tagging(w, "push") /\ tag.at \in {0, store[w].head}
    /\ TagAt(store[w].head)
    /\ EndFlush(w, store[w])
    /\ UNCHANGED <<remote, localTag, answer, ops, histories>>

\* The tag once a push of it may still be on its way.
TagUnderWay(w) ==
    IF TagPlaced THEN tag ELSE [tag EXCEPT !.late = @ \cup {store[w].head}]

\* Refused, since another process placed the tag after it was read, failed, or
\* not heard of; the last is sent again for a while.
TagPushFails(w) ==
    /\ Tagging(w, "push")
    /\ \/ UNCHANGED tag
       \/ LosesReplies /\ tag' = TagUnderWay(w)
    /\ flush' \in {flush, [flush EXCEPT ![w].tagging = "check"]}
    /\ UNCHANGED <<remote, store, localTag, answer, ops, histories>>

\* The tag existing is the outcome either way.
TagChecked(w) ==
    /\ Tagging(w, "check")
    /\ EndFlush(w, store[w])
    /\ \/ TagPlaced /\ UNCHANGED answer
       \/ Answer(w, "tag_error")
    /\ UNCHANGED <<remote, tag, localTag, ops, histories>>

EnsureRunTag(w) == TagRead(w) \/ TagPushed(w) \/ TagPushFails(w) \/ TagChecked(w)

\* A push of the tag nobody heard of arrives after all.
LateTag(version) ==
    /\ version \in tag.late
    /\ TagAt(version)
    /\ UNCHANGED <<remote, store, flush, localTag, answer, ops, histories>>

\* The process dies.  Its checkout keeps the local tag; a push it had under way
\* may still arrive.
Crash(w) ==
    /\ store[w] # Opened
    /\ StoreIs(w, Opened)
    /\ flush' = [flush EXCEPT ![w] = NotFlushing]
    /\ Answer(w, "none")
    /\ inflight' \in {inflight} \cup
          (IF InPhase(w, "push") /\ store[w].head = origin.ver
           THEN {inflight \cup {ThePush(w)}} ELSE {})
    /\ tag' \in {tag} \cup (IF Tagging(w, "push") THEN {TagUnderWay(w)} ELSE {})
    /\ UNCHANGED <<origin, localTag, ops, histories>>

-----------------------------------------------------------------------------
(* The specification *)

Init ==
    /\ origin = [ver |-> 1, view |-> EmptyView, last |-> NoPush]
    /\ inflight = {} /\ tag = [at |-> 0, late |-> {}]
    /\ store = [w \in Writers |-> Opened]
    /\ flush = [w \in Writers |-> NotFlushing]
    /\ localTag = [w \in Writers |-> 0]
    /\ answer = [w \in Writers |-> "none"]
    /\ ops = [w \in Writers |-> 0]
    /\ landed = {} /\ acked = {} /\ disowned = {} /\ ended = {}

Calls(w) ==
    \/ Fetch(w)
    \/ \E p \in Markers \cup Registers : Create(w, p)
    \/ \E p \in Registers : Update(w, p)
    \/ \E state \in States : PutCheckpoint(w, state)
    \/ \E t \in Trackers, held \in BOOLEAN : StageChanges(w, t, held)
    \/ Hold(w) \/ Release(w) \/ Abandon(w)

FlushStep(w) ==
    \/ PushAcked(w) \/ PushRefused(w) \/ PushLost(w) \/ ExchangeFails(w)
    \/ OwnLanded(w) \/ HeldLost(w) \/ Rebuilt(w)
    \/ EnsureRunTag(w)

Next ==
    \/ \E w \in Writers : Calls(w) \/ FlushStep(w) \/ Crash(w)
    \/ \E push \in inflight : LateArrival(push)
    \/ \E version \in tag.late : LateTag(version)

Spec == Init /\ [][Next]_vars

-----------------------------------------------------------------------------
(* Properties *)

FlushCalls == {"none", "record", "final", "tag", "stage", "release"}
Answers == {"none", "fetched", "no_change", "created", "updated", "staged", "released",
            "conflict_exists", "conflict_stale_sha", "conflict_missing_base",
            "held_conflict", "error", "tag_error"}
RecordIds == [by: Writers, op: Nat, path: Records \cup Trackers]
Pushes == [by: Writers, base: Nat, recs: Seq(HeldWrites)]
Stores == [head: Nat, view: Views, baseView: Views, fetched: BOOLEAN,
           holding: BOOLEAN, held: Seq(HeldWrites)]
Flushes == [phase: {"idle", "push", "refused", "tag"}, call: FlushCalls,
            lost: {"", "conflict_exists", "conflict_stale_sha"}, sent: SUBSET Pushes,
            uncertain: BOOLEAN, try: 0 .. MaxPushes - 1, tries: 0 .. MaxTries - 1,
            tagging: {"read", "push", "check"}]

\* The shape of the state.  The push loop's counters stay under MaxPushes and
\* MaxTries, so every call that contends for the branch answers.
TypeOK ==
    /\ origin \in [ver: Nat, view: Views, last: Pushes]
    /\ inflight \subseteq Pushes
    /\ tag \in [at: Nat, late: SUBSET Nat]
    /\ store \in [Writers -> Stores]
    /\ flush \in [Writers -> Flushes]
    /\ localTag \in [Writers -> Nat]
    /\ answer \in [Writers -> Answers]
    /\ ops \in [Writers -> Nat]
    /\ landed \subseteq RecordIds /\ acked \subseteq RecordIds
    /\ disowned \subseteq RecordIds
    /\ ended \subseteq Nat

\* A marker (dispatch marker, decision, evidence) that is on origin is never
\* written again, whatever push was late, rebuilt or repeated.
MarkersNeverChange ==
    [][\A p \in Markers : origin.view[p] # Absent => origin'.view[p] = origin.view[p]]_vars

\* No update is lost: the branch's checkpoint and its sheets advance by exactly
\* the records of the push that lands, so each was written on what it replaces.
NoLostUpdate ==
    [][origin' # origin =>
         \A p \in Registers \cup {Checkpoint} :
            LET written == Cardinality({i \in DOMAIN origin'.last.recs :
                                           origin'.last.recs[i].path = p})
                seq(b)  == IF b = Absent THEN 0 ELSE b.seq
                new(b)  == IF p \in Registers /\ b = Absent THEN 1 ELSE 0
            IN  seq(origin'.view[p]) + new(origin.view[p])
                   = seq(origin.view[p]) + written + new(origin'.view[p])]_vars

\* The effect a marker guards happens once: of all the creates of one path, at
\* most one is told "created".
AtMostOneGrant ==
    \A a, b \in acked : a.path \in Markers /\ a.path = b.path => a = b

\* Durable means pushed: what a writer was told landed is on the branch.
AckedIsDurable == acked \subseteq landed

\* What a writer was told did not land never lands, not even late.
HonestRefusal == disowned \cap landed = {}

\* What a store believes origin holds, its own chain apart.
Base(s) == IF s.held = <<>> THEN s.view ELSE s.baseView

\* A writer whose head is origin's has origin's view under its own chain; a
\* guard compared against it is compared against origin.
ViewIsOrigins ==
    \A w \in Writers :
        store[w].fetched /\ store[w].head = origin.ver => Base(store[w]) = origin.view

\* A writer that has read origin since it started sees every record it was told
\* landed, through refused pushes, dropped chains and rebuilds.
ReadsItsWrites ==
    \A a \in acked :
        a.path \in Records /\ store[a.by].fetched => store[a.by].view[a.path] # Absent

\* A record never overtakes one its writer chained before it.
OrderKept ==
    \A a \in acked : \A i \in DOMAIN store[a.by].held : store[a.by].held[i].op > a.op

\* The run tag keeps an end of the run.  It is placed once and never moves, on a
\* commit at or after one whose checkpoint is terminal: whoever else places it
\* between the read and the push, whichever push of it was late, and whatever
\* was chained before the end.  A process that is told its tag is placed, being
\* told no error, is told so of a tag that is.
TagKeepsTheEnd ==
    [][/\ tag'.at # tag.at => tag.at = 0 /\ \E v \in ended' : v <= tag'.at
       /\ \A w \in Writers :
            InPhase(w, "tag") /\ flush'[w].phase = "idle" /\ answer'[w] \notin {"tag_error", "none"}
                => tag'.at # 0]_vars

-----------------------------------------------------------------------------
(* The abstract store *)

\* A create that was told "created", as the record it put at the path.
GrantOf(a) == [seq |-> 0, state |-> NoState, body |-> Body[a.by], at |-> a.op]

\* The store implements a ledger whose batches land atomically and whose grants
\* are given once, by the record itself.
Ledger == INSTANCE RunLedger WITH
    Advancing <- Registers \cup {Checkpoint},
    records   <- origin.view,
    granted   <- [p \in Markers |-> {GrantOf(a) : a \in {b \in acked : b.path = p}}]

ImplementsLedger == Ledger!Spec

=============================================================================
