# Verification of ticfac

TLA+ models of ticfac's coordination code, model-checked with TLC on small
instances and, where stated, proved with TLAPS for every value of the constants.
Paths are relative to the repository.

* [The system](#the-system): the components, their state, what can go wrong
* [The modules](#the-modules): how each corresponds to the code
* [The runs](#the-runs): what TLC checks, under which bounds and fairness
* [The proofs](#the-proofs): theorems, inductive invariants, assumptions
* [Disagreements](#disagreements): where the code and its documentation part
* [Not modelled](#not-modelled) and [Plan](#plan)

## The system

ticfac drives coding agents through the tasks of an epic. A *reconciler* reads two
durable authorities, the tracker and the Git remote, decides what the next step of
a run is, and takes it through a four-operation executor protocol (start, inspect,
cancel, collect). Several reconcilers may be alive for one run (a laptop and a
cloud container, a restarted process beside its predecessor), nothing is locked,
and everything that must survive a crash is on the run's branch under `.ticfac/`.
In the cloud the same reconciler runs in a container that a Workflow supervises,
and Durable Objects decide which run of a project may go on.

| component | state | operations | hard behaviour | what makes it correct |
|---|---|---|---|---|
| **Run-state store** `internal/runstate` | records of a run on a Git branch; a view, a chain of held records and a push loop per process; a run tag | create-if-absent, update-if-sha, checkpoint, staged tracker changes, hold, release, abandon, fetch, tag | every write is a push under a lease that others take; pushes are lost, late and repeated; processes crash | one grant per marker, no lost update, nothing granted that is not on the branch, nothing refused that lands |
| **Lease table** `cloudflare/src/lease.ts` | one row: run, token, deadline | acquire, renew, reclaim, release, expire, compare-and-delete | a lapsed row still stands until the alarm; a holder comes back after its lapse | a live lease is never taken, a superseded holder stays out |
| **Run room** `cloudflare/src/run-room.ts` | the lease of a project, remembered lapses, queued submissions, one alarm | the table's, park, cancel, ignite, alarm | one await in the middle of a hand-on; one alarm for several deadlines; the process is evicted | one arbiter per project, no room asleep on a deadline, no submission stranded or dropped silently |
| **Run submission** `cloudflare/src/runs.ts` | the run row, the Workflow | submitRun, startRun, bootRun | the lease and the queue are two calls; a boot fails half-way | a refused submission parks or is refused, a failed boot leaves nothing |
| **Run workflow** `cloudflare/src/run-workflow.ts`, `run-orphans.ts` | the supervised pass, its boots and budgets, the run's index row | boot, look, reboot, stop, finalize; orphan sweep; the operator's stop | a boot step is retried over what it already did; the instance dies at any step, a stop races all of it | one orchestrator can spend, none runs beside its successor, a hard stop is a refusal, the record ends terminal |
| **Run watch** `run-watch.ts` | looks, the exit reported, the settle window | hear, ask, judge, linger, out of looks | silence against a dead run, a report against an exit | a boot ends by what its own process did |
| **Done door** `run-done.ts` | none | authorise, post the exit as a buffered event | the event outlives the boot it came from | the signal decides nothing |
| **Gateway and credentials** `gateway.ts` | a run's tokens | mint over the grave of the last, revoke, authorise | a stop or a retry between revoke and mint | at most one live orchestrator credential |
| **Reconciler** `internal/reconcile` | rows and markers on origin, job directories on the host, its own memory | dispatch, adopt, poll, collect, merge, gate, close, hold, release | killed anywhere, the host lost, a person releases meanwhile | no attempt beside a live one, no work orphaned, bounded retries |
| **Executors** `internal/exec`, `internal/herd` | processes and panes, job files | start, inspect, cancel, collect, dispose | a start half done, an orphan process, a job that outlives its report | what the reconciler reads of a job is what became of it |
| **Dispatch door** `cloudflare/src/sandbox-dispatch.ts`, `sandbox-executor.ts` | the rows of an attempt: boot, verdict, reclaim | authorise, look at the lease, start, state | the lease lapses, is taken or is released after the check; a call outlives its run | no worker for a run that is not the arbiter, one verdict per attempt |
| **Worker host** `harness/src/host`, `cloudflare/src/worker-agent.ts` | an attempt's record and conversation, a heartbeat, the host and the drive of this life | boot, converse, finish, settle, stop as stuck, reclaim, forget | evicted at any await; the container dies under a phase; a reclaim or a replaced life beside a parked drive | an attempt settles, once; one that was stopped is not resumed |
| **Container capacity** `container-capacity.ts` | slots of the account, the same rows | adopt, reclaim, sweep | a destroy that does not take; a start under way while the run ends | an ended run holds no container |
| **Signal inbox** `cloudflare/src/signal-inbox.ts`, `tracker-write.ts` | draft and dedup rows, the candidates of a claim, a promise chain of commits | submit, decide, reconcile, commit | evicted between claim, PUT and write-back; a PUT lost or late; ids another writer takes; a second press during a look | a signal is filed once, a pending draft has no record, a decision is final |
| Run registry, ref sweep `internal/runregistry`, `internal/refsweep` | a lock per checkout, refs of ended runs | claim, release, sweep | stale claims, a run that is revived | a live run is never swept |
| Signal sources `phone.ts`, `telegram.ts`, `drafts.ts` | none that the gate relies on | submit, press, render | redelivery | consent reaches the gate unchanged |
| Repo room `repo-room.ts`, `git-contents.ts` | the publish slot, a promise chain of publishers | publish tracker, profiles | a write in flight while its slot lapses | one writer of `.tick/` at a time; nothing in production calls it any more |
| Branch registry `branch-registry.ts`, `branch-ownership.ts` | claims on branches | claim, release, look | a race for one name | one owner per branch |
| CI remediation, reviews `ci-remediation.ts`, `pr-review.ts` | attempts per branch and head | claim, dispatch, settle | duplicate webhooks | bounded attempts, one review per head |
| Factory, CLI, status model, feeds, index, image, contracts | configuration, read models, proxies | | | |

The parts in bold are modelled.

How they interact: the reconciler calls the store and the executors; the store talks
to Git only. A submission calls the run room (acquire, then, refused, park), then
creates the Workflow; the Workflow renews the room's lease, boots the reconciler's
container with a credential it mints, watches its process, and releases at the end;
the process reports its exit at the done door and spends through the gateway; the container calls the dispatch door, which
asks the room and starts the attempt at a WorkerAgent, which boots the worker's container and settles what became of it; the room's alarm and releases call back into `startRun` for a parked
submission. The inbox stands before all of this: what a person accepts there becomes
a tick record on the tracker's branch, which runs then read. The hazards of this code, each at its line, are listed in
`PROJECT.json` with the properties that watch them.

## The modules

| module | models | by |
|---|---|---|
| `RunStore` | `internal/runstate`: several stores of one run on one remote | one action per call, per exchange with origin and per failure |
| `RunLedger` | what the store promises: atomic batches, one grant per marker | the specification `RunStore` implements |
| `Lease` | the methods of `lease.ts` | operators on one row: pure, so each room composes them |
| `RunRoom` | `run-room.ts` with its callers, on top of `Lease` | one action per call up to its first await |
| `SignalInbox` | `signal-inbox.ts` and the commit of `tracker-write.ts` | one action per stretch between two awaits, PUTs in two halves |
| `RunWorkflow` | `run-workflow.ts`, `run-watch.ts`, `run-done.ts`, `stopRun`, `run-orphans.ts`: one run and everyone around it | one action per journalled step; the boot step taken apart |
| `Credential` | what `issueRunToken` promises: one orchestrator credential at a time | the specification `RunWorkflow` implements |
| `Dispatch` | `internal/reconcile`: the life of a run's attempts | one action per walk, poll and step of the finish, one per step of a job |
| `WorkerAgent` | `worker-agent.ts` and `worker-attempt.ts`: one attempt, its host, its container | one action per stretch between two calls that leave the object |
| `WorkerDoor` | the door, the rows of D1 and the reclaim, composed with `WorkerAgent` | one action per call; the next-state relation of both |
| `MCRunStore`, `MCRunRoom`, `MCSignalInbox` | values of the constants for TLC | |
| `RunStoreProofs`, `RunStoreChainProofs`, `RunStorePromiseProofs` | the store's theorems: its shape, its chains, its promises | each extends the one before |
| `RunRoomProofs`, `SignalInboxProofs`, `RunWorkflowProofs`, `DispatchProofs`, `WorkerDoorProofs` | the theorems | |

`RunRoom` is built on `Lease`, `WorkerDoor` on `WorkerAgent`; `RunStore` implements `RunLedger`, and
`RunWorkflow` implements `Credential`. For the rest the modules do not compose into one: each abstracts what the others say of it to what
it relies on. `RunRoom` knows a Workflow as a phase and a lease token; `RunWorkflow`
knows the room as a trip any look may find; `Dispatch` knows the store as rows and
markers that land whole or not at all, which is what `RunLedger` promises; `WorkerDoor` knows
the run as one that is active or ended.

### RunStore

*State.* `origin` is the branch: a version, the record at each path, and the push
that made it (its head commit). `store[w]` is a process's `Store` (store.go:70):
`head`, `view`, `baseView`, `fetched`, `holding` and the chain `held`. `flush[w]` is
the push loop under way (held.go:299-350): which call asked, the pushes `sent`,
whether one is `uncertain`, the conflict kept for the answer, and the two counters.
`tag` is the run tag on origin with the pushes of it nobody heard of, `localTag` the one in a
process's checkout, and `flush[w].tagging` the exchange `ensureRunTag` is waiting for.
`inflight` holds pushes whose client heard nothing. `landed`, `acked`, `disowned`
and `ended` are histories the properties need; no guard reads them.

*Steps.* A call runs up to its first exchange with origin in one step: nothing else
touches the store's own state, so nothing is lost by that. Each push is then a step
of its own: acknowledged, refused because the branch moved, lost, or failed for
good. A refused push is re-examined in one step (one fetch): recognised as our own,
found to have lost a held guard, or rebuilt on the new head. Between any two of
these, the other process, a late arrival and a crash may step. `ensureRunTag`
(store.go:998-1034) is three more exchanges of the same loop: origin is read for the tag (`TagRead`),
the tag is pushed without force (`TagPushed`, or `TagPushFails`, when another process placed it after the
read among other reasons), and origin is read again after a push that failed (`TagChecked`). The
error of any of them is the answer `tag_error`; a push of the tag may arrive after its process gave up or died (`LateTag`).

*Abstractions.*
- A record is what the guards compare: its sequence number, its state, what its
  writer says, and its timestamp. `at` is the writer's call, so two calls never make
  equal records; `Body` differs between writers, as dispatcher names do.
- A commit is the push that made it, with its base: equal trees on one parent by two
  writers are two commits, and `SameContent` is what `ownWrite` (store.go:374-388)
  compares of them.
- When a push lands every other one under way was leased on the old head and can
  never land, so `Arrive` empties `inflight`.
- Tracker change sets are records no view shows and no guard protects.
- `LosesReplies` says whether the connection may lose an acknowledgement. It is an
  assumption about the environment, FALSE where a run asks what holds without.
- A fetch that fails before a call changes nothing and is a stutter.
- Not modelled: `Gate` and `Sweep` (refs of ended runs), `CommitLocal` (only tests
  call it), checkpoints whose sequence the caller sets.

*Bounds.* `MaxOps` calls per process; `MaxPushes` rounds of the push loop (8 in the
code) and `MaxTries` sends of a push (4 in the code), both kept as constants, since
the code's behaviour at the limit is part of the model.

### Lease and RunRoom

*State.* `slot` is the lease row, `lapsed` the lapse remembered per run, `queue` the
queued submissions, `alarm` the Durable Object's one alarm. `boots` are the
`startRun` calls under way, each with the token it was given, who began it and
whether the Workflow exists yet. `phase` and `cred` are the run's Workflow: how far it
got and the lease token in its params. `door` are requests that passed the
credential check. `sure[r]` is until when run r was last told it holds the lease;
`gaveup` and `dropped` are histories.

*Steps.* The storage of a Durable Object is synchronous and calls interleave only at
an await on something outside, so a method is one step, with one exception:
`#igniteNextQueued` (run-room.ts:1570-1629) writes the lease of a parked submission,
awaits its boot, and deletes the queue row afterwards. `HandOn` is the first half,
`Boot`, `BootDone` and `BootFails` the rest; cancels, alarms, submissions and
evictions happen between them. What callers do in two calls is two actions:
`Submit`/`Park`, `Renew`/`Reclaim`, `Finish`/`Release`, `DoorAuthorized`/`DoorAsks`.
`NextAlarm` is `#armAlarm` and is part of every action that calls it.

*Abstractions.*
- One clock for the room and its callers; deadlines are absolute times.
- The row insert and the Workflow's creation are one step of `Boot`, keyed by run id.
- Runs are submissions: a re-submission of an epic is another run of that epic.
- A renewal that throws is a stutter, as is any call that never reaches the room,
  except the release, which is given up (`Release`'s second disjunct).
- The lapses forgotten after a day (`LAPSED_LEASE_MEMORY_MS`) are beyond the horizon.
- `HoldTtl` stands for `BOOT_LEASE_TTL_MS`, `RENEWAL_TTL_FLOOR_MS` and
  `DOOR_RECLAIM_LEASE_TTL_MS` (600 s each), `IgniteTtl` for `DEFAULT_LEASE_TTL_MS` (60 s).
- Not modelled: stop records, pending questions, recorded run events, which share no
  state with the lease and the queue.

`Faults` names what may go wrong, so that each run says which failures it assumes:
`crash` loses the room's process during an ignition; `log` makes `startRun` throw
after the Workflow exists (logDispatch writes to D1); `slow` lets an ignition
outlast the lease taken for it; `late` lets alarms be late and a submitter's boot
outlast its lease. Death of a supervisor, a lost release and a failed boot are
always possible.

*Bounds.* `MaxTime`: no call is made later. `Horizon`: the clock stops.

### SignalInbox

*State.* `draft`, `cands` and `tick` are the columns of a `signal_draft` row that a
decision reads or writes; a draft that is not `absent` stands for its
`signal_dedup` row too, which is written with it and never removed. `line` is the
promise chain of `decide` (signal-inbox.ts:1073), the first entry the commit under
way, and `turn` that commit's locals: the candidate it has reached, its attempts, the
answer its PUT got. `asking` are presses that found a `committing` row nobody is
working on and are reading the tracker (`#reconcileCommitting`), each with the
candidates it took and the one it reads next. `tracker` says whose record each
`.tick/issues/<id>.json` is, `late` are PUTs that outlived their inbox. `blurred` is a
history: the signals one of whose PUTs may have landed without an answer.

*Steps.* A Durable Object's storage is synchronous, so a method is atomic between two
awaits: `Press` is `decide` up to the commit's first await, `Found`, `NotHere`,
`Nowhere` and `ReadFails` are one read of the look each, and a look that found nothing
goes on, in the same step, to decide the revived draft. A PUT is two steps, what it
did to the tracker (`PutLands`, `PutAnswered`) and what its caller makes of the answer
(`Committed`, `Retry`, `GiveBack`), because an eviction may fall between them. `Live` is
the set `#committing`, by which a second press is turned away.

*Abstractions.*
- `refused` stands for every answer that leaves the candidate where it was: a 409 on
  the branch, an error, a timeout.
- A press on a row that is decided, or on one this instance works on, and a
  redelivery change nothing and are stutters.
- A claim draws its list from `Candidates`. Nothing keeps two claims' ids apart in the
  code either; the lengths of ids and their alphabet are data.
- `Foreign` is any other writer of the tracker.
- Not modelled: rows older than the candidates column (`commit_unreconcilable`), the
  type, message and run columns, which no decision reads.

*Faults.* `evict` loses the chain and `#committing` anywhere in a press, `lost` lets a
PUT land without its answer, `late` lets a PUT in flight at an eviction land later.

*Bounds.* `MaxLate` late PUTs at once; `Width`, `MaxAttempts`, `QueueLimit` and
`MaxPending` are the code's own limits, smaller.

### RunWorkflow and Credential

*State.* `pc` is the Workflow step the instance stands at; the rest of a pass is its
counters (`boot`, `crashes`, `streak`, `tries`: run-workflow.ts:1370-1400), the
`WatchState` of the boot it watches (`watch`, `seen`), and how the pass ends
(`outcome`, `trip`; `net` once superviseRun's catch was entered). Beside it stand the
run's credentials (`live`, `minted`), its workers, its containers and processes (`up`,
`procs`, and what the newest one left: `exit`, `haltLine`, `said`), the events the
platform buffers (`mail`), the stop record and the request writing it (`stop`,
`stopper`), and the run's index row.

*Steps.* A Workflow step is journalled: the engine replays to it and never past it, so
each is one action, with two exceptions. The boot step is five (`Rotate`, `Mint`,
`Provision`, `Start`, `Booted`), because a retry repeats it from the start over what a
try before it did (`BootThrows`). A look is three (`Wait`, `Ask`, and what is made of the
answer), because the process may exit and the operator may stop between them.
`finalize` is four, in the order of its writes, because it is retried whole.
`StopAsked` to `StopChecks` are `stopRun`, one action per call it awaits.

*Abstractions.*
- Exit codes are the four classes the code tells apart. A report without an exit code
  behaves as `zero` does.
- The wall clock, the cost and a lease taken by another run are one hard trip that any
  look may find; a look may also find none.
- An instance lost or terminated is `errored`: nothing of it runs again.
- `Sweep` is the orphan sweep's `sweepOne`: it flips a row only from the state it read.
- Not modelled: the review pass, the local orchestrator and hosted conversations
  (`superviseReview`, `superviseLocalOrchestrator`); a failed read of the feed for a
  halt; a try of the boot step that is still running when the next one starts.

*Faults* are listed with the constant, in the module: a throw anywhere in the boot step,
unanswered looks, unreadable stop records, failing kills, destroys and revocations, steps
that exhaust their retries, a lost instance.

*Bounds.* `MaxSandboxBoots`, `MaxTransientReboots`, `MaxObservations`,
`MaxUnansweredLooks` and `BootRetries` are the code's own limits, smaller. `MaxStops`
bounds the operator's requests. Nothing else does: boots end because the budgets do.

### Dispatch

*State.* On origin: `row`, the checkpoint's row per tick; `last` and `tries`, the markers
(an attempt's tick, tier and the commits its base holds); `rel`, the release recorded of
an attempt; `ruled`, what the first checkpoint naming its rejection says of its work;
`judged`, `merged`, `delivered`, the collects recorded, the integration branch and the
attempt branches. On the host: `job`, as the job directory and the process show it; `work`, whether
an attempt's own commit is in the checkout, on origin, or both; `stray`, whether it leaves
its boundary. In the reconciler: `mem`, the rows as it holds them; `queue`, `live`,
`settled`, the window (reconcile/window.go); `bare`, the attempts it found merged and has no
handle of; `disp` and `fin`, the dispatch and the finish under way; `parked` and `retried`, what
it holds and how often it tried again. `unaddressed` is a history.

*Steps.* The reconciler is one goroutine: it admits and polls between two steps of the
finish under way, and `Between` says so. `Admit` is the whole walk over a tick's attempts
(claimDispatch, dispatch.go:945-1500), with the releases and tear-downs it makes on the way;
`AdmitHeld` is the walk that stops the run. A dispatch then takes four steps (`Place`,
`Claim`, `StartJob`, `Note`), a crash between any two; `DieStarting` is the death between a
job's record and its supervisor. A finish is `Collect`, then `Reject` or
`ReleaseWorker`, `Merge` or `Conflict`, the gate, `Close`. `HoldOnly` is what a refusal that holds
only its tick does: release with its work, dispatch again, or park. Between all of them
jobs commit, push, settle, fail, are walled and are lost, and a person settles.

*Abstractions.*
- An attempt's commits are one commit, known by the attempt's number; a merge of it
  merges what it carries.
- The tier ladder is 0 to `Ceiling`; derived tiers only, no labels or pins.
- The window's settled attempts are a set; the code finishes them in order.
- The host clock is not kept: a job may be walled, or found past its wall, whenever it runs.
- `Stop` is a refusal that stops the run with both checkpoints it writes (reject's, and
  Run's closing one); a crash between the two is not modelled.
- Not modelled: role jobs and repairs of a failed gate, answers to blocked ticks,
  infrastructure failures, takeover and a second reconciler on the run, classification,
  factory answers, waves and blockers, findings, tracker edits a worker delivers, a base
  that moved, push and tear-down failures, the replay of a completed run.

*Events* says what may happen beside the ordinary, so that each run says what it assumes.

*Bounds.* `MaxAttempt` attempts of a run; `Ceiling` and `MaxRetries` are the code's limits.

### WorkerAgent and WorkerDoor

*State.* Durable: `rec`, the attempt's record (worker-attempt.ts:196-237), `conv`, the
conversation in the object's storage, `alarm`, the heartbeat. Of one life of the object: `host`,
`drive`, the drive under way with the await it is parked at and the record it read before, `beat`, an
alarm handler that waits for a host, and `stop`, where a reclaim stands. `box` is the container with
its processes. `WorkerDoor` adds the rows of D1 (`booted`, `verdict`, `reclaimed`), the
orchestrator's call (`req`) and the reclaim of its run's workers (`sweep`).

*Steps.* While an object awaits its own storage nothing else enters it, so a step runs from one call that
leaves the object to the next: the container's door, a read of D1, a harness that closes. `Loop` is
`driveOnce` up to there. A drive is then parked (`ask`, `reply`, `wait`, `talk`, `stop`, `shut`), and
whatever it read is stale when it goes on: `Save` and `Settle` say what it does about it. `Land` is
the container's half of `startProcess` and `Reply` the caller's, because the object may be lost
between. `hostFor` reads D1 before it makes a host and does not look again, so a host may replace
another under which a drive goes on (`Adrift`, `mine`). `reclaim` is five steps, from what is
told to the release of the container.

*Abstractions.*
- The conversation is `none`, `working` or `over`; its turns, tools, nudges and steering change nothing
  the attempt turns on. `judgeResume`'s verdict on progress is anybody's guess (`Resume`).
- A boot that exits 0 without its handoff counts as one that failed. The status a finish is told is left out.
- How a process ended is kept while somebody may ask; then its id stands for another (`Free`).
- `start` is taken apart at the host it waits for (`Send`, `SendHosted`) and between the record and the
  heartbeat (`Recorded`, `Arm`), where the object may be lost. Both are writes of its own storage, so nothing else
  enters it there (`Gated`).
- The orchestrator asks about one attempt one call at a time. What a look at D1 reads before the boot
  row is written is read in `Start`: nothing but the agent's own state changes in between.
- The `do_v1` substrate, with the stuck watch on. Not modelled: the container path of subscription workers,
  reviews, the slots of the account, the result and the log, the watch sockets.

*Faults.* `crash`: the object is evicted or redeployed; `lost`: the container; `fail`: a call of
the drive, or its conversation, throws; `slow`: a stop is not answered in time; `destroy`: a destroy does not take.

*Bounds.* `PhaseRetries` and `ResumeLoopLimit` are the code's own. `MaxFaults` and `MaxStarts` bound
the faults and the orchestrator's starts, `ProcIds` the processes somebody may still ask about.

## The runs

Deadlock is off in every run (`CHECK_DEADLOCK FALSE`): calls, boots and attempts are
bounded, so a behaviour ends when they are spent.

| run | instance | properties | shows |
|---|---|---|---|
| `store_checkpoint` | 2 processes, 2 calls each, a marker and a checkpoint, live and terminal, replies lost, 2 rounds, 2 sends | `AckedIsDurable`, `AtMostOneGrant`, `MarkersNeverChange`, `ReadsItsWrites`, `NoLostUpdate`, `ImplementsLedger` | a marker is granted once, to the record that is there; guards are compared with what origin holds and no update is lost; the store implements the ledger |
| `store_steps` | 2 processes, 2 calls each, held checkpoints, tracker changes, a create and a terminal checkpoint with its tag, replies arrive | `TypeOK`, `HonestRefusal`, `OrderKept`, `TagKeepsTheEnd` | a step that was refused never lands, no record overtakes an earlier one, the loop's counters stay in bounds; two processes that both find no tag place one, it never moves, and its history holds an end of the run |
| `room_faults` | 2 runs, every fault, calls to 2, clock to 4 | `AlarmCovers`, `NeverStolen`, `SupersededStaysOut` | no room asleep on a lease, no live lease taken, no comeback of a superseded holder |
| `room_ends` | 3 runs, two of one epic, no faults, calls to 1, clock to 6 | `TypeOK`, `OneArbiter`, `WaitsOutTheHolder`, `RoomDrains` | never two arbiters; who waits for the release is not dropped behind a holder; one parked submission per epic; a dead run's lease and every parked submission end |
| `inbox` | 2 signals, claims of 2 ids that share one, another writer, every fault | `TypeOK`, `FiledOnce`, `DraftAgrees`, `DecisionIsFinal`, `EveryPressAnswers` | a signal whose PUTs were answered is filed once and its draft says so; nothing decided is undone; whoever a press waits for, it ends |
| `run_boots` | transient and crashing exits, 2 crashes, 1 transient reboot, 1 retry of a boot step, 2 looks, 2 stops; throws, failed kills, exhausted steps | `TypeOK`, `OneSpender`, `NoneBesideTheNext`, `EndedIsQuiet`, `ImplementsCredential`, `HardStopIsARefusal` | one orchestrator can spend however boots and their tries fall; none runs beside its successor; a hard stop is neither weakened nor booted over; a finished run holds nothing |
| `run_stops` | one worker, exits 0, 2 boots, 2 looks, 2 stops; unreadable records, unanswered looks, failed destroys and revocations, a lost instance | `CleanStopKeepsItsGrace`, `RecordEnds` | a clean stop leaves the credential to the end of its grace; the record ends terminal whoever writes it last |
| `dispatch` | 1 tick, 3 attempts, one tier, 1 retry; crashes, lost supervisors, lingering and straying workers, conflicts, red gates, releases by a person | `TypeOK`, `LadderIsBounded`, `JudgedStands` | the run's own releases of a tick are bounded over every restart; judged work is given up for a conflict and nothing else |
| `dispatch_hosts` | 2 ticks, 2 attempts, one tier, 1 retry; crashes, a lost host, lost supervisors, overdue jobs, refused claims, unrecorded decisions, releases by a person | `LiveIsNeverRedispatched`, `WorkIsNeverOrphaned` | no attempt runs beside another of its tick but one refused as unaddressed; none is placed over work nobody released |
| `worker` | 1 retry of a phase, 2 resumes, 3 process ids, 2 faults of every kind, 2 starts | `TypeOK`, `SettledStands`, `StoppedIsNotResumed`, `AttemptEnds`, `EndedRunHoldsNothing` | what is settled or was stopped stays so, whoever was parked meanwhile; an attempt that once had a heartbeat or a drive ends, whatever is lost from then on; an ended run holds no container and drives nothing, for good |
| `stale_report`, `hold_misread` | | one each | the [disagreements](#disagreements) |

*Why these bounds.* Two processes and two calls each are what the races of the store
need: one call to establish what the other is compared with, one to race. Two
rounds of the loop let a rebuild be refused; two sends let a push be lost
once and repeated. The two processes differ in nothing but who they are, so the store's runs take
one state of each pair that an exchange of the two gives (`SYMMETRY`; the properties are all safety). In the room, a hold of 2 lets a lease
lapse, be swept, be taken by the second run and be asked for again by the first;
one holder with one waiting submission meets every order of release, alarm, cancel
and boot, and the third run of `room_ends` adds the repeat of an epic and the order
of the queue. The clock runs on after the last call until every deadline set by
then has passed, which `room_ends` would report if it did not.

In the inbox, two candidates and two attempts meet every outcome of a commit: taken at
the first id, refused then created, spent on taken ids, spent on refusals. The
candidate lists share their first id, so a commit walks past another signal's record
and a look reads one.

In the workflow, two crashes, one transient reboot and one retry of the boot step meet every
way a budget runs out and every way two tries of one boot, or two boots, may overlap; two looks
are one that is answered and one that runs out; two stops are a clean one and the hard one
that upgrades it. The two runs split the faults: a destroy that fails makes a process of an earlier
boot run beside the next, an unreadable record lets a boot be counted over a hard stop, and the
properties of `run_boots` are not claimed under those two.

In the dispatch, one tick and three attempts is the shortest life in which an attempt that
was released, one that carries on from it, and a third at the ceiling meet; one tier makes
the first release the escalation-free further try, so the ceiling is met. Two ticks and two attempts meet
everything two ticks share: the window, the finish, the text of the closing checkpoint. A
restart is free, so every crash is met however often.

`LadderIsBounded` and `JudgedStands` are not claimed of a host lost with its work. Both fail
there: the [notes](#disagreements) say how, and which other events the theorems about them exclude.

In the worker, two faults are a crash of the object and one of anything else, or a fault and
its repetition in the repair of it: a destroy that does not take and the start that lands after
it, a stop that times out and a crash under it. One retry of a phase meets both a phase that is retried and one that
is spent; three process ids are one in the record, one the drive read before and one a lost reply left behind; two
starts meet a record that was settled and taken over.

*Fairness.* `room_ends`, `inbox`, `run_stops` and `worker` need it. In `inbox`, `WF(Commit)` and
`WF(Reads(s))` for each signal: a request that was sent is answered or throws, which
is what `fetch` does. In `room_ends`, `WF(Tick)`: time passes. `WF(Alarm)`: the
platform delivers an alarm at least once. `WF(Booting)`: a call under way returns or
throws, which is how `startRun`'s awaits are bounded. No fairness on submitters,
supervisors, the door or the orphan sweep: a lease must end without them.
`Faults = {}` there, since an eviction at each ignition would rightly retry for ever.
In `run_stops`, `WF(Supervises)`: the engine drives an instance and retries its steps
until it has ended, or has lost it. `WF(Sweep)`: the orphan sweep is on a schedule. An
operator, a request to stop and an orchestrator owe nothing. `step` is left out there: the
model does not count a finalize's retries, and the engine does.
In `worker`, `WF(DriveStep)`, `WF(Stopping)` and `WF(DoorStep)`: a call that left the object or the door
returns or throws. `WF(Beat \/ BeatHosted)`: the platform delivers an alarm at least once.
`WF(Exit)`: a boot or a finish ends; this is assumed of the scripts, for the host sets them no limit.
`WF(Talk)`: a conversation ends or the stuck watch stops it; the watch is on by default
(`stuck-watch.ts`). `WF(Sweep)`: finalize, then the hourly sweep, within the window in which it looks again. A
faultless step of each is always enabled where the faulty one is, so a destroy takes and a stop is answered in the end:
`MaxFaults` says so. Nothing is owed by the orchestrator, which may never ask.

*Mutants.* For each property of a passing run `PROJECT.json` names a change of a
definition, the way a plausible bug would make it (a dropped half of a guard, a view
that is not reset, an alarm that forgets the lease), under which TLC finds the
property violated. The mutated forms stand before the definitions they mutate.

## The proofs

`tlapm` checks every step of the eight proof modules, for any set of writers, paths,
runs, epics, signals, ids, candidate lists, workers, ticks and process ids and any bounds, from the modules' named
assumptions on their constants alone. (Those ask for what the code gives: distinct sets of
paths, positive retry limits, lease lengths and windows, a model value outside its set. A window is positive
because the door refuses a shorter one than `MIN_QUEUE_TTL_MS`, runs.ts:140 and run-room.ts:495.) What a theorem
assumes beyond that stands in the table and is explained below it.

| theorem | states |
|---|---|
| `RunStoreProofs!TypeCorrect` | `Spec => []TypeOK`, the bounds of the push loop included |
| `RunStoreProofs!ViewsAreOrigins` | `Spec => []ViewIsOrigins`: every guard is compared with what origin holds |
| `RunStoreProofs!MarkersAreImmutable` | `Spec => MarkersNeverChange` |
| `RunStoreChainProofs!ChainsFit` | `Spec => []MadeInv`: every chain fits on what it is based on |
| `RunStoreChainProofs!UpdatesAreKept` | `Spec => NoLostUpdate` |
| `RunStorePromiseProofs!AckedMeansLanded` | with `BodiesDiffer`, `Spec => []AckedIsDurable` |
| `RunStorePromiseProofs!GrantsAreUnique` | with `BodiesDiffer`, `Spec => []AtMostOneGrant` |
| `RunStorePromiseProofs!WritesAreRead` | with `BodiesDiffer`, `Spec => []ReadsItsWrites` |
| `RunStorePromiseProofs!ChainOrderKept` | with `BodiesDiffer`, `Spec => []OrderKept` |
| `RunStorePromiseProofs!StoreImplementsLedger` | with `BodiesDiffer`, `Spec => ImplementsLedger`: every step of the store is a batch of the ledger or a stutter |
| `RunStorePromiseProofs!RefusalsAreHonest` | while no reply is lost, `Spec => []HonestRefusal` |
| `RunStorePromiseProofs!TagPlacedOnce` | `Spec => TagKeepsTheEnd`, with tracker change sets, lost replies and crashes |
| `RunRoomProofs!TypeCorrect` | `Spec => []TypeOK`, one parked submission per epic included |
| `RunRoomProofs!LeaseCovered` | `Spec => []AlarmCovers` |
| `RunRoomProofs!LeaseNeverStolen` | `Spec => NeverStolen` |
| `RunRoomProofs!SupersededHoldersStayOut` | `Spec => SupersededStaysOut` |
| `RunRoomProofs!WaitersOutliveTheHolder` | `Spec => WaitsOutTheHolder`, with every fault |
| `RunRoomProofs!OnlyOneArbiter` | with `Faults \subseteq {"late"}`, `Spec => []OneArbiter` |
| `SignalInboxProofs!TypeCorrect` | `Spec => []TypeOK` |
| `SignalInboxProofs!FiledAtMostOnce` | `Spec => []FiledOnce` |
| `SignalInboxProofs!DraftsAgree` | `Spec => []DraftAgrees`: `PendingIsUnfiled`, `ClaimNamesItsTick`, `FiledIsOnRecord` |
| `SignalInboxProofs!DecisionsAreFinal` | `Spec => DecisionIsFinal` |
| `SignalInboxProofs!EvictionFilesNothingTwice` | `Faults \subseteq {"evict"}` and `Spec` give `[]BlipFilesNothingTwice` |
| `RunWorkflowProofs!TypeCorrect` | `Spec => []TypeOK` |
| `RunWorkflowProofs!AtMostOneSpends` | `Spec => []OneSpender`, with every fault |
| `RunWorkflowProofs!RotationIsSound` | `Spec => ImplementsCredential`: every step rotates, revokes or stutters |
| `RunWorkflowProofs!HardStopStands` | without `blind`, `Spec => HardStopIsARefusal` |
| `RunWorkflowProofs!NoneIsBeside` | without `destroy`, `Spec => []NoneBesideTheNext` |
| `RunWorkflowProofs!FinishedIsQuiet` | without `destroy` and `revoke`, `Spec => []EndedIsQuiet` |
| `RunWorkflowProofs!GraceIsKept` | `Spec => []CleanStopKeepsItsGrace` |
| `DispatchProofs!TypeCorrect` | `Spec => []TypeOK` |
| `DispatchProofs!LiveNeverRedispatched` | `Spec => []LiveIsNeverRedispatched`, with every event |
| `DispatchProofs!NoWorkIsOrphaned` | `Spec => WorkIsNeverOrphaned`, with every event |
| `DispatchProofs!LadderBounds` | without `wipe` and `overdue`, `Spec => []LadderIsBounded` |
| `DispatchProofs!VerdictStands` | without `wipe` and `decision`, `Spec => JudgedStands` |
| `WorkerDoorProofs!TypeCorrect` | `Spec => []TypeOK`, the bound on a phase's tries included |
| `WorkerDoorProofs!SettledRecordStands` | `Spec => SettledStands`, with every fault |
| `WorkerDoorProofs!StoppedStays` | `Spec => StoppedIsNotResumed`, with every fault |

*The store's argument.* A push lands only when its base is origin's version, so what
must be known is what a push carries: the records of a chain whose guards were held
against exactly the view of that base. The inductive invariant says this of the
three places a push comes from: the chain of each store (its base view is the view
of its head, no guard of the chain is lost on it, and no head is ahead of origin),
the pushes in flight, and what a push loop already sent. `ViewIsOrigins` is
its first part restricted to the current version. A create whose path is taken
cannot be in a chain based on origin's version; so no landing overwrites a marker.

What lands is then known by its guards alone. That a record also counts what came before it needs its place in the
chain: `MadeInv` says that the i-th record of a chain was made by one call of its writer, later than the i-1 before
it, has the number the view and those give it, and that nothing waiting has landed. Every step is one of
`Quiet` (nothing lands and nobody is told that something did), `PushAcked`, `OwnLanded` and `LateArrival`, and
`NoLostUpdate` is read off the last push at the two that land one. What writers are told needs `AckedInv` on top:
what is acknowledged is on the branch and stays in its writer's sight. The delicate step is `OwnLanded`, where a
writer concludes from what stands at the head that its unanswered push landed.

*The store's assumptions.* `BodiesDiffer`: two processes write different records. `ownWrite` (store.go:374-388)
compares contents, and a record names its process (a dispatch marker its dispatcher): two processes with
equal records could each take the other's for its own. `~LosesReplies`: with a lost reply a held step
that landed is reported as one that did not; the [notes](#disagreements) say how.

*The tag's argument.* A process that is about to tag must be known to stand on an end. `TaggedInv` says where
that comes from: whoever reads a terminal checkpoint has a head at or after one that landed (`EndsRead`); a chain
that is being flushed for a terminal checkpoint has it as its last record, so when that push lands, or is recognised at
the head, its version is an end itself (`LastShows`); and a process that tags, with whatever it flushed before, has a head at or
after an end (`TagsAfterEnd`). `LateInv` adds that a push of the tag that is still on its way carries such a head
and that none is once the tag is placed. Every move of the tag is then one of the two steps that place it, from no tag.

*The room's argument.* `IInv == TypeOK /\ AlarmCovers`. `AlarmCovers` alone is
inductive but for the steps that take a minimum of deadlines, which need the type of
the rows: the alarm is recomputed from the row wherever the row changes, except in
the alarm's own handler, where the boot that is under way stands for the alarm it
will set, or which fires again. `SlotStep` classifies what any step does to the row
(unchanged, extended, emptied, replaced when not live, given up), and `NeverStolen` and
`SupersededStaysOut` are read off it. `QueueStep` does the same for the parked submissions, whose windows are never
empty: one that waits is announced as expired only where no lease row stands.

`OneArbiter` needs to know who may be booting. `SoleInv == Arbiters /\ Ignitions`: whoever was told of a hold that
has not run out is in the lease row for at least as long (`DriversHold`), and of the boots under way none belongs
to a run that drives, the room's own is unique, holds the lease and ends within it, and its row stands in
the queue until it returns (`Ignitions`). The theorem is for rooms that are not lost in the middle of an ignition, whose boots do not fail after
they created the Workflow and end within their lease. Without each of these the code has
two arbiters, as the notes say; a late alarm, and a submission's own boot that outlasts its lease, are allowed.

*The inbox's argument.* What a retry relies on is that nothing of its draft is on
record, and what a look relies on is that whatever is on record is at a candidate it
has not passed. So `IInv` says, of the signals that are not `blurred`: whoever is in
line is `committing`, is there once, and has no record, unless its PUT is the one under
way and answered `created`, when the record is at `Target` (`Lining`); a look holds the
candidates of its row, its draft is in no line, and the candidates it read are
not its draft's (`Asking`); and every late PUT belongs to a blurred signal
(`LateIsBlurred`). `Filing` is what the four invariants say. That decisions are final
needs `Lining` and `Asking` for every signal, blurred or not: only a `committing` draft
is in line or being asked about. With evictions alone nothing is ever blurred, which is
how `EvictionFilesNothingTwice` follows.

*The workflow's argument.* What one orchestrator may spend follows from `OneLive`: the live
credentials are at most the newest minted, there are none at the step that mints, and no two
processes have one token, since a retry rotates and mints before it starts. The
refinement of `Credential` is that invariant read at each step: `Mint` is its `Issue`, every
revocation its `Revoke`, everything else a stutter. `TypeInv` strengthens the types with `Judged`
(an outcome stands wherever `finalize` may read one) and `Begun` (a boot was counted wherever one
is under way). The three theorems with an assumption are false without it, for the reasons above.

*The dispatch's argument.* The walk decides from the rows and the releases, never from the jobs of
other attempts, so what must be known is what these say of who still runs. `IInv == TypeInv /\ World
/\ Flight`. `World` speaks of origin and the host alone, so a crash keeps it: what is
released is still (`ReleasedIsStill`), an attempt that runs unmarked has only released ones after it
(`OlderReleased`), and a rejected row, on origin or in memory, means that whatever of its tick runs is
marked (`RowMarks`, `MemMarks`). `Flight` says where an attempt may be while it is under way, which is what
a crash empties: a tick is in one place only (`OnePlace`); who is at hand is the only unmarked one of
its tick that may run (`OthersMarked`); what is to be started never ran and everything after it was released
(`Unstarted`, `LaterReleased`, `NewIsLast`); and before an attempt is placed every earlier one was
released, is marked, or left nothing and ended (`NothingLeft`). The last is what the walk establishes over a
whole tick at once (`AdmitKeeps`), and both theorems are read off it: `Place` is the only step that makes
an attempt. `Calm` classifies the steps that start nothing, which is all but `StartJob`.

*The dispatch's ladder.* A walk reads the releases once and disposes of every attempt that holds work, so the ladder
is bounded only if one walk finds one. `LadderInv` says that of the attempts of a tick nobody released only
the latest has work or runs (`OnlyLatest`), that the tier of an attempt counts all earlier tries of its tick that
no person released (`CountsKept`), that an attempt at the ceiling was given its one further try at most once
(`OneCeiling`), and the same of the attempt about to be placed. `Steady` is what every step but `Place` and
`StartJob` does to it: nothing starts, nothing gains work but what runs, and a release needs work and a
step left. `LadderIsBounded` then is a count: below the ceiling releases have different tiers, at it there is one.
Hosts are kept and no running job is given up as overdue (`KeptHosts`): either leaves an earlier attempt whose work
shows up after a later one was placed, and the ladder is exceeded, as the notes say.

*The dispatch's verdicts.* The run releases in two places, when an attempt at hand settles and
when a walk meets what a rejected row holds. `StandInv` keeps judged attempts out of both. One at hand would be judged
ready again (`JudgedReady`) or is past judging (`FinKnows`). A judged attempt that still holds its work is the last of its
tick nobody released (`JudgedLatest`), none is under way beside it (`OthersJudged`) and none is about to be placed
(`PlaceJudged`), so no other attempt gets its row rejected; these follow from what is known of the attempt when it is
judged, that whatever was placed after it is released (`LaterGone`). Its own row is rejected only by a conflict the ladder
has no step left for (`JudgedHeld`), and what may be disposed of only shrinks (`DisposesLess`). The ladder's bound
plays no part, so overdue jobs are allowed. Both assumptions are needed: TLC violates the property in one tick with a lost
host, and with a release that goes unrecorded (`decision`) in two ticks and three attempts.

*The worker's argument.* `IInv == TypeOK /\ TriesLeft /\ StoppedIsQuiet`. The type alone is not inductive: a phase
counts its try when the reply arrives, from the record the drive read when it asked, so what bounds the record is that
whoever is parked at `ask` or `reply` read one with a try left (`TriesLeft`). That a stopped attempt is not
conversed on is not a property of the step that finds it: a drive at `talk` must already be known not to stand
on one (`StoppedIsQuiet`). The steps split into those that write the record through `Save` or `Settle`, of which
`SaveTypes` says what they keep, and the starts, which write it as a whole.

*Left to TLC.* Liveness (`RoomDrains`, `EveryPressAnswers`, `RecordEnds`, `AttemptEnds`,
`EndedRunHoldsNothing`), which this prover does not do. Every other property of a passing run is a theorem.

## Disagreements

Two runs look for a violation of what the repository says of itself, and find one.

1. `stale_report`: the done event names no boot and the platform buffers it. A report that
   arrives while a look is under way is left for the next wait; when that look sees the process
   gone and the pass reboots, the next boot's first wait takes it for its own, and the watch stops
   a healthy orchestrator as one that lingers.
2. `hold_misread`: the closing checkpoint of a run that held two ticks names both with the
   texts of both refusals; the next start reads one tick's refusal for the other and releases an
   attempt it never could address, which is what dispatch.go says only a person does.

Met while modelling and kept as notes, without a run.

The store. A create lands, its acknowledgement is lost, and another record lands
on top before the retry: `ownWrite` looks at origin's head only, so the call is
told `conflict_exists` over its own record. Dispatch recovers by adopting the
attempt (reconcile/dispatch.go:969); other creates do not. By the same cause a held step that landed
unacknowledged under another's checkpoint is reported as a `HeldConflict`, of which
held.go:77 says that nothing landed. A failed run that is
resumed and ends again keeps the tag of its first end, so the later history is not
reachable from it (store.go:1008). A terminal checkpoint that changes nothing flushes what was staged onto
the head, which another process may have moved back to a live state, and tags that, where store.go:992 has the tag at
the run's terminal commit. The history of the tagged commit still holds an end, and that is what `TagKeepsTheEnd` says.

The room. A boot may throw after its Workflow was created (logDispatch's write to D1), and submitRun then
releases the lease of a run that is driving (runs.ts:707; :670 has "an undone ignition leaves nothing behind"): a
second one starts beside it until the first next renews, against run-room.ts:13. `OneArbiter` is violated as soon as
`Faults` holds `log`. The holder releases between a submission's refusal and its parking:
`queueSubmission` does not look at the lease again, and the entry waits beside a
free lease until it expires. A submission that is
withdrawn while it is ignited is answered ok and runs, and one whose window closes then
is announced as expired and runs, because the queue row stands until the boot returns
(run-room.ts:1590). `queueSubmission` throws away what its prune returned, so what
expired then is announced to nobody (run-room.ts:915, against :1504). A dispatch request
authorised before the ending of a run whose lease was swept takes the lease back
after it (run-room.ts:678 returns before the lapse is forgotten). A room lost in the middle
of an ignition may have its lease swept and the submission ignited again beside the first boot: `OneArbiter` is
checked and proved without that fault, while `AlarmCovers`, `NeverStolen`, `SupersededStaysOut` and
`WaitsOutTheHolder` are theorems for all.

The inbox. A PUT that created the tick record is not heard of, and
`commitTickRecord` sends it again; the id is taken, by its own record, and the commit
moves on to the next candidate and files a second one (or gives up, and the draft
is pending with a record). The look that would settle it is made for stranded
drafts only. A PUT of an evicted
inbox that lands after the look found nothing (signal-inbox.ts:1285) is filed twice.
Commits run in the order of the presses (signal-inbox.ts:600), not in that of `seq` as
the header has it (:59). Drafts being committed are not counted against
`MAX_PENDING_DRAFTS` and may return as pending above it.

The workflow. A credential may be minted after a hard stop is on record, between the kill check and the
mint (run-workflow.ts:1802; runs.ts:1188 has "no later boot of this run may mint another"): the
next look cuts it. A retried boot step starts a second process in the container of the first
(run-watch.ts:42: "Two orchestrators never run at once"): it runs, and cannot spend. A reboot's
rotation revokes the credentials of workers still at work (gateway.ts:383-387). `stopRun` flips a row
that was finalized since it was read (runs.ts:1200); the stop it leaves is finished by its own last check or by the
sweep. A lost instance runs neither its finally nor finalize, so its container is destroyed by nobody, where
run-workflow.ts:2616-2620 calls finalize the backstop of that case. A crash resets the transient streak, so
a pass may take more steps than `worstCaseRunSteps` counts (run-workflow.ts:290-292, :787-793).

The dispatch. After a person releases the latest attempt of a tick whose row is not rejected, the
walk adopts an earlier attempt that is spent, where settle.go has "it dispatches a new one, at a new
number" (dispatch.go:525-527). An attempt that only delivers what it carries is judged ready and its lingering
worker cancelled before the merge; when the reconciler dies between the two, the verdict is restored without the
commit, the run stops, and the next start dispatches judged work again (integrate.go:398, against
dispatch.go:1688-1709). An attempt held past its wall without work is dispatched again at the next
start, though it may still run (reconcile.go:2414-2415 says so; settle.go:19-27 says the opposite). On a
host lost with its work, one walk may release two held attempts at the ceiling, because `released`
is read once before the walk: the ladder is exceeded by one. The same walk exists without a lost host, where an attempt is
held past its wall while it runs (`overdue`) and the reason of a later start is misread as in `hold_misread`: the attempt
commits after all, a second one of the tick is held too, and one walk releases both at the ceiling. TLC
finds it with two ticks and four attempts.
A release the ladder grants and the run cannot record (`decision`) rejects a row over a conflict; with two ticks the
misread text of the closing checkpoint then lets the next start release an attempt that was judged.

The worker. An object lost between `startProcess` and the record of its id boots a second process of the
phase, where worker-attempt.ts:527 has it reattach. `hostFor` does not look again after D1
(worker-agent.ts:573): a reclaim may tell a host that does not drive, and the drive learns of it by the destroyed
container or the settled record only. A drive parked in `startProcess` or in a closing harness while
its record is settled, forgotten and started anew writes over the new attempt's record: `Save` knows it is not
settled, not whose it is. `finishPhase` does not ask again whether it was told to reclaim after what it prepares,
so it may start a container that the sweep's second look must destroy. An attempt that settles between the door's status and its
start is run again, because the start forgets what is settled (worker-agent.ts:315). A boot or a finish has
no time limit in the host: one that hangs keeps its attempt from settling.
The alarm is armed after the record is written (worker-agent.ts:320-321): an object lost between the two leaves a
recorded attempt with neither heartbeat nor drive, where worker-agent.ts:29-32 has the heartbeat re-drive an unsettled
one. The state route says it runs, the door adopts it without a start (sandbox-executor.ts:785-808), and nobody drives it until
the run ends and reclaims it. `AttemptEnds` is false of it and claims the attempts that are `Tended` once; TLC finds the
loss at once when that condition is dropped.

## Not modelled

The components marked `not_modelled` in `PROJECT.json`, each with its reason. In
short: the read models, routing, proxies, parsing and images have no state the
run depends on. The run registry and the ref sweep, the slots of the account, the branch
registry, CI remediation and the repo room keep state of their own and are next in the plan. Of
the modelled components, what is left out is said with each module above.

Hazards without a property are listed with their reason: those at runs.ts:1038, runs.ts:707 and
integrate.go:398 are lost by the code as it stands (see the notes). So are those at run-room.ts:915 and
run-workflow.ts:2616, which the notes alone list; store.go:1008 and :1018 are about a tag the code
leaves alone by design.

## Plan

1. `RunStore`, `RunLedger`, with its three proof modules: done. Everything else stands on it.
2. `Lease`, `RunRoom`, `RunRoomProofs`: done.
3. `SignalInbox`, `SignalInboxProofs`: done.
4. `RunWorkflow`, `Credential`, `RunWorkflowProofs`, with the run watch and the done door: done.
5. `Dispatch`, `DispatchProofs`: done for implement ticks; role jobs, gate repairs and takeover are left.
6. `WorkerAgent`, `WorkerDoor`, `WorkerDoorProofs`: done; the slots of the account, the run registry and
   ref sweep and the branch registry are left.
7. Proofs: every safety property of a passing run is a theorem. Left are the components of items 5 and 6 that are
   not modelled.
8. `RepoRoom`, last: nothing in production calls its publisher any more.
