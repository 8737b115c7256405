# Verification of the concurrent chat system

TLA+ models of this repository: generating an answer reliably, bringing its text
to the browser, and the services around it.  TLC runs check them on small
instances, TLAPS proofs cover every value of the constants.  Paths below are relative to the root of the repository; `G`
abbreviates "generation", one streamed answer of the assistant.

## 1. Inventory

The system is a monorepo: a Next.js client, a NestJS API (any number of
processes), NestJS workers (any number of processes), PostgreSQL as the place of
record, a BullMQ queue and Redis streams for events.

| Component | Source | State it keeps | Operations |
|---|---|---|---|
| Processor | `apps/worker/src/generation/generation.processor.ts` | the G row, its message and attempts; per run: content, sequence, buffer, timers | `process`, `processOwned`, heartbeat, cancel poll, checkpoint, three terminal transactions |
| Job worker, zombie monitor | `generation-worker.service.ts`, `zombie-generation-monitor.service.ts` | BullMQ job; none of its own | deliveries; `checkOnce` |
| Permits | `generation-reliability.service.ts` | sorted sets in Redis | `acquire`, `renew`, `release` |
| Event publisher | `apps/worker/src/events` | sequence, state, streams per G and user | `publish` |
| Outbox relay, retention | `apps/api/src/outbox` | `outbox_events`, dedupe keys | `dispatchOnce`: claim, publish, acknowledge, fail; `cleanupOnce` |
| Admission | `apps/api/src/generations` | G rows, idempotency keys | `create`, `createConversationWithGeneration`, `retry`, `cancel` |
| Conversations | `apps/api/src/conversations` | conversations, user state | create, archive, restore, delete, read marks |
| Event delivery | `apps/api/src/events` | SSE connections, leases | `stream`, history, `sync` |
| Scheduled tasks | `apps/api/src/tasks` | tasks, runs, `nextRunAt` | create, update, pause, run now, dispatch |
| Sessions, rate limit | `apps/api/src/auth` | refresh sessions, counters | refresh, revoke, limit |
| Web client | `apps/web/src/lib/generation-store.ts`, `generation-manager.tsx` | projection of every G | apply event, replace snapshot, resync |
| LLM adapter, context window | `packages/llm`, `context-window.ts` | none | streaming, trimming |
| Config, contracts, observability, UI | `packages/*`, `apps/web` | none | validation, schemas, metrics, rendering |

How they interact.  The API inserts a G together with its enqueue row of the
outbox in one transaction.  A relay turns the row into a BullMQ job.  A worker
that gets the job takes a permit, claims the row with a random writer token,
streams the provider's answer, publishes deltas to Redis and saves checkpoints,
and ends with one transaction that writes row, message, scheduled run and a
terminal outbox row.  A relay turns that row into the terminal event.  The user
may cancel at any time by setting `CANCEL_REQUESTED`; the worker polls for it.
Monitors end rows whose writer has stopped beating.  Clients follow the user
stream and resynchronise from snapshots.

What is hard.  Nothing but conditional updates separates the runs, the monitors
and the user: every await is a point where another actor may move the row, the
process may die or the call may fail after it took effect.  Jobs are redelivered
while the old run still lives; outbox leases overlap; idempotent calls race;
Redis keys expire.  `PROJECT.json` lists every such hazard at its line with the
property that covers it, or says why none does.

What must hold, by component.
- *Processor, monitor*: one writer; one terminal outcome, told alike by row,
  message, task run and event, never changed; a completed message is whole;
  no second call of the provider once text was saved; everything that started ends.
- *Relay*: at most one announcement per row; published means delivered; the
  budget of attempts is exact; every row settles.
- *Admission*: the quota holds; a key names one G; answers match requests; no
  active G without its enqueue row; deletion spares active ones.
- *Permits*: limits hold, only a fault leaves permits behind and only those of
  one call, a call that lost one learns it.
- *Events and page*: the page lacks no delta and shows none twice (the code breaks
  the second, finding 4; what holds is that neither the API nor the page doubles
  one); nothing takes the page back; the end arrives and is shown for good.
- *Event streams*: the limit per user holds across processes, no way out of a
  stream keeps its place.
- *Scheduled tasks*: a due time gets one run at most; while nothing fails it is
  run, skipped for an active run, or overtaken by a later one; runs overlap no
  more than passes do; no active task is without a next run.
- *Sessions*: one usable token per sign-in, other devices stay, and the browser
  stays signed in unless two of its requests refresh with one token.
- *Context window*: a request fits, and nothing is left out that would have.
- *LLM adapter*: however the body is cut, deltas arrive whole and in order, and
  nothing is repeated behind a delta.

## 2. Modules

| Module | What it models |
|---|---|
| `GenerationContract` | abstract specification: what a database snapshot of a G shows |
| `GenerationLifecycle` | one G: all its deliveries, timers, monitors, the user, queue and crashes |
| `GenerationLifecycle_proofs` | theorems about it, including the refinement of the contract |
| `OutboxRelay` | the outbox table, its relays, Redis and the queue as they see it |
| `OutboxRelay_proofs` | theorems about it |
| `GenerationAdmission`, `MCGenerationAdmission` | concurrent create, retry and delete calls of one user |
| `GenerationAdmission_proofs` | theorems about it |
| `Permits`, `MCPermits` | the Redis permits of the calls of `process`, their heartbeats and leases |
| `Permits_proofs` | theorems about it |
| `EventStream`, `MCEventStream` | the text of one G from the worker's buffer over Redis and the API to one page |
| `EventStream_proofs` | theorems about it |
| `ScheduledTasks`, `ScheduledTasks_proofs` | one task, the passes of `dispatchDue` and the calls of its user; theorems |
| `Sessions`, `Sessions_proofs` | refresh tokens of one user, a browser with parallel requests, one other device; theorems |
| `StreamLeases` | connection leases of a user's event streams |
| `ContextWindow` | `fitMessagesToContextWindow`, message by message |
| `ProviderStream` | one call of the provider: request, parser and adapter |
| `MCServices` | the last five as one instance |
| `Services_proofs` | theorems about leases, window and provider, and about the instance of all five |

The components meet at the G row and the outbox row.  Each module keeps its own
side whole and treats the other as an environment: `Settle` and `Enqueue` of
`GenerationAdmission` stand for `GenerationLifecycle` and `OutboxRelay`;
`Enqueue` of `GenerationLifecycle` for the relay's delivery.  `EventStream` joins
worker, relay, API and page for one G, with the races of the first two reduced
to their outcome.  In several modules operators named after a plausible mistake (`ClaimGuardTakeover`,
`AnnounceAgain`, `LockIgnored`, ...) stand beside the faithful ones.  Nothing
uses them: substituting one for its neighbour must break the property that
`PROJECT.json` pairs with it, which shows that the property depends on the code.

### GenerationLifecycle

A step is what happens between two awaits: one statement, one transaction or one
publication.  `pc[r]` names the await run `r` is about to perform; the actions
carry the names of the code's functions (`Claim`, `MarkStreaming`,
`WriteCheckpoint`, `FinalizeCompleted`, ...).  A run's number stands for its
random writer token.  `Heartbeat` and `ObserveCancel` are ticks of the timers
and may happen at any point where the timer runs.  `Throw` lets any awaited I/O
reject, inside the try block, in the catch block or outside; a rejection after
the effect is the effect followed by a rejection at the next await.  A claim
whose commit is not acknowledged is special because `withDatabaseRetry` repeats
it, so `Claim` has that outcome.  The answer is its length in deltas.

`GenerationContract` knows nothing of runs.  The mapping takes `phase` to
`status`, `shown` to the message's status, `answer` to its content and `notices`
to the terminal outbox rows.

### OutboxRelay

Rows in creation order; `Claim` leases the oldest claimable ones, `Publish` runs
the script or adds the job, `Acknowledge` and `Fail` are the settlements under
the lease's token.  `Fault` counts crashes, database errors (before or after the
commit) and leases that expire while their relay still works.  A Redis or queue
call that fails is not a fault: it costs an attempt of the row.

### GenerationAdmission

One user, several calls.  The lookup, the wait for the advisory lock, the checks
and the insert with its commit are separate steps under READ COMMITTED; unique
indexes and foreign keys decide inserts.  A deletion reads, then erases.

### Permits

Each call of `process` has three keys; `members[p]` is a sorted set without its
scores, and `lease[c]` stands for the score of call `c`'s permits: `fresh` while
it was kept up since the grant, `overdue` once it lies in the past, `partial`
after a late renewal that found only some of the permits.  `AcquireScript` is the
Lua script with its purge that stops at the first full pool; `Acquire` is one
turn of the waiting loop, whose reply may be lost.  `Claim` and `MarkTask` may
throw before the try block begins; the permit then stays until its lease ends.
`docs/phase-8-acceptance.md:5` says that permits are released on every way out:
that holds of every way out of the try block and of the early return, not of
these two throws nor of `acquire` giving up after a lost reply.  What does hold
is `StrandedWithinFaults`: the calls whose permits nobody will release are never
more than the faults that happened, and without a fault there are none, which
also needs the script to take all three permits or nothing.
`GenerationLifecycle` takes from this module that a
permit may be refused and may be lost while the run goes on.

### EventStream

The script of `EventPublisher.publish` numbers an event, replaces the state key and appends to both
streams in one script, so all four are one variable `log`: an event's sequence
is its place and `shown` is the state key as it left it.  `trimmed` is what the
user stream no longer has, `expired` says that all keys are gone.  `wpc` and
`after` follow the worker through `bufferDelta`, `flushDelta` and
`writeCheckpoint`: a delta joins the text first, then the old buffer is
flushed, then the delta enters the new one, which is why the state key may run
ahead of the events.  `row` and `notice` are the database's side, `local` is the
page's entry (`generation-store.ts`), `cpc` its connection loop
(`generation-manager.tsx`).  The reads of `sync` are separate steps
(`SyncCursor`, `SyncRows`, `SyncStates`), and `History` fixes an answer that
`Replay` applies while everything else goes on.  `reply` is the answer of a
create or cancel call that the page has not processed yet; the update of `cancel`
and the read it answers with are two steps (`CallCancel`, `CancelRead`).
Deltas are numbered, so that a repeated one can be told from a new one.

### ScheduledTasks, Sessions, StreamLeases

`ScheduledTasks`: a pass keeps the due time and the next one it computed in
`Find`, and `Check`, `Claim` or `Skip`, `Start` and `Revert` are one call each.
The calls of the user read the task (`ReadTask`) and write it later by id, as
`updateStatus`, `update` and `delete` do.  History variables record the due time
the task began with, those skipped for an active run and those that could not
be given back.

`Sessions`: a row's number stands for its token.  `Rotate` and `Commit` are the
two ends of the transaction, `locked` its row locks, `Collect` and `Revoke` the
two halves of the recursive statement `revokeRotationDescendants`: the rows it
sees and the rows it waits for.  `apiRequest` answers each 401 with a refresh
of its own: `Unauthenticated` is the refusal, `SendRefresh` takes the cookie of a
later moment, whatever other requests have done to it meanwhile, so two requests
may send one token.  A sign-in may happen while requests are under way.

`StreamLeases`: a sorted set as its members and those whose score is past; one
script grants, purges and renews.

### ContextWindow, ProviderStream

Pure code as small state machines whose initial states are all inputs up to a
size.  A message is its estimated tokens, `Overhead` of them structure.  A body
is a sequence of symbols, one for the line of each frame and one for each line
end character, which the network cuts anywhere; `Normalised`, `Boundary` and
`Receive` are the parser's replacement of CR LF, its search for the end of a
frame and `normalizeChunk`.  `Data` of a frame are the places of its lines with
data, which a cut inside a CR LF may make more than one.

## 3. Runs

| Run | Bounds | Result |
|---|---|---|
| `lifecycle` | 2 deliveries, 1 monitor, 2 attempts, 2 deltas, 1 stall, scheduled G | 2.6 million states, all properties hold |
| `lifecycle_liveness` | 2 deliveries, 1 attempt, 1 delta, 1 stall | `StartedSettles` holds under fairness |
| `cancel_stuck` | as above | `CancelConverges` is violated |
| `cancel_content` | as `lifecycle_liveness` | `CancelKeepsContent` is violated |
| `outbox` | 2 rows (one terminal, one enqueue), 2 relays, batches of 2, 2 attempts, 2 faults | 0.8 million states, all properties hold, `EveryRowSettles` under fairness |
| `admission` | 2 calls, 2 keys, 2 message ids, quota 1, 2 generations | 0.9 million states, all properties hold |
| `permits` | 2 calls with a common global (limit 2) and provider (limit 1) pool, own user pools, 3 faults | 0.2 million states, all properties hold |
| `admission_deletion` | as `admission` | `DeletionSparesActive` is violated |
| `event_stream` | 2 deltas of 2 kinds, 2 troubles (failing calls, trims, repeated creates, cancels), one page | 4.9 million states, all properties hold |
| `delta_twice` | as `event_stream`, without troubles | `NoDeltaTwice` is violated |
| `event_stream_liveness` | 1 delta, 1 trouble | `EndReachesPage` holds under fairness |
| `services` | see below | 1.9 million states, all properties hold |

`services` puts five parts that share no state into one instance; each of its
behaviours is a behaviour of one part.  Tasks: 2 passes, 1 call, days of one
slot, weeks of two days, clock up to 3, 3 runs, 2 troubles.  Sessions: 2
requests, 4 rows, 1 fault.  Leases: 3 streams, limit 2, 3 faults.  Window: up to
4 messages of 4 to 6 tokens, windows up to 22.  Provider: up to 3 frames of
every kind, both line ends, all chunks.

Why the bounds are enough to meet the cases: two deliveries let a live run
overlap its successor and a successor find every status; two deltas distinguish
a checkpoint from the whole; two attempts make a retry and its exhaustion; one
monitor with scan, probe and settlement apart interleaves with both runs.  Two
relays overlap on one row and a batch of two can be abandoned halfway; two faults
combine a lost acknowledgement, a crash and an overrun lease in pairs.  Malformed
rows are in the model and the proofs, not in this instance.  Two calls and two generations make
every pair of operations race with a quota of one.  Two calls that meet in the
middle pool let one purge two permits of the other and miss the third; three
faults allow a lost reply, a throw and a crash in one behaviour.  Two deltas of
two kinds make the change of kind that lets the state key run ahead; two
troubles put a trim or a failed call between any two reads of the page and
combine a repeated create with either.  Two passes find the same due time and
three runs follow each other; a single call of the user is under way at a time,
because two of them differ only in whose write comes last.  Two requests send
one token; four rows hold the other device, a sign-in and two more, rotations or a
second sign-in.  Three
streams compete for two places.  Four messages hold two of each role with one
cut; 22 tokens leave none, some or all of them in.  Three frames have a first,
an inner and a last one.  Symmetry is used for calls, keys and
messages, for kinds of delta, and for passes, requests and streams, in runs
with safety properties only; the fair runs have none.

## 4. Fairness

`GenerationLifecycle!FairSpec`: a live run takes its next step (Node's event
loop; an await that never ends is excluded, all clients have timeouts), the
queue adds and delivers jobs and notices dead lock holders, monitors scan on
their interval, and a heartbeat nobody renews expires.  Nothing forces the user,
a crash, a failure or a renewal.  `OutboxRelay!FairSpec`: the interval timer
calls `dispatchOnce` and its steps go on, backoffs end and leases expire.
Faults are finite in number, otherwise nothing could be promised.
`Permits!FairSpec`: the heartbeat's interval fires and its script is answered;
acquiring, running and ending are not forced.
`EventStream!FairSpec`: the relay announces and acknowledges (its interval
timer) and the page's connection loop goes on (it reconnects after a delay for
ever); the provider, the worker and the user owe nothing, as the property begins
where the database has the end.  The services have no fairness and no liveness.

`StartedSettles` begins when the row has left `QUEUED`: a job may fail five
times for want of capacity, and the code promises nothing then.  Its exception,
a cancellation with nobody left to finalize it, is exactly finding 2.

`EndReachesPage` has four exceptions, each a formula of the module: `LateEvent`
(a worker the monitor gave up published behind the end), `Missed` (the end left
the user stream before the page read it, and `sync` no longer lists a finished G
the page did not know), `Overtaken` (the answer of a cancel call arrives after
the end and overwrites the status) and `Belated` (the answer of a create call
arrives after a `sync` that had seen the end).  The run shows that there is no
fifth.

## 5. Proofs

TLAPS proves, for all values of the constants allowed by the named assumptions
(`LifecycleAssumption`, `OutboxAssumption`, `AdmissionAssumption`,
`PermitsAssumption`, `StreamAssumption`, `TaskAssumption`, `SessionAssumption`,
`LeaseAssumption`, `WindowAssumption`, `ProviderAssumption`), the theorems
listed in `PROJECT.json`.  Every safety property that a passing run checks is
among them, invariants and action properties alike.  Each proof has the same
shape: an inductive invariant, one lemma per action or group of actions that
preserves it, and a last step that combines the non-temporal facts.

- *Lifecycle.*  `OutcomesAgree` and `TerminalIsFinal` need only `TypeOK` and the
  conditional updates.  `SingleWriter` needs `Ownership`: at most one run has
  claimed, because the claim requires a null token and nobody ever makes a row
  `QUEUED` again; the token stays on the row until a monitor clears it, and then
  the row is `FAILED`.  `CompletedIsWhole` follows from it.
  `RetryOnlyBeforeFirstDelta` needs `Tries`: the attempt of the run that owns the
  row is the last one and all others are closed as FAILED, and until that run
  has received a delta the message is blank.  The refinement
  additionally needs `Shown` (row and message move together), `Held` (a writer
  holds at least what was saved) and `Scanned` (a monitor has seen no more than
  what was saved).  `Inv` is the conjunction of all but `Tries`.
- *Relay.*  `AnnouncedOnce` rests on `Deduped`: the dedupe key lives as long as
  the entry.  `BudgetIsExact` rests on `SnapshotIsExact` (the attempts read with a
  lease are exact while the lease holds) and `Settled`.  `PublishedIsDelivered`
  rests on `InHandIsDelivered`.
- *Admission.*  `QuotaHolds` rests on `LockHeld` (only the lock's holder is
  between its count and its commit) and `Room` (what it has counted still holds,
  as everybody else can only lower the number).  `AnswersMatch`,
  `SameKeySameGeneration` and `ActiveIsEnqueued` follow from `Traced`: keys are
  unique among the rows that exist, a call without an answer has none to show,
  an answered one names a row of its own key and body, and a
  deletion takes only the rows of its own conversation, active ones with theirs.
- *Permits.*  `RunningWithinLimit` speaks of calls, the scripts of sets: the
  bridge is `FreshIsCounted` (whoever holds an unbroken lease is counted in all
  its pools, since purging and expiry take overdue permits only and a renewal
  is complete or leaves the lease `partial`) with `PoolsWithinLimit` and the
  library's facts on cardinality.  `StrandedWithinFaults` is inductive with
  `OwnPoolsOnly`, by which the release script reaches every permit of its call: a
  step strands nobody, or is a fault and strands one call (`WhoIsStranded`).
- *Events: the end.*  `NeverBackwards` needs only types, with `CallsReadEvents`
  (an answer under way ends within the log).  `EndIsShownForGood` needs
  `EndInv`: row, notice, log, page and answers under way agree on one end
  (`RowEnds`, `LogEnds`, `PageEnds`), and what a call has read is no newer than
  the log (`ReadsAreOld`), so an answer that shows an active row is older than
  any end the page has merged and is dropped by its sequence.
- *Events: the text.*  `TraceInv` follows a text through the system: the
  worker's variables are set as its place demands (`Buffers`, `Waiting`), a
  checkpoint saves the text of its sequence (`Sequenced`), the row's text is what
  the state key showed at the row's sequence (`RowTraced`), and both the page's
  entry and the row it has just read are snapshots with their suffix (`Traced`).
  The entry alone would not be inductive, since the page takes its text from
  whatever it read last.  `TextInv` says what the text is: until something fails
  the worker's text is what was told, what is buffered and the delta that waits
  for the buffer (`Exact`); whatever fails, nothing else is told or buffered
  (`Within`); the state key is at most one delta ahead (`Ahead`) and lacks nothing
  that was published (`ShownTells`); a completed row is all that was published
  (`Complete`).  `StateRunsAheadByOne` and `NoDeltaLost` follow.
  `OnlyThePublisherDoubles` adds `OnceInv`: the worker's text, an event, a state
  and the row have no delta twice, so that a repetition on the page is between
  the snapshot it began with and an event merged since, or between two events,
  and in both cases the state key of an earlier event had the delta already.
- *Tasks.*  `OverlapIsBounded` is not inductive: a pass that has found no active
  run may start one much later.  `BoundPart` counts passes between check and
  start together with active scheduled runs.  `ClaimedOnce` rests on `Apart`:
  what passes behind their claim hold are intervals from a due time to the next,
  which overlap neither each other nor a run and lie before the task's next due
  time.  The whole interval is needed, because giving a due time back moves the
  task's next one back.  `EveryDueTimeAccounted` adds that whatever accounts for
  a due time (`Accounted`) goes on doing so, and arithmetic of days and weeks.
  `OneRunPerDueTime` rests on the unique index, `ActiveIsScheduled` on the
  values the calls read together.
- *Sessions.*  `OneLiveSession` rests on `OneUnrevoked` (of a family one row is
  not revoked) and `LockHolds` (who is about to commit holds the lock of a row
  that is still the unrevoked one); `TheirsOnly` separates the other device.
  `StaysSignedIn` needs `SignedIn`: no two requests refresh with one token
  (`OneHolder`), who refreshes has the last row of its family, and the browser
  has it too unless its successor is on the way (`NewestTokens`), a successor is usable
  and unknown to anybody before its answer is stored (`OnTheirWay`), and a token
  that counts as a replay is not the browser's any more and has no successor
  (`Replays`).
- *Leases.*  The script counts the set, the property counts streams: the bridge
  is `HeldWithinLimit` and facts on cardinality.
- *Window.*  `WindowInv` keeps the account of the loops: what remains of the
  budget is the budget without the messages kept and the cut (`Spent`), the
  loops come in order, and a loop that ended has ended because the next message
  does not fit (`SystemsFit`, `RegularsFit`).
- *Provider.*  `ProviderInv` relates the buffer to the body.  In general it only
  says that the lines with data in the buffer are those of consecutive frames, in
  order, up to what has arrived, and that the frames before them were handled
  (`Reads`, `Got`): that is what a merged frame preserves.  While no cut fell
  between a CR and its LF, the buffer is exactly a piece of the body with LF line
  ends, from the start of a frame on (`Exactly`): each frame is then one line,
  and the rest at the end of the body is empty, so only a broken frame is
  refused.  The two are proved by following `Normalised` through a chunk, symbol
  by symbol.
- *All services.*  `ServicesRunEach` shows that the instance of `services` is a
  behaviour of each of its parts, and `ServicesTyped` and
  `ServicesKeepTheirPromises` carry over what is proved of them.

Sums of tokens, the deltas between two events and the symbols of a chunk are
recursive functions, not operators.  The prover has no induction principle it
can apply to them, so `EventStream_proofs` and `Services_proofs` derive one,
`Induction`, from the least element of a set of numbers (`LeastElement`, from
the library's well-foundedness of `<`), and prove with it that each function
exists, is unique and does what its definition says.

`FramesSurviveChunks` is stated for any cut: with a cut inside CR LF a call may
be refused, but the deltas that arrive are still in order and without a gap, and
a call that completes has all of them.

`OneRunPerDueTime`, `ActiveIsScheduled` and `OtherDevicesStay` are proved and in
no run.

Only model-checked: the liveness properties (`StartedSettles`,
`EveryRowSettles`, `LosersLearn`, `EndReachesPage`), since fairness and ENABLED
are beyond the prover, and the counterexamples of the four findings.

## 6. Findings and named exceptions

Four runs end in a counterexample to what the documentation says:

1. A cancellation finalized by a second delivery replaces what was saved by
   nothing (`cancel_content`).
2. A cancellation requested after the redelivered job returned is never
   finalized and keeps a slot of the user's quota (`cancel_stuck`).
3. A G created while its conversation is being deleted is lost although it is
   active (`admission_deletion`).
4. The page shows a delta twice (`delta_twice`), although
   `docs/adr/0004-replay-and-snapshot-recovery.md:8` says that refreshes, lost
   connections and gaps must not repeat the text.  `bufferDelta` is called when
   the delta is in the content already (`generation.processor.ts:359`): flushing
   the kind before it stores a state that holds a delta no event has told, and a
   page that starts from that state gets it again with its event.  A checkpoint
   that throws after the delta was published has the same effect, as the catch
   block flushes it again (`:472`).  `StateRunsAheadByOne` bounds the first, and
   `OnlyThePublisherDoubles` shows that these are all: the API and the page add
   no repetition, whatever they lose, reconnect to or load.

Other behaviour a reader of a passing property should know, because the property
names it as an exception or states what holds instead:

- A repeated create call registers an empty text at the row's sequence over an
  entry that was pruned (`replays` in `NoDeltaLost`).
- A page that did not know a G gets no end of it once the end has left the user
  stream (`Missed` in `EndReachesPage`).
  `docs/adr/0006-single-region-reliable-generation-delivery.md:16` lets `sync` restore what
  the page asks for, and it can ask only for what it knows.
- A relay that delivers after Redis has dropped the stream and its keys announces
  the event again, from sequence one; as the old entry is gone too,
  `AnnouncedOnce` does not see it.
- `packages/llm/src/sse-parser.ts:14` replaces CR LF within a chunk; a cut
  between the two merges frames, although the comment at line 3 speaks of
  arbitrary boundaries (`split` in `FramesSurviveChunks`).  A body that is closed
  without an end mark counts as complete (`closed`).
- Scheduled runs may overlap, although
  `docs/adr/0007-conversational-scheduled-tasks.md:19` says that a due time is
  skipped while a run is under way;
  `OverlapIsBounded` says by how many.  A crash between claim and start loses the
  due time (`taskFaults = 0` in `EveryDueTimeAccounted`), and even without a fault
  a due time is overtaken when its start fails and another pass has claimed the
  next one before it is given back (`overtaken`).
- Two requests of a browser that refresh with one token sign it out
  (`overlapped` in `StaysSignedIn`): the property excepts this and does not catch it.
- A sign-out during a refresh whose answer comes later leaves the browser with
  the successor's cookies: signed in again.  No document speaks of it.
- A rotation that commits after `revokeRotationDescendants` has collected the
  rows escapes it, although the comment at `auth.service.ts:305` speaks of all
  descendants; `OneLiveSession` still holds.

## 7. Not modelled

- Configuration, wire schemas and observability: they validate, name and count,
  and keep no state of their own.  Limits are CONSTANTS here.
- Rendering, forms, drafts, scrolling, read marks, titles, pagination and the
  setup dialogue of a task: single statements on one row or one component.
- In the page: other generations, subscriptions, and the cancellation of an
  effect by React.
- The rate limiter's counter: one Redis script with a fixed window.  Its refusal
  of a refresh is a step of `Sessions` that may come at any time.
- Passwords, hashing, CSRF, audit rows and deactivated users.
- `LLM_REASONING_MODE` other than enabled: `savedReasoning`
  (`generation.processor.ts:1004`) then saves no reasoning, while its deltas are
  published all the same.
- Statements that belong to one read are one read: Prisma's row with its included
  message, and the two parallel queries of `sync` (`events.service.ts:371`),
  although a row may change between them.
- What JSON documents say, beyond whether they carry a delta; the choice of a
  provider.
- Clocks: a lease or key has ended or has not.  Clock skew between workers is
  outside `Permits`.
- PostgreSQL, Redis and BullMQ beyond the behaviour the code relies on: READ
  COMMITTED with row locks and unique indexes, atomic scripts, redelivery after
  a stall.  A Redis that loses acknowledged data is outside the models.
- The composition of restarting sequence numbers (a relay that delivers after
  all keys expired) with the page.
- Infrastructure, fixtures and end-to-end tests.
