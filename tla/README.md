# Verification of Lyzer-Edge

Lyzer-Edge is a trading platform: a Node.js backend that turns market data into
orders under a "constitution", and a set of Rust processes that keep the record
of execution intents.  This directory holds TLA+ specifications of its core,
the TLC configurations that check them on small instances, and proofs checked
by TLAPS.  `PROJECT.json` maps every definition to the lines it models; paths
below are relative to the repository.

## The system

| Component | State | Operations | Talks to |
|---|---|---|---|
| Intent Registry, `lyzer edge/src-rust/lyzer-intent-registry` | SQLite event table and outbox table | `RegisterIntent`, `AppendIntentEvent`, queries (gRPC); consumer of `execution.pending.*`; outbox publisher | clients by gRPC, OMS by gRPC and JetStream |
| OMS, `lyzer edge/src-rust/lyzer-oms` | projection in memory, snapshot file, durable consumer | boot (snapshot, hydration, integrity check), message loop, `save_snapshot` | registry by gRPC; `execution.committed.>` in, `execution.pending.order_ack` out |
| Risk gateway, `lyzer edge/src-rust/lyzer-risk-gateway`, and `backend/riskGatewayClient.js` | set and queue of the last 10 000 intent ids | `Authorize`; `authorizeOrder` with a 2 s deadline | backend by gRPC |
| Constitutional court, `packages/lyzer-constitution/src/eca` | recovery state machine (mol), stress oracle (c-clist), ledger with edge-riding counter, SQLite rows | `observeState`, `requestPermission`, `loadFromDb` | one object shared by all stream engines |
| Truth kernel, same directory | none | `evaluate` of one tick | its result goes to the court |
| Stream engine, `lyzer edge/backend/streamEngine.js` (with `regimeEngine.js`, `exchangeExecution.js`, `statePersistence.js`) | active position, daily capital, candles | tick guard, candle handler with entries and exits, order placement, saved file | court, feed, exchange, server |
| Live ingestion, `backend/liveDataIngestor.js` | socket, polling loop, connection state | socket messages, failover, polls | stream engine |
| Backend server, `backend/server.js`, `experimentManager.js` | engines, debounced save and sync, experiments | boot, manual close, wipe, reset, freeze-and-new, promotion, update-status | engines, SQLite |
| Causal memory, `backend/db.js`, `lyzer edge/src/causal-memory` | event table, buffer, hash pointer, flush lock | insert, record, flush, query | stream engine, SQLite |
| Shared-memory spine, `src-rust/lyzer-shm-spine` | ring of events in a mapped file | `write_event`, `reader.py` | other processes by memory |
| Observation layer, `src-rust/lyzer-oal`, `lyzer-reality-ws`, `lyzer-ocr` | sequence numbers, order book | feed handlers | spine |
| Shadow OMS, `src-rust/lyzer-shadow-oms` | token buckets | rate limiting | exchange adapter |
| Core workspace, `lyzer-workspace` | hub, arbitration, governance, memory | arbitration of proposals | |
| Adaptive sandbox and evolution, distributed runtime, `lyzer edge/src` | parameter versions, event bus, worker pool | promotion, rollback, publish | browser and backend |
| Signal providers, research engines, user interface | numeric | | engines |

### What is hard, and what makes it correct

* **Registry.** gRPC handlers, the NATS consumer and the publisher race for one
  database; the process dies between a publish and the UPDATE that marks it; an
  acknowledgement is lost.  Correct: per-intent versions without gap or
  repetition, an outbox that never claims what the stream does not hold, every
  committed event published at last, in order where NATS allows it.
* **OMS.** Its state comes from three overlapping sources (file, query,
  stream).  Correct: state and snapshot are a replay of a prefix of the log;
  nothing acknowledged is lost; every order event is projected at last; the
  commands it emits take effect once.
* **Risk gateway.** Two structures kept in step by hand, a cap, a deadline that
  races with the answer.  Correct: duplicates are refused within the window the
  cap gives, memory is bounded, no caller believes in an approval never given.
* **Court.** Two state machines advanced by the ticks of several engines, a
  counter fed by its own verdicts, rows written behind its back.  Correct: no
  grant before a recovery or a stress release is complete, the edge-riding
  limit holds, the court wakes up again.
* **Position.** Ticks, candles and HTTP requests change one position, and
  `processCandle` is suspended in the middle; the feed fails over to polling
  and loses or repeats candles; the process dies before the debounced save.
  Correct: a position closes once, its capital is accounted for, the time limit
  is kept, the file follows.
* **Experiments.** A freeze makes several database calls, each of which may fail,
  while trades close, a sync copies them and an operator sets statuses.
  Correct: one ACTIVE experiment, and no trade lost, except in named ways.
* **Causal memory.** Batches that fail go back into a buffer that grows
  meanwhile; queries join flushes of others.  Correct: one chain, fresh reads,
  nothing accepted stays unstored.
* **Shared memory.** Torn reads under a sequence lock, and a writer that starts
  over.  Correct: what is accepted is one event, and newer than the last.

## Modules

| Module | Models | Correspondence |
|---|---|---|
| `EventLog` | what the registry promises | abstract specification: histories that grow at the end, announcements of committed events only |
| `IntentRegistry` | the registry process | one action per handler (`RegisterIntent`, `AppendIntentEvent`), per message (`ConsumePending`), and per step of the publisher between two awaits (`PollOutbox`, `PublishAcked`/`PublishUnacked`, `MarkPublished`/`MarkFails`); `CrashRegistry`, `StartRegistry` |
| `OmsProjection` | the OMS process | `pc` is the position of `main()`: load, hydrate, verify, bootsave, bootwrite, attach, then recv, ack, save, write; `CrashOms` at any of them; `Deliver` and `Redeliver` are the JetStream consumer |
| `ExecutionSpine` | both, joined | the shared variables are the log (written by the registry, read by gRPC), the committed stream and the pending stream |
| `RiskGateway` | gateway and callers | `Call`, `Receive`, `Deadline`, `Lose` are a caller and its connection, `RejectDuplicate` and `Approve` the handler, one step because it holds both mutexes |
| `Court` | the court | `Tick`: `observeState`; `Entry`: a tick whose engine asks for a grant (no await lies between); `Exit`: an exit asked for between ticks; `SaveRow`: an INSERT on the thread pool; `LoadQuery`, `ProcessRows`: the two halves of `loadFromDb`; `Restart` |
| `PositionEngine` | one stream engine in LIVE mode, its feed, the operator and the file | `Tick`: `checkTickPositionExit` for a candle still open; `ClosedKline`: the socket's message, which runs the tick guard and starts `processCandle`; `ProcessCandle`: its rest, after the only await before the position is read; `SocketFails`, `CloseAfterError`, `PollFails`, `PollSucceeds`: `liveDataIngestor.js`; `ManualClose`, `Wipe`, `Reset`: the routes; `Save`, `Restart` |
| `ExperimentStore` | closed trades in memory, file and database | `CloseTrade`, `CloseOnTick`: a trade enters a history, the second drops the oldest at the cap; `TimerFires`, `SyncReads`, `SyncInserts`, `SyncGoesOn`, `SyncFails`: `debouncedSyncStateAndTrades` from await to await; `StartFreeze` to `EmptyHistories`: the routes around `freezeAndCreateNew`, one action per database call; `CallFails`: the `catch` of these routes; `StoreFails`: the error of one insert, which the route passes over; `Promote`, `UpdateStatus`, `Reset`: the other routes; `RowExpires`: `runTTLCleanup`; `Restart` with `Boot` (`initialize`) |
| `CausalMemory` | `flushCausalEvents`, `insertCausalEvent`, `record*`, queries | SQLite's answers (`Begin`, `InsertBatch`, `Commit` and failures) are tasks; `EnterFlush`, `ReadHash`, `AppendEvent`, `SendSelect` are the microtasks an answer wakes, run before the next task (`Drained`) |
| `SeqlockRing` | `RingWriter` and `reader.py`, two processes | one action per word copied; `Begin`, `Unlock`: the two stores of the lock; `Judge`, `Accept`: the reader's two looks at it; `Restart`, `ZeroWord`: a writer started again |
| `MC...` | | instances for TLC |
| `IntentRegistryProofs`, `ExecutionSpineProofs`, `RiskGatewayProofs`, `CourtProofs`, `PositionEngineProofs`, `ExperimentStoreProofs`, `CausalMemoryProofs`, `SeqlockRingProofs` | | theorems about the module of that name; the spine's instantiate the registry's |

A SQL transaction, a handler under a mutex and a synchronous stretch of
JavaScript are one action each; two awaits are two actions.  A call that is
refused changes nothing and is a stuttering step, except where the refusal is
visible (`rejected`, a row of the ledger).  Operators called "faulty variant"
are plausible mistakes: they belong to no specification, and each shows that a
property fails when it replaces the definition that follows it.

What is abstracted:

* Spine: an event is its intent, type and version (its position in `log` is the
  AUTOINCREMENT global version); a snapshot hash holds or does not; payloads,
  correlation ids and times are left out.
* Court: stress is counted in units of `stressAccumulation`, with the other
  parameters as multiples of it, so that rounding of floating point numbers is
  not modelled.  A kernel result is one of three outcomes (vetoed, incoherent,
  coherent).  The engines send neither the size nor the noise and direction
  fields of an entry, so the checks on these are left out of `Verdict`.
* Position: a price is one of nine levels of the position's R multiples, in the
  order the default parameters give them.  Volumes, structural lows, the
  kernel's verdict and the signal are nondeterministic choices, so every exit
  the code may take is taken.  A position costs one unit of capital.  The
  court's answer to an exit is granted or denied at will; `Court` says when.
* Experiments: an experiment is its number, a trade its number; metrics,
  configuration and market snapshots are left out, and so is the row a manual
  close inserts by itself, as the sync that follows writes the same.  The
  clean-up of old rows (`migrations.js:541`) spares CHAMPION and ARCHIVED
  experiments and takes 60 days; `RowExpires` may take any row at any time.
* Causal memory: a hash is the number of its event.  Fields, payloads and the
  validation of the schema are left out.
* Court: the engines send a drawdown of zero, since nothing assigns `dailyPnl`
  (`streamEngine.js:682`, `:1618`, `:1733`), so that edge riding can hardly occur
  in this deployment; the model lets the drawdown be anything a caller may send.
* Seqlock: the 64 bytes of a slot are five words (lock, header, two of payload,
  checksum); stores and loads take effect in program order, as on x86, where
  the compiler fences of the code suffice.  The 32-bit lock does not wrap: a
  slot is written 2^31 times first.

## Runs

| Run | Checks | Shows |
|---|---|---|
| `registry` | TypeOK, CausalVersions, OutboxSound, ImplementsEventLog, EventuallyPublished | the version lock under racing callers, a crash and database errors; the transactional outbox when publishes fail or lose their acknowledgement; the refinement of `EventLog`; nothing committed stays unpublished |
| `spine_projection` | ProjectionIsReplay, AckedIsProjected, EventuallyProjected, EventuallySettled | projection and snapshots through a crash of either process, torn files, a full disk, duplicates; every event is projected, every command settled |
| `spine_faults` | AckFollowsCreated, VerifiedIsReplay | commands lost and repeated; `--verify-integrity` repairs what reordering broke |
| `gateway` | TypeOK, SeenAgree, ReapprovedOnlyAfterCap, GrantedOnlyIfApproved | the duplicate filter and the fail-closed client |
| `court_safety` | TypeOK, EdgeRidingBound, GrantAfterRecovery, GrantAfterRelief | no early grant, and the edge-riding limit, within one process |
| `court_liveness` | CountersAreReplay, EventuallyAwake, EventuallyReleased | counter and entries through `loadFromDb`; the court is not locked for ever |
| `causal` | TypeOK, ChainIntact, QueryIsFresh, EventuallyStored | the chain through failing flushes, inserts meanwhile and a crash; no flush that blocks the next |
| `position` | TypeOK, ClosedOnce, CapitalExact, TimeExitHolds, EventuallySaved | one position through ticks, candles, failover, requests, denied exits and a crash |
| `experiments` | TypeOK, OneActive, TradesAccounted, EventuallySynced | which experiment is ACTIVE, and the ways in which a closed trade can be lost and no other, through freeze, wipe, promotion, update-status, reset, cap, expiry, a failed call and a crash; a trade that closes while a sync runs is copied by another |
| `seqlock` | TypeOK, SlotIsWhole, AcceptedIsOneEvent, ReadsAdvance, EventuallyRead | no torn, repeated or older event is accepted, the unchecked header included |

Runs that end in a counterexample, each against a sentence of the repository
(quoted in `PROJECT.json`, "findings"):

| Run | Sentence | What happens |
|---|---|---|
| `position_ratchet` | "+0.80R (Break-Even Travado)", `README.md:140` | the next message of the feed below +1.0R puts the initial stop back (`regimeEngine.js:76`) |
| `experiments_preserved` | "All trade history must be preserved", `server.js:402` | a trade that closes while freeze-and-new awaits the database is emptied from memory unstored |

One sentence proved too pessimistic: `RUST_CODE_AUDIT.md:83` fears duplicates
when NATS redelivers a command; `AckFollowsCreated` shows that the version lock
absorbs them.

Behaviours that the models contain and that no property forbids:

* An intent registered while the OMS is down is hydrated without the side
  effect of the loop and never gets its ORDER_ACK, although `lyzer-oms/src/main.rs:197`
  says "Publish side effects BEFORE updating the state".
* An event committed between the two queries of the integrity check is reported
  as "SNAPSHOT_DIVERGENCE DETECTED!" of a correct snapshot.
* A failed publish is sent in a later round, after its successors; the OMS skips
  it and saves a snapshot with the gap until a boot with `--verify-integrity`.
* Nothing calls `loadFromDb` at boot, so the edge-riding limit does not survive
  a restart (`ledger.js:4` says it does).
* The consumer of `execution.pending.*` has no durable name, so every boot of
  the registry tries refused commands again.  Neither process checks the order
  of event types.  The snapshot is compared with the event store by version
  number only, so deleting the database and keeping the snapshot
  (`docs/audit/maintenance_guide.md:15`) goes unnoticed once the new log is as
  long.
* An entry order carries no permission token (`streamEngine.js:2125`): the
  physical gate throws, the error is logged, and the engine manages a position
  the exchange does not hold.  Exit orders carry one.  A denied exit is logged
  and the position dropped.
* Wipe and reset drop a position without returning its capital (`leaked`).
* The polling loop never goes back to a socket, and in DEGRADED hands closed
  candles to an engine that ignores them: candles are processed only in the
  poll that follows a failed one, or a socket's close after its error.
* Two freeze requests at once may leave two ACTIVE experiments; a sync that goes
  on across a freeze moves rows from one experiment to the other.
* An error of `getNextExperimentId` or `createExperiment` after the UPDATE of a
  freeze (`experimentManager.js:167-184`) leaves no ACTIVE experiment until an
  operator sets one or the process boots; until then every sync and every freeze
  ends at its first read.  Boot opens one only if the database answers.
* `/api/experiments/update-status` looks at no other experiment: it may leave
  several ACTIVE, of which `getActiveExperiment` takes the latest, or none.
* A closed trade is lost if it closes while a freeze or wipe is under way; if
  freeze-and-new meets an error inserting it, which `server.js:200` catches
  before the histories are emptied; if memory is emptied by a wipe or
  `/api/reset-engine` before a sync has copied it; if the tick guard shifts it
  out of a history of 500 (`streamEngine.js:655`) before that, which needs a
  time without an ACTIVE experiment or of failing inserts; if the process dies
  before the save is due; or when its row expires.  An insert that a sync fails
  is not repeated by itself (`server.js:897`), but the next sync copies the
  whole history again.
* Two `record*` calls of one turn may fork the chain: both are validated against
  the hash they both read.  The backend starts no two.
* The reader of the ring skips an event whose lock equals the last it has read,
  which a restarted writer may produce.

### Bounds

Two intents let versions of one interleave with another's; two client events
let a race follow a race; one command from outside is enough because its type
and version are arbitrary.  One crash (in the spine, of either process) reaches
every recovery path, since what survives a crash does not depend on how many
there were; the proofs have no such bound.
`SnapshotEvery = 1` makes a snapshot due at every event, so that truncation and
crash meet early.  `MaxCommitted` limits the copies of an event that faults may
add to the stream: none in `spine_faults`, where redeliveries do the same to the
OMS and lost publishes are the subject; in `spine_projection` a crash of the
registry between publish and UPDATE adds them.

The gateway runs with a cap of two and three ids, so that eviction happens; the
fourth caller is outside LIVE mode and must never call.  The court's thresholds
are scaled down so that every state of both machines is reached in a few ticks:
two coherent ticks, a cooldown of three, two ticks of relief; `MaxHits = 2` with
four verdicts gives grant, grant, edge-riding veto and one verdict after it.

Position: two candles are an entry and a candle that manages or closes it, or a
re-entry after a tick; with `TimeLimit = 1` the second is already past the
limit; `MaxCapital = 1` makes the second entry meet the limit; one request and
one crash come anywhere between.  Experiments: two
engines, so that a freeze meets a sync between them; two trades, so that one
falls in each window and, with `HistoryCap = 1`, the second pushes out the first;
one request, one failing call or expiring row, and one crash, in any order; one
experiment whose status the operator sets, to CHAMPION (by promotion) or ACTIVE,
as often as he likes.  Other statuses differ from CHAMPION in name only: the code
compares with ACTIVE alone.  Causal memory: batches of two of four events, two failures (a failure of
the retry), one recorder, one query and the engine's own inserts.
Seqlock: four events in a ring of two write the first slot twice, again after a
restart.  `CHECK_DEADLOCK FALSE` is set throughout, because callers may stop
calling and the bounds then stop the behaviour.

### Fairness

* Registry: weak fairness of boot, of the consumer and of the polling loop (they
  are loops that only await); strong fairness of a successful publish and a
  successful UPDATE, which the loop retries for ever and which fail only
  intermittently.  None of clients, crashes or faults.
* Spine: the same, and for the OMS weak fairness of its loop, of its snapshot
  and of the JetStream consumer (which delivers, and redelivers after the ack
  wait); strong fairness of starting and of the boot steps, which need a
  registry that answers and are repeated by whatever restarts the process.
  The repository's start scripts start every process once; the liveness
  properties hold of a deployment with a supervisor, as `fly.toml` and the
  container platform give to the backend.
* Court: candles keep arriving and time passes.  Their content is arbitrary: the
  properties assume in their antecedents that the market stays as it must.
* Position and experiments: an armed timer fires (the debounce starts anew with
  each change, so changes must pause for 200 ms, which trades minutes apart do)
  and SQLite answers, with an error `MaxFaults` times at most.  The feed, the
  market and the operator are not fair.
* Causal memory: the interval fires, SQLite answers, failures are finitely many.
* Seqlock: both processes go on running.

## Proofs

Every invariant and every action property that a passing run checks, and the
refinement of `EventLog`, is also a theorem: it holds for every value of the
constants under the module's named assumption (`RegistryAssumption`,
`SpineAssumption`, ...) and under the hypotheses named below.  So the
bounds of the runs (ids, candles, verdicts, crashes, reads, failures) do not
matter to it.

| Theorem | Property | Hypothesis |
|---|---|---|
| `IntentRegistryProofs!TypeCorrect`, `VersionLock`, `TransactionalOutbox` | TypeOK, CausalVersions, OutboxSound | |
| `IntentRegistryProofs!OrderedStream` | StreamInOrder (no run checks it apart) | no publish fails |
| `IntentRegistryProofs!Refinement` | ImplementsEventLog | |
| `ExecutionSpineProofs!TypeCorrect` | TypeOK (no run checks it apart) | |
| `ExecutionSpineProofs!AckOnce` | AckFollowsCreated | no caller sends an ORDER_ACK |
| `ExecutionSpineProofs!ProjectionReplays`, `AckedAreProjected` | ProjectionIsReplay, AckedIsProjected | no publish fails |
| `ExecutionSpineProofs!VerifiedReplays` | VerifiedIsReplay | the process runs with `--verify-integrity` |
| `ExecutionSpineProofs!NothingInvented` | ProjectionIsNamed (no run checks it) | |
| `RiskGatewayProofs!TypeCorrect`, `MemoryIsBounded`, `DuplicateFilter`, `FailClosed` | TypeOK, SeenAgree, ReapprovedOnlyAfterCap, GrantedOnlyIfApproved | |
| `CourtProofs!TypeCorrect`, `RecoveryFirst`, `ReliefFirst`, `CounterIsReplay` | TypeOK, GrantAfterRecovery, GrantAfterRelief, CountersAreReplay | |
| `CourtProofs!EdgeRidingIsLimited` | EdgeRidingBound | one process that loads no old rows |
| `PositionEngineProofs!TypeCorrect`, `NeverClosedTwice`, `CapitalBalances`, `TimeLimitHolds` | TypeOK, ClosedOnce, CapitalExact, TimeExitHolds | |
| `ExperimentStoreProofs!TypeCorrect` | TypeOK | |
| `ExperimentStoreProofs!OneExperiment`, `NoTradeVanishes` | OneActive, TradesAccounted | one freeze or wipe request at a time |
| `CausalMemoryProofs!TypeCorrect`, `QueriesAreFresh` | TypeOK, QueryIsFresh | |
| `CausalMemoryProofs!ChainNeverBreaks` | ChainIntact | one recorder |
| `SeqlockRingProofs!TypeCorrect`, `WholeSlots`, `UntornReads`, `ReadsGoForward` | TypeOK, SlotIsWhole, AcceptedIsOneEvent, ReadsAdvance | |

The hypotheses are the situations in which the property holds of the code, and
the runs are set up the same way:

* *No publish fails* (`"nats" \notin Faults`): a publish that fails is sent in a
  later round, behind its successors.  Disk, database and crashes stay free.
* *No caller sends an ORDER_ACK*: the catalogue lets any client append one.
* *One process that loads no old rows* (`MaxRestarts = 0`,
  `HydrateAtBoot = FALSE`): a restart forgets the counter, as nothing calls
  `loadFromDb` at boot, and what it counts are the rows whose INSERT ended.
* *One request at a time*: two at once may open two ACTIVE experiments or drop
  what one of them has gathered (`experimentManager.js:141` takes no lock).
* *One recorder*: two `record*` calls of one turn read the same hash.  The
  backend starts no two.

The arguments:

* **Registry.** CausalVersions is nearly inductive: the new version is one above
  a maximum, and the lemmas about `CurrentVersion` show that this maximum
  exists, which needs the interval form of the invariant.  OutboxSound is not:
  what `MarkPublished` marks was published in an earlier step, so
  `PublisherSound` says that `marking` is in the stream and that `batch` holds
  rows of the outbox.  For the order `OrderInv` adds that whatever precedes the
  lowest row of the batch, or is already marked, is in the stream.  For the
  refinement each step maps to a step of `EventLog` or to none: an event
  appended for an intent extends that intent's history, because its version is
  the length plus one, and no other.
* **Spine.** `BaseInv` joins the registry's invariant, proved once and
  instantiated, with what the consumer holds of the stream.  AckFollowsCreated
  needs `AckInv`: a command that waits in the pending stream answers a CREATED
  in the log, since it reaches the log later or twice; the version lock does the
  rest.  For the projection, `ReplayOf` is shown to follow the recursion of
  `Hydrated` (`ReplayStep`), whose solution is unique (`RollUnique`), so that
  hydration from a replay is a replay (`HydratedIsReplay`).  The loop is harder:
  a redelivered message breaks the order of the buffer.  `Held` says of each
  message handed out that it waits in the buffer or is covered by the state,
  that an acknowledged one is covered, and that one not covered waits behind
  lower ones only.  The head of the buffer, if new, is then the next event, as
  the stream is in order (`OrderInv`).  With `--verify-integrity` none of this is
  needed, only that a boot without a snapshot hydrates from nothing (`Fresh`).
  Under all faults the state may have gaps, and hydration starts from no replay:
  `RollExists` shows that the recursion has a solution from any state, and that
  it keeps what one Apply after another keeps.  That gives TypeOK, and
  ProjectionIsNamed, what is left of ProjectionIsReplay when publishes fail:
  events may be skipped, but none is invented and the log is not overtaken.
* **Gateway.** `Window`: the queue is exactly the last approvals since the boot,
  at most Cap of them, so an id outside the set is not among them.  `Booked`
  counts: the grants told for an id and the approvals of it still under way are
  together no more than the gateway's approvals of it.
* **Court.** `RecoveryTracked`: the counter of `mol.js` never runs ahead of the
  coherent ticks there were, so that only a complete recovery unlocks it.
  `ReliefTracked`: what a shock left of the stress is what the ticks since have
  not released.  CountersAreReplay follows the two halves of `loadFromDb`, which
  read the rows at one moment and count them at another; every row has a time of
  its own, hence a place in the order.  For EdgeRidingBound, `Paid`: the counter
  pays for every stretch of verdicts that is still going on.
* **Position.** `Closable`: an open position is one that its ledger still allows
  to be closed.  `CapitalOwned`: a position this process did not open was
  restored when no capital was in use; without it the clamp of `Released` would
  hide a loss.  TimeExitHolds is inductive with the types.
* **Experiments.** OneActive alone is not inductive: a new experiment is the only
  ACTIVE one because none was when it was opened.  `ExpHeld`: among the
  experiments no operator has touched, a request's own is, from its first read
  to its freeze, the only one that can be ACTIVE; then none is until it opens the
  next, whose number is free.  The first read gives the latest ACTIVE one, hence
  the only untouched one.  `TradeHeld`: what a request holds is in memory, stored
  or already one of the lost, and a freeze leaves in memory only what it holds,
  what is stored or what is lost.  `TradesRest` covers every step that moves no
  request: it may take a trade out of memory only stored or exposed, and a row
  out of the database only exposed.
* **Causal memory.** `Fresh`: what a query must find is in the log, in the flush
  it started or in the table, from where it looks for it.  `Chained` and
  `Agreed`: table, batch and buffer are one chain up to the pointer, which is
  still the hash a recorder has read when it inserts.
* **Ring.** `WriterInv` says what the words of the slot hold in each phase of
  the writer, so that the slot is whole when the lock becomes even; `CopyInv`
  that the lock never falls below the even one the reader has copied, and that
  as long as it is the same, so is every word copied since: the second look
  vouches for the whole copy.  That argument ends at a restart, and ReadsAdvance
  needs another, `News`: the numbers stored in the checksum's word only grow,
  through restarts too, and while the event read last is in the slot its lock is
  odd, zero or `last_seq`, all of which the reader passes over.  Both use
  program order of stores and loads, as the model does.

Each temporal theorem ends with the initial condition, the inductive step (one
lemma or one step per action) and PTL.  The faulty variants are not part of any
proof.  Where overlapping arms of a CASE stood in a definition
(`Verdict` of the court, `Released` of the causal memory, `Hydrate`), they are
written as IF and ELSE: the code takes the first that holds, a CASE leaves the
choice open.

Only model-checked: liveness (temporal properties under fairness and ENABLED are
outside the prover's reach): EventuallyPublished, EventuallyProjected,
EventuallySettled, EventuallyAwake, EventuallyReleased, EventuallyStored,
EventuallySaved, EventuallySynced and EventuallyRead; and the two runs that end
in a counterexample.  Induction over data is out of reach too, except where,
as for `Hydrated`, a least counterexample over the naturals replaces it.  No
module uses RECURSIVE.

## Not modelled

Truth kernel, signal providers and research engines (most of the repository's
lines) are numeric functions on floating point data; the interface renders; the
read-only queries, the lag monitor and telemetry change no state.  Of the stream
engine the fusion of signals, the sizing and the evolution step are choices of
the environment.  `manager.rs`, `hardening.rs`, `allocator.rs` and their
neighbours in the shared-memory crate are declared by no `mod` and compiled into
nothing.  Token signatures and their age, and the kill switch, are left out.
`importLegacyTrades` of the experiment manager is called by nothing.

Error paths of modelled code that no action takes, and what they would do:

* OMS: a row of the event store that cannot be decoded is dropped from the answer
  (`lyzer-oms/src/main.rs:309-314`), which leaves a gap in the hydration that
  only `--verify-integrity` finds; a failed query for the highest version counts
  as version 0 (`:329-335`).
* `saveEngineState` catches a write error and goes on (`statePersistence.js:19-21`).
  `Save` of `PositionEngine` and the saves of `ExperimentStore` always succeed:
  with an error the file would stay behind until the next change arms the timer.
* Causal memory: an error of the SELECT at boot sets the pointer to the genesis
  hash over a table that is not empty (`db.js:213-214`), and the next event
  starts a second chain; the clean-up deletes events after 30 days
  (`migrations.js:515-526`), and the stored chain no longer starts at the genesis
  hash.  ChainIntact speaks of a boot whose SELECT succeeds, and of a table from
  which nothing has been deleted.  Quarantining a corrupt database file and
  seeding a new one are left out.
* Position: the deep warm-up at boot calls `processCandle`, without awaiting it,
  for each of 3000 old candles (`streamEngine.js:358-362`), given as arrays, whose
  `close`, `high` and `low` are undefined.  `Restart` leaves this out.
The observation layer, the shadow OMS, the core workspace, the adaptive
packages and the distributed runtime are left for the steps below.

## Plan

1. Done: registry, OMS, spine, gateway, court, position, experiments, causal
   memory, seqlock ring; every safety property of theirs proved.
2. Theorems that say more: the experiments under two requests (what may then be lost,
   and nothing else); the chain of the causal memory under two recorders (a
   fork, never a gap); a restart of the court (the limit holds from boot to boot).
3. An abstract specification for the spine, a projection that only advances
   along the log, and the proof that `ExecutionSpine` implements it.
4. `EventSequencer` of the observation layer, `RateLimit` of the shadow OMS,
   `EventBus` and `ParameterVersions` of the browser runtimes.
