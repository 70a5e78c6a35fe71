# Sael gateway: verification project

TLA+ specifications of the stateful core of the Sael gateway (`gateway/`), the
TLC configurations that check them on small instances, and theorems checked by
TLAPS for every value of the constants.

Paths below are relative to the repository; `store/` is
`gateway/internal/store/`, `gateway/` in file names is
`gateway/internal/gateway/`.

- [1. The system](#1-the-system)
- [2. Modules](#2-modules)
- [3. What the runs check](#3-what-the-runs-check)
- [4. What is proved](#4-what-is-proved)
- [5. Findings](#5-findings)
- [6. Not modelled, and why](#6-not-modelled-and-why)
- [7. Plan](#7-plan)

To repeat a run: `tlc -workers 2 -config Telemetry.cfg MCTelemetry`.
To repeat the proofs of a module: `tlapm TelemetryProofs.tla`.

## 1. The system

Sael is a gateway in front of an LLM provider. A request whose calling key has
been accepted by the provider before ("trusted") has its text classified by Jev
through a child process; an ordered list of scenes turns the scores into allow
or block, and a rejected conversation may be frozen for a while. Several
gateways may share one Redis and one PostgreSQL.

| Component | State | Operations | Talks to |
| --- | --- | --- | --- |
| Telemetry pipeline (`store/redis.go`, `redis_spool.go`, `redis_consumer.go`, `producer.go`, `batch.go`) | bounded queue, batch in hand, sequence, spooling flag, spool files with offset, Redis stream and markers, tables with cursor | enqueue, produce, publish or spool, replay, consume, trim, open, close | Redis, PostgreSQL, local disk |
| Saved configuration (`gateway/admin.go`, `policy_update.go`, `jev.go`, `store/postgres.go`, `redis.go`) | three rows, fallback value of each per gateway, snapshot per gateway | PUT/PATCH policy, PUT jev, PUT upstream, refresh by handler and by ticker | PostgreSQL, Redis notification |
| Trusted keys and credentials (`gateway/security.go`, `store/security.go`, `credentials.go`) | sorted set of trusted keys, markers, stored credentials, audit events | prepareForward, capture, register, remember, forget, two cleanups | Redis, PostgreSQL, upstream |
| Request path (`gateway/server.go`, `review.go`, `session_block.go`, `review_cache.go`, `policy/policy.go`, `store/review_cache.go`) | handlers, background reviews and their count, condition cache, session freezes | proxyRequest, reviewWithEvent, startReview, rememberSessionBlock, sessionBlocked, Close | classifier, cache Redis, Redis |
| Administrator login and sessions (`gateway/admin.go`, `store/security.go`) | attempts per address, a key per session, the sorted set that orders them | login, logout, adoption of old sessions | Redis |
| Review API (`gateway/review_api.go`, `store/review_api.go`) | admission counter, API keys, event and statistic of each request | create and revoke keys, authenticate, admit, decode, review, write, record | classifier, PostgreSQL, the pipeline |
| Classifier process (`classifier/cli.go`, `cli/internal/cli/serve.go`) | child process and the pipe that owns it, one cached client | start, call, reply, notice, close | SDK |
| SDK transport (`sdk/transport.go`, `client.go`, `answers.go`) | attempt number, backoff, what Retry-After asked for | attempt, retry, wait, give up, decode | Jev |
| Review cache settings (`store/review_cache.go`, `gateway/admin_features.go`) | row, `maxmemory` of the cache's Redis, settings each gateway uses | save with rollback, synchronization every five seconds | PostgreSQL, cache Redis |
| Import of an earlier release's files (`store/postgres.go`, `PG.Replay`) | two files, imported identifiers | a pass over both every thirty seconds, retention | PostgreSQL, local disk |

How they interact. The request path reads the policy snapshot, asks the trust
set, reviews, and hands counts and audit events to the pipeline's queue. The
pipeline's cleanup of markers and the credential cleanup both depend on what is
still in queue, spool and stream. The shutdown order of `main.go` couples them:
HTTP servers, then background reviews (`Server.Close`), then the pipeline
(`RedisStore.Close`).

What is hard here, and where a test hardly reaches (the full list, with lines,
is under `hazards` in `PROJECT.json`):

- replies of Redis and PostgreSQL lost after the command ran, and retried;
- a kill between any two steps of rotating, replaying and removing spool files;
- several gateways consuming one stream and trimming it;
- saves, refreshes and fallbacks of the configuration overtaking each other;
- a cleanup made of several calls while what it looks at moves on;
- freezes written key by key, looked up key by key, in a scope that other
  conversations of the client share;
- facts of one classification combined with facts of another;
- background reviews against the shutdown, and the exactly-one count;
- a call whose two legs, the gateway's and the process's, outlive each other,
  with retries, deadlines and a process that dies under it;
- settings applied to a shared cache before they are committed;
- sessions and login attempts that expire while scripts count them.

What makes each component correct:

- pipeline: a record Redis or the spool holds is never lost and is added to the
  tables exactly once; stopping ends and leaves nothing of a drained producer;
- configuration: a patch changes only the fields it names; what was saved is
  served; all gateways converge;
- credentials: trust is earned at the destination it is for, and a trusted key
  has a stored credential;
- request path: a refusal is earned and a freeze is enforced until its end and
  no longer; a request is counted once; the cache tells the truth; Close drains;
- classifier: answers are exactly those to the questions asked, a failure is
  named for what it was, nothing is sent after the deadline or before the
  service allows it, a call returns and Close ends;
- review API: the gate holds and gives back every place, a revoked key gets
  nothing, the audit log and the statistics agree;
- sessions and login: no more sessions than the limit, and none ended for
  another that did not deserve it; a bound on attempts in any minute;
- cache settings: what is saved is what the cache gets, and no gateway goes back.

## 2. Modules

| Module | Models | Composition |
| --- | --- | --- |
| `Ledger` | the promise of the pipeline for every record: new, accepted, durable, applied, lost only from memory | abstract |
| `Telemetry` | the pipeline of every gateway, Redis stream, spool volume, tables | implements `Ledger` (`LedgerRefined`) |
| `ConfigSnapshot` | rows, fallback caches, snapshots, admin handlers, refreshes | |
| `Credentials` | trust, markers, stored credentials, events on their way, cleanups | its event moves are the steps of `Telemetry`, coarser |
| `Policy` | the policy's data and its evaluator (pure) | |
| `Gateway` | request handlers, reviews, cache, freezes, Close | extends `Policy` |
| `Classifier` | a call's two legs, the SDK's retries, the owned process | |
| `ReviewApi` | the interface that offers reviews alone; takes a review's outcome as it comes | extended by `MCReview`, beside `MCClassifier` |
| `AdminSessions` | the sessions and their limit | extended by `MCSecurity`, beside `MCCredentials` |
| `LoginThrottle` | the attempts of an address | extended by `MCSecurity` |
| `CacheSettings` | the settings of the review cache and its Redis | run under fairness (`MCLive`) |
| `SpoolImport` | the passes over an earlier release's files | run under fairness (`MCLive`) |
| `MC*` | instances for TLC | extend or instantiate the above |
| `TelemetryProofs`, `ConfigSnapshotProofs`, `CredentialsProofs`, `GatewayProofs`, `ClassifierProofs`, `ReviewApiProofs`, `LoginProofs`, `CacheSettingsProofs` | theorems | extend the module they are named after and `TLAPS`; `LoginProofs` extends `AdminSessions` and `LoginThrottle` |

### Telemetry

A *node* is a gateway process with its spool volume; an *item* is one count,
event or review statistic. `mode` is the lifecycle (`closed`, `producerDone`,
`producerDrained` of `RedisStore`), `senders` the enqueues inside their
`select`, `pending` the batch `produce` holds, `active`/`rotated`/`offset` the
`.redis`, `.redis.replay` and `.offset` files, `marker` the hash of last
published sequences, `log` everything the stream ever had with `low` as the trim
position.

- Each goroutine's blocking call is one step. `RunPublish` is the Lua script:
  skip if the marker is as high, else add and advance.
- A command without a reply goes to `inflight`: it may run later (`LateExecute`)
  or never (`LateDrop`). The batch is then spooled in a later step, so a kill or
  a replay step may come between; this allows more behaviours than the code,
  never fewer.
- `AppendFail` covers every failing call of `appendSpool`: the file may exist,
  hold the whole line, or (fault `torn`) a part of it.
- The cursor and the tables change in one transaction (`Commit`), whose reply
  may be lost. A consumer's read of the cursor and its `XREAD` are one step
  (`ConsumeRead`): the transaction looks at the cursor again under a lock.
- `Crash` forgets the memory and keeps the volume; `Open` is `OpenRedis` with
  `initProducer`.

Environment assumptions, stated in the module: Redis keeps what it has
acknowledged (the README of the gateway excludes the last second of its append
only file), and a command its caller gave up on takes effect, or is dropped,
before the same node reopens or deletes a marker.

### ConfigSnapshot

Row, fallback value (`cachedPolicy`, `cachedJev`, `cachedUpstream`) and snapshot
carry the number of the save they come from, as history. A handler tries the
update on the snapshot, checks Jev, saves under the row's lock (a policy is
merged again there, `PG.UpdatePolicy`), fills the fallback, and refreshes; a
refresh holds `refreshMu`, reads kind by kind, and each read may fail and fall
back. The policy is abstracted to the fields whose interplay matters: `enabled`,
the number of scenes, and the block message for the fields that depend on no
other. The switch of the review API is not one of them: whether a policy that
does not enable the gateway's review is checked for Jev on its account
(`admin.go:173`) is left open.

### Credentials

One credential, one key per destination (the fingerprint covers both). Trust
(`trusted`, `lapsed`) is the sorted set and its idle time; each call of
`CaptureCredential`, `RegisterCredential` and `PruneCredentials` is a step, and
may fail before or after it took effect (`CredentialFail`, `Onward`). Two
timing assumptions are guards of `GrowOld`: a credential does not grow a day old
within one `observeCredential` (one second) or between the last reads of a
cleanup and its `DELETE` (ten seconds).

### Policy and Gateway

`Policy` is `policy.go` without its strings: scenes with mode, match, action,
conditions, freeze and TTL; `Evaluate`, `RequiredQuestions`, `Validate` and
`winningSceneFreezeTTL`.

`Gateway` follows one request through `proxyRequest` and `reviewWithEvent`. A
request's record `req[r]` holds its handler (`pc`), its review (`rv`, which in
the background outlives the handler) and the policy copy it was admitted with.

- Lookups of `sessionBlocked` are one step each: explicit key, scope, history.
  Each can fail, which lets the request through to its review. The history's
  keys are read in one step; beyond 128 of them the code asks in several `MGET`s.
- `rememberSessionBlock` writes key after key, each of them may fail; the scope
  marker comes last and only if all succeeded. Hashes are injective: a key is
  what was hashed, and of the seed only what the workloads tell apart: protocol
  and instructions are the same in all of them.
- The cache holds facts under comparison and text (the saved Jev configuration
  is part of the code's key and does not change here). `Save` is a pipeline: one
  fact per step, and it may break in between.
- A count is a call of `recordCount`. It runs in a context of its own, so it
  survives the client; that its write may fail after three seconds, which is only
  logged (`review.go:17`), is not modelled;
  everything else fails at once when the client (or, in the background, the
  review context) is gone. A client may also leave between the count of its
  review and the answer.
- `CloseBegin` merges the servers' `Shutdown` with `Server.Close` taking its
  lock; handlers may go on after it, as `Shutdown` gives up after ten seconds.
- Left out: forwarding and the upstream's answer (module `Credentials`), the
  contents of audit events, ingress sampling for the RPM display, the key's
  sampling hash (a free choice), the retry of a busy log line.

### Classifier

One record `call[c]` holds both legs of a call: `gateway` is `CheckConfigured`
(`cli.go`), `work` the handler, the evaluator and the SDK's loop in the process.
They share only the request, the reply and the connection, and each may outlive
the other: a reply to a gateway that has left goes nowhere, and the process works
on until it sees the connection closed (`ConnectionClosed`).

- Time is counted in ticks and every timer is what is left of it: the gateway's
  deadline (`left`, which the request carries and the process's context takes
  over), an attempt's limit, the wait before a retry. `rest` is history: what an
  honoured Retry-After still asks for.
- `process`, `noticed` and `owner` are the child, `done` and the pipe that owns
  it. `CloseBegin`, `CloseKills` and `CloseEnds` are `Close` with its four
  seconds; a process that hangs does not leave when the pipe ends.
- An answer's body is the kind of each answer in it: its type, `wild` (a number
  out of range), `new` (a type the SDK does not know) or `broken`. The three
  layers that check it (`decodeResult`, `serviceEvaluator.check`,
  `ValidateAnswersFor`) are separate definitions.
- Once both legs have ended only how they ended is kept (`Settled`).
- A process that leaves closes its server: a request that still got in works on a
  cancelled context, and a reply that was on its way may break off in its body,
  which the gateway takes for an invalid answer (`Answering`).
- `fault` is history: what did go wrong. `ErrorIsTrue` compares it with what the
  gateway was told.

### ReviewApi

A request goes through authentication, the note of the key's use, the gate, the
body, the review, the answer and the statistic. Keys are created and revoked at
any time and by any gateway; `late` marks a request that came after the
revocation of its key was committed. The review's outcome is a free choice over
what `finishReview` can return. The telemetry store may close at any point
(`StoreCloses`); from then on it takes neither the event nor the statistic.

### AdminSessions and LoginThrottle

A session is a key with a time to live and a member of the sorted set. Scores
are seen from the present: a tick lowers them all, which keeps them bounded.
`Excess` picks the members of the lowest scores. A gateway that starts reads the
keys page by page and asks for the time each has left before it puts them in
with one script each; between the two it may take `Lag` ticks. A throttle script
is one step; `granted[a]` is history, the attempts let through in this tick and
the `a` ticks before it.

### CacheSettings

A save holds the gateway's mutex and the row's lock while it applies its
settings to the cache's Redis, commits, and rolls the cache back if the commit
failed; each call may fail before or after it took effect. The row's lock goes
with the transaction (`locked`): a rollback of the cache after a failed `UPDATE`
still has it, one after a commit whose reply was lost has not. A synchronization
holds the mutex from its read of the row to its last command. `SyncEnd` is what
it does after the mutex is free: it may take back what a save has said of the
cache meanwhile.

### SpoolImport

A pass reads the events' file from its start, removes it at its end and goes on
with the counts' file. `Budget` is how many lines ten seconds are enough for.

## 3. What the runs check

Every passing run explores its whole state space.

| Run | Instance | Question |
| --- | --- | --- |
| `telemetry` | 1 gateway, 3 items, queue 2, batch 2, an inherited spool line; all faults but torn writes | `LedgerRefined`, `MarkerExact`, `AcknowledgedIsDurable`, `DrainIsComplete` |
| `telemetry_shared` | 2 gateways, 2 items, one stream; Redis, PostgreSQL, kill | `LedgerIsPrefix`, `TrimKeepsUnread` |
| `telemetry_live` | under fairness, each by itself: the pipeline of 1 gateway with 2 items; 2 gateways and 1 save of cache settings with 2 faults; 1 call to a process that may hang or die; 2 files of 2 lines with 1 fault | `ServedIsApplied`, `CloseEnds`; `SettingsAdvance`, `CacheConverges`; `WorkEnds`, `CloseReturns`; `ImportedOnce` |
| `telemetry_torn` | 1 gateway, torn writes | violated: `SpoolDecodes` |
| `config` | 1 gateway, 2 saves out of 5 kinds, failing queries, lost replies, restarts | `SavedIsServed`, `PatchKeepsOthers` |
| `config_live` | 2 gateways, 1 save, fairness | `SnapshotConverges` |
| `config_enable` | 1 gateway, 2 policy saves, no Jev connection | violated: `EnabledHasJev` |
| `credentials` | each by itself: 1 gateway, 3 requests, 2 destinations, failing calls; 3 sessions, 2 of them to be adopted by 2 gateways, limit 1; 3 attempts a window | `TrustIsEarned`, `TrustedIsStored`; `SessionsCapped`, `EvictionEarned`; `GrantsBounded` |
| `classifier` | each by itself: 2 calls with different connections, 1 retry, 5 kinds of body, a network that fails and a process that dies; 3 requests for 1 place of the review API | `OwnConnection`, `AnswersAreExact`, `ErrorIsTrue`, `RetryAfterHonoured`, `DeadlineHeld`; `GateExact`, `RevokedIsRefused`, `AuditAgrees` |
| `credentials_prune` | 2 gateways, 3 requests | violated: `AcceptedKeepsCredential` |
| `gateway` | 2 requests over 6 workloads, 2 policies, 1 background place, clock to 2, 1 disturbance | `RefusalEarned`, `FrozenIsRefused`, `FreezeKeepsEnd`, `CachedFactsTrue`, `CountedOnce`, `CloseDrains` |
| `gateway_batches` | 3 requests of two models with one text | violated: `OneBatch` |

Each module also has one `TypeOK`, checked in its first run.

Components that share no state with each other are run in one state space, one at
a time: the variable `subject` says which, and the others keep their initial
state. Each is explored completely.

Why the bounds are enough for these questions:

- *telemetry*: two batches can be in different places (stream, spool, in
  flight) at once and a third be collected; a line of another producer is in
  the spool from the start; a pass can stop after any line. `SpoolLimit` bounds
  only how often a failed append may still leave its line behind. Kills,
  restarts and faults are not counted: they may happen at any time, any number
  of times.
- *telemetry_shared*: two consumers with overlapping pages is the smallest race
  for cursor and trim; a third consumer would meet the same locked cursor.
- *config*: a refresh against a save needs one handler and the ticker, two saves
  against each other two handlers. Restarts and failing queries are unbounded.
- *credentials*: a request that relearns while another is captured and a
  cleanup runs; two destinations for a switch in between.
- *gateway*: every property relates at most two requests (one leaves a freeze,
  a fact or a place, the other meets it). The workloads are the pairs in which
  something is shared: an edited turn, a named session, a history beyond the
  lookup limit, one text under two models, two background reviews of which one
  is too long, a call without text. `MaxFaults = 1` counts failing calls,
  disconnects, evictions and changes of policy together; a client leaving just
  before its answer, and failures caused by a cancelled context, are not counted.

- *classifier*: two calls are what it takes for one to meet another's cached
  client, and for the process to die under one and before the other; a deadline
  of two ticks, a retry, a backoff and an attempt of one tick each let every
  timer end before, with and after the deadline. One Retry-After is honoured, one
  is beyond `MaxRetryAfter`. The process that hangs is in `telemetry_live`.
- *review API*: three requests for one place: one inside, one counted and turned
  away while it is, and one that finds the counter after both.
- *sessions*: with a limit of one every session is in excess of another; two
  gateways adopt the same two sessions while a third logs in. `Ahead` bounds the
  logins of one tick.
- *login*: one address, as no two share anything; windows, strikes and the hour
  the counters are kept are complete.
- *cache settings*: a save at one gateway against the synchronization of both,
  with two faults anywhere, a restart of the cache included. Two are what it takes
  for a commit whose reply was lost to be followed by a rollback that fails.
- *import*: the second file does not fit into the first pass, so that its lines
  are read again.

Deadlock is checked except where the system may stop: `telemetry_torn` (a
gateway whose spool does not decode refuses to start), `gateway` and
`gateway_batches` (requests, clock and disturbances run out), `classifier`
(requests of the review API run out) and `telemetry_live` (a gateway that has
closed stays closed).

### Fairness

- `Telemetry!Fairness`: weak fairness of each goroutine (Go's scheduler runs
  what is runnable), of `Open` (the deployment restarts the container) and of an
  enqueue (its `select` ends one way or the other); and only finitely many kills.
  That a dependency comes back is *not* part of it: `Serve` (strong fairness of
  the succeeding calls, since each is retried for ever) is a premise of
  `DurableIsApplied` only. `CloseEnds` holds even if Redis, disk and PostgreSQL
  never answer again, because of `telemetryShutdownTimeout`.
- `ConfigSnapshot!Fairness`: handlers and tickers keep running, `refreshMu`
  starves nobody (Go's mutex has a starvation mode), and a query repeated every
  second answers in the end.

- `CacheSettings!Fairness`: the ticker ticks, calls return, and a save that was
  begun goes on; nobody has to save. The faults are bounded, so that what holds
  "once faults end" is not vacuous.
- `Classifier!Fairness`: timers run, a process that was told to leave or was
  killed ends and is noticed, a broken connection is noticed. Neither the
  service, nor the client, nor the process has to do anything: the deadline and
  `Close` alone must suffice.
- `SpoolImport!Fairness`: the ticker ticks and calls return. `ImportedOnce` has a
  premise (`Importable`): no line is torn, and one pass has the time for either
  file; otherwise every pass stops at the same line.

## 4. What is proved

TLAPS checks these for any number of gateways, requests, calls, records, keys,
sessions and destinations, and any capacities. Each theorem is about the
module's own `Spec`; the properties are the ones the runs check.

| Theorem | Establishes | Argument |
| --- | --- | --- |
| `TelemetryProofs!TypeCorrect` | `TypeOK` | inductive as it stands |
| `TelemetryProofs!DrainCorrect` | `DrainIsComplete` | `DrainInv` adds: a sender exists only before the queue is closed, and a drained producer is stopped with nothing queued or pending, so that no later step can hand it anything |
| `TelemetryProofs!TrimCorrect` | `TrimKeepsUnread` | `TrimInv` adds: what a consumer has committed lies behind the cursor, which never moves back; a late trim therefore stays behind it |
| `TelemetryProofs!MarkersAreExact` | `MarkerExact` | `NodeInv`, see below |
| `TelemetryProofs!LedgerIsExact` | `LedgerIsPrefix` | `ItemInv`, see below |
| `TelemetryProofs!LedgerIsRefined` | `LedgerRefined` | both, see below |
| `TelemetryProofs!AcknowledgedStays` | `AcknowledgedIsDurable`, if no write is torn | a producer that keeps running lets go of a batch by `PublishOk` or `AppendOk` alone; after either the batch is in the stream or in a complete line (`Whole`) |
| `TelemetryProofs!SpoolsDecode` | `SpoolDecodes`, if no write is torn | `Whole`: no partial line is in a file, so none is glued to the next |
| `ConfigSnapshotProofs!TypeCorrect` | `TypeOK`, with: no policy reviews without a scene | `Typed`, which says what a refresh holds of each kind, together with `ServedInv` |
| `ConfigSnapshotProofs!AnsweredSaveIsServed` | `SavedIsServed` | `ServedInv`: at most one refresh holds `refreshMu`, and a refresh that a save waits for holds, of the kinds it has read, nothing older than that save |
| `ConfigSnapshotProofs!PatchKeepsTheRest` | `PatchKeepsOthers` | a row changes in `Save` alone, which merges the update into the row as it is then |
| `CredentialsProofs!TypeCorrect` | `TypeOK` | with `KeyInv`: who is being captured or registered has a key |
| `CredentialsProofs!EarnCorrect` | `TrustIsEarned` | `EarnInv`: a key on its way to being trusted has been answered by its destination |
| `CredentialsProofs!StoreCorrect` | `TrustedIsStored` | `StoreInv`: a key being learned has a recent row, and a cleanup about to delete has seen every live key that is not protected by its age |
| `GatewayProofs!DrainsCorrect` | `CloseDrains` | `DrainInv`: the place counter equals the number of running background reviews, it never exceeds the limit, and a request still on its way to its review has no mode yet, so it takes a place once |
| `GatewayProofs!FactsCorrect` | `CachedFactsTrue` | `FactInv`: each cached fact names the review that saved it, that review is past its classification and never changes its scores, and its text is the text of the key |
| `GatewayProofs!CountsCorrect` | `CountedOnce` | `CountInv`: a request has no mode before its review and no count before the review ends; whatever ends it counts in the same step, if there is user input |
| `GatewayProofs!TypesCorrect` | `TypeOK` | from `FreezeInv` and the place counter |
| `GatewayProofs!RefusalsEarned` | `RefusalEarned` | `EarnedInv`: whatever stands under a key was written by a review that a scene of its policy blocked, for a conversation or scope the key belongs to, and a lookup refuses only on what it found |
| `GatewayProofs!FrozenRefused` | `FrozenIsRefused` | `OwedInv`: the keys a review has written in full still end no earlier than it said, and what a lookup is owed is such an end |
| `GatewayProofs!FreezesKeepEnd` | `FreezeKeepsEnd` | a key written with `NX` keeps its value and is never the key of a scope; a scope's marker only grows |
| `ClassifierProofs!TypeCorrect` | `TypeOK`, with the bound on attempts | `RecordInv`, an invariant of one call's record: a call that waits has made at most `MaxRetries` attempts, and one that is not working none |
| `ClassifierProofs!ConnectionCorrect` | `OwnConnection` | a working leg's client is its call's connection, and only a working leg sends |
| `ClassifierProofs!DeadlineCorrect` | `DeadlineHeld` | the context of a working leg is live only while its deadline has not passed, and a request is sent only on a live context |
| `ClassifierProofs!RetryAfterCorrect` | `RetryAfterHonoured` | what a waiting call still waits is at least what it was told to rest; time takes from both alike |
| `ClassifierProofs!AnswersCorrect` | `AnswersAreExact` | a reply without an error has as many answers as questions and one to each, so by finiteness no other; the gateway's own check excludes the ones out of range |
| `ClassifierProofs!ErrorCorrect` | `ErrorIsTrue` | `HonestInv`: an expired context has met its call's deadline, a reply names what the leg noted as its fault, and the leg of a gateway that waits is cancelled only by a process that leaves |
| `ReviewApiProofs!GateCorrect` | `GateExact` | the counter is the number of requests that are inside or have been counted and not yet turned away; a place is given back once |
| `ReviewApiProofs!RevocationCorrect` | `RevokedIsRefused` | `LateInv`: a request that came after the revocation finds no live key, and gets no further than authentication |
| `ReviewApiProofs!AuditCorrect` | `AuditAgrees` | `WrittenInv` ties a request's events and statistics to how far it is: the event before the answer, the statistic last, each once |
| `LoginProofs!SessionsAreCapped` | `SessionsCapped` | `SessionsInv`, see below |
| `LoginProofs!EvictionsAreEarned` | `EvictionEarned` | the same |
| `LoginProofs!GrantsAreBounded` | `GrantsBounded` | `ThrottleInv`: a window that runs has counted what was let through since its start, less than a window's attempts are left of the time before it, and after a cooldown or the end of the counters' life none are |
| `CacheSettingsProofs!SettingsOnlyAdvance` | `SettingsAdvance` of `CacheSettings` | `SettingsInv`: each save is committed once, so that its place in the row's history is its age; what a synchronization is about to set is no older than what its gateway uses, because the mutex keeps the gateway's own saves out |

### The argument for the pipeline

`NodeInv(n)` is about one gateway's copies of batches: the one in the producer's
hands, the lines of both spool files and the commands on their way. `MarkerExact`
by itself is not inductive: a marker that jumps over a batch breaks it only when
that batch is sent. What has to be added is an order (`Sorted`, `OneNumber`,
`Numbered`): the next copy anybody may send is the first of its producer that
Redis has not got (`Foremost`), whether it is a pending batch (there is then no
spool, `SpoolFirst`), the replay's next line (`PassedSent`: the lines before it
have been sent, whatever became of the saved offset), or a late command. The last
is the subtle one (`LateFirst`). A command nobody waits for is still the first of
its producer, because its batch is still pending, or still a line, or its producer
was told to stop; or, after a torn write, its line was swallowed by a line that
does not decode, which the replay will not pass, so that nothing later overtakes
it. Nodes meet in Redis only through markers, and no two nodes have a producer in
common, so a step of one leaves the invariant of another alone (`FineKeeps`).

`ItemInv` is about records: a record is in one batch only, a queued one in none
(`OneBatchEach`, `Waits`); a batch is in the stream at most once (`LogInv`); a
consumer's page has no gap behind the cursor (`PageInv`), so that a transaction
which skips what the cursor has passed adds every new entry once
(`CommitAdds`).

For the refinement, `Durable` (the stream has the record, or a line the replay
has still to pass does and the script will let it in) is shown to mean simply
that the stream or some spool line has it (`DurableIs`). Every action is then one
of five kinds: it moves nothing of a record (`QuietMoves`, `MemoryMoves`), sends
a batch (`SentMoves`), writes a line (`AppendedMoves`), removes a file all of
which is in the stream (`RemoveMoves`), or applies a page (`CommitMoves`); each is
a step of `Ledger` or a stutter.

None of these supposes that writes are whole: `MarkerExact`, `LedgerIsPrefix` and
`LedgerRefined` hold with torn lines too. Only `AcknowledgedIsDurable` needs
`"torn" \notin Faults`, and finding 1 is why: a torn line swallows a batch that
was acknowledged.

### The argument for the sessions

`SessionsInv` relates the sorted set to the keys it stands for. No valid session
is missing: each is in the set, or a gateway that still scans has it before it
(`Seen`), and once one gateway has finished all are in (`AllIn`). The set is
within the limit and outlives its members (`IndexInv`). A score may be wrong by
what a page of keys takes to read, and no more (`Floor`, `Order`, `Ranked`), so a
session is ended for others only if they are no older than that.

### The argument for the classifier

The actions of `Classifier` change the record of one call, or every call by the
same function, so its proofs are about records first: each piece an action is
built from (`Attempt`, `Retry`, `Concluded`, `Settled`, `Elapse`) preserves
`RecordInv`, and what a step may do to a call is the relation `MayBecome`.

The other invariants need their strengthenings as well: `CloseDrains` alone does
not exclude that a review finishes twice or a request enters twice,
`TrustedIsStored` alone says nothing of a cleanup that has read the trust set and
not yet deleted, `SavedIsServed` alone says nothing of a refresh that read the
row before a save and stores it after.

### Assumptions

Each is a named `ASSUME` of the module it constrains, and TLC evaluates it on
every instance.

- `BoundsAssumption`, `IdentityAssumption`: capacities are positive, and the
  identities drawn with `rand.Text` (`producer.go`) are distinct.
- `LegacyAssumption`: the lines of an earlier release's spool are in the order of
  their numbers, a producer's lines are in one volume, and a record is in one
  batch. Those files were written by the same append-only path, from a process
  that drew an identity of its own.
- `ConfigAssumption`, `CredentialsAssumption`, `ClassifierAssumption`: the kinds
  of updates, who may act, and that delays and limits are numbers.
- `GatewayAssumption`: the policies have passed `Validate` (a scene that freezes
  has a positive duration), the scores answer at least the questions the policy
  asks, and what a request contains is a sequence of items.
- `ReviewApiAssumption`, `SessionsAssumption`: finitely many requests and tokens
  at any time, a limit of at least one session.
- `ThrottleAssumption`: the counters are kept no shorter than a window
  (`security.go:29`: an hour against a minute).
- `SettingsOnlyAdvance` has the hypothesis that the settings saved before are not a
  save of the behaviour: saves are told apart by when they are made.

### Only model-checked

Every safety and action property of a passing run is stated by one of the theorems
above. Left to TLC:

- Liveness (`telemetry_live`, `config_live`) and everything with `ENABLED`:
  beyond the prover.
- Nothing is claimed by an induction scheme over data. Where a proof needs the
  largest or the least of a finite set, or of a set of numbers, it takes a least
  counterexample (`WFMin` of `WellFoundedInduction`). No module uses `RECURSIVE`.

## 5. Findings

Each is a run that TLC must find violated; the quotation and the lines are in
`PROJECT.json`.

1. **A torn spool line swallows the next batch** (`telemetry_torn`). A write that
   stops in the middle leaves a part of a line; the producer's retry is appended
   behind it, succeeds and is acknowledged, and the line they form does not
   decode: replay stops there, and after a restart the gateway refuses to start.
   The comment in `redis_spool.go:85` considers only the end of the file.
2. **Review can be enabled without a Jev connection** (`config_enable`). The
   check looks at the update tried on the snapshot, the save merges it again
   with what another save has added in the meantime.
3. **A cleanup deletes the credential of an accepted event** (`credentials_prune`)
   while the event is in a producer's hands or in another gateway's queue or
   spool.
4. **A cached decision may combine two classifications** (`gateway_batches`),
   which the documentation excludes. The facts are each true of the text
   (`FactsCorrect`), but no single classification need have given them together.

## 6. Not modelled, and why

- Parsing of request bodies and the client's address, redaction, block messages,
  analytics queries, the web console, the command line's output, install scripts:
  pure functions, formatting or reads without state to interleave.
- Key sampling: a hash against a rate; its outcome is a free choice in
  `Gateway`.
- Loss of acknowledged Redis data, clock jumps, and two processes on one spool
  volume (excluded by the producer lock, `producer_lock_unix.go`).
- `PG.Increment` and `PG.WriteEvent`: `RedisStore` shadows both, and nothing else
  in the gateway calls them. The files they once wrote are what `SpoolImport`
  imports.
- In `Classifier`: the arithmetic of Retry-After (the header comes as a number of
  ticks; a value beyond the range of a Go duration is a listed hazard without a
  run), the service's reasons for a status, the loopback token.
- In `AdminSessions` and `LoginThrottle`: the comparison of the password, and the
  login's log entries. `Adopt` takes the gateway's clock (`security.go:125`) to
  agree with that of Redis; a gateway whose clock is off would misplace the
  sessions it adopts by as much.
- In `LoginThrottle`: `GrantsBounded` is about any sixty seconds, in which five
  attempts may get through; the three a minute of the gateway's README are those
  of a window that starts with an attempt.
- In `CacheSettings`: a cache that is the primary Redis, whose capacity `apply`
  refuses to set for good (`store/review_cache.go:115`). The deployment has two.
- The fallback value of the configuration that is older than a finished save
  (`postgres.go:102`): a listed hazard, not a property.

## 7. Plan

Done, in order of importance: `Ledger` and `Telemetry`; `ConfigSnapshot`;
`Credentials`; `Policy` and `Gateway`; `Classifier` with the SDK's transport;
`ReviewApi`; `AdminSessions` and `LoginThrottle`; `CacheSettings`;
`SpoolImport`; proofs of the safety of the pipeline, with its refinement, of the
configuration, the credentials, the request path, the classifier, the review
API, the sessions, the login attempts and the cache settings.

The runs are kept few so that all of them can be repeated together; a component
that shares no state with another is run beside it.

Next theorems: what the liveness arguments rest on and what is safety in them, such
as that an import never applies a count twice (`SpoolImport`), and that no
commit of the cache settings is overwritten (`CacheSettings`, the row's lock).

Next models: the protocol extraction as operators over abstract bodies, checked
against a reference definition; the conversion of Retry-After with its width.
