# Verification of core-go

TLA+ models of the concurrent and failure-prone parts of core-go, checked with
TLC on small instances, and proofs checked with TLAPS. The models are translated
from the Go source; `PROJECT.json` names the lines behind every definition.

## 1. The system

core-go is a library of service building blocks. Its parts, the state they keep
and how they interact:

| Part | State | Operations | What makes it correct |
|---|---|---|---|
| `dkit` mutex contract (`dmutex.go`) | none | `Lock`, `TryLock`, `Unlock`, `ExistLock`, options | a lease has one owner; it ends by time or by its owner |
| `dkit/redis` mutex | one key per resource on the server; per instance `lockValue`, `mu` | `SETNX`, `GET`, compare-and-delete script; a waiting loop with a ticker | holders exclude each other although commands are lost, repeated or late; `Lock` returns |
| `dkit/mongo` mutex | one document per resource (`_id`, expiry time, identity); per instance `lockDetail`, `mu` | find, then insert or conditional update; conditional delete; TTL index | the same, although a decision rests on an old read and on the client's clock |
| `dkit/redis` election | leader key per domain, heartbeat key per node; per node `leaderFlag`, two workers, `closeCh`, `readyCh` | campaign, renewal, heartbeat, `Close`, `IsLeader`, `IsAlive` | a leader holds the record; a leader is found again; `Close` leaves nothing |
| `dkit/mongo` election | leader document per domain, heartbeat document per node key | find, compare-and-set takeover, insert, renewal, upsert of the heartbeat | the same with clocks that differ |
| `dkit` lifecycle of `Atomic` | `electImpl` under `mu` | `EnableElection`, `IsLeader`, `Close` | no deadlock with event handlers |
| `dkit` unique numbers, IDs, lock helpers | a numbered key per claimed number; the machine ID of a process | `GetUniqueRandomNumber`, `nextID`, `MutexDo`, `MutexTryDo` | no two live processes use one number; the lock is released |
| `httpx` agent, tracing, discovery | the call under way, its deadline budget | `Do`, `DoStream`, retry loop, delay, remaining time as a header, choice of an instance | the loop ends within the budget and repeats only what may be repeated |
| `httpx` requests, responses, errors | none | encoding and decoding | |
| `model/mongox` repository | documents with audit fields | create, replace, patch, delete, batches, feed paging | no lost update, isolation filters always apply, paging skips nothing |
| `model` types, audit, IDs, `datax` | none | conversions, audit fields, error wrapping, page arithmetic | |
| `resource` manager | destination and temporary file, reader with a limit | `Open`, `Download` | no partial file at the destination, limit exact |
| `config`, `pass`, `trace` | merged values; values in a context | load, get, log | precedence of sources |

The elections use the script of the mutex for deregistration; `Kit` uses the
unique numbers for its machine ID and the mutexes for its lock helpers; events
about leadership are published synchronously by the election worker. The
processes share nothing but the server.

What is hard here: every operation is a network call that can be lost, executed
although its caller saw an error, repeated by the client library, or executed
after its caller gave up and did something else; leases end by time, which the
holder and the server measure separately; processes die at any point and start
again under the same node key; `Close` runs against workers in the middle of a
round. `PROJECT.json` lists these hazards with the line where each one bites.

## 2. Modules

| Module | Models |
|---|---|
| `LeaseLock` | abstract: what any `DistributedMutex` promises about one resource |
| `RedisMutex`, `MCRedisMutex` | `dkit/redis/mutex.go` |
| `RedisMutexProofs` | theorems about `RedisMutex` |
| `MongoMutex`, `MCMongoMutex` | `dkit/mongo/mutex.go`, TTL index of `mongo.go` |
| `MongoMutexProofs` | theorems about `MongoMutex` |
| `ElectionWorkers` | what the two elections share: the two workers, tickers, rounds |
| `RedisElection`, `MCRedisElection` | `dkit/redis/elect.go`, `Close` and `IsLeader` of `redis.go` |
| `RedisElectionProofs` | theorems about `RedisElection` |
| `MongoElection`, `MCMongoElection` | `dkit/mongo/elect.go`, `Close`, `IsLeader` and TTL index of `mongo.go` |
| `MongoElectionProofs` | theorems about `MongoElection` |
| `Kit`, `MCKit` | `dkit/dkit.go`, `redis/random.go`, `mongo/random.go`, over `LeaseLock` |
| `KitProofs` | theorems about `Kit` |
| `MongoxRepo`, `MCMongoxRepo` | `model/mongox/mongox.go` with the audit and the options of `model` |
| `MongoxRepoProofs` | theorems about `MongoxRepo` |
| `HttpAgent` | `httpx/agent.go`, `tracing.go`, `discovery.go`, the JSON handler of `resp.go` |
| `ResourceManager`, `MCResourceManager` | `resource/manager.go`, `http.go`, `data.go`, composed with `HttpAgent` |
| `ResourceManagerProofs` | theorems about `ResourceManager` and `HttpAgent` |
| `Config`, `MCConfig` | `config/config.go` |
| `ConfigProofs` | theorems about `Config` |

Composition: `RedisMutex` and `MongoMutex` implement `LeaseLock`; `Kit` uses what
`LeaseLock` promises and is shown to keep to it; `ResourceManager` extends
`HttpAgent`, its downloads being callers of the agent.

Common conventions. Definitions named or marked `Faulty` or `Mutant` are the mutated forms that
`PROJECT.json` names under `mutants`; nothing else uses them. Time is discrete:
`Tick` lets one unit pass. `setting` is a variable that is chosen in `Init` and never
changes; it lets one run cover several situations (who takes part, whether
operations fail). An operation on the server is split where another process can
act: sent, executed, answered. An operation that its client gives up was
executed, or is lost, or goes to `late`, from where it may be executed at any
later moment.

### LeaseLock

The lease has an owner and a time left. `Grant` needs a free lease, `Pass` is one
unit of time, `Release` needs an owner that asked for it, `Ask` makes or ends a
request. There is no step from one owner to another.

### RedisMutex

`record` is the key with its remaining time, `lockValue` the field of the mutex,
and `call`, `opt`, `pc`, `arg`, `reply` are the locals of the method that holds
`Mutex.mu`. `lease` is an observer: the time left of the claim, counted by the
client from the moment it sent the command, so it never exceeds what the server
counts. `result` is what the last call returned. Actions follow the code:
`BeginLock`, `ExecSetNX`, `SetNXOk`/`SetNXNo`, `ExecGet`, `GetReply` (reentrant
callers), `SpinTick`, `GiveUp`, `BeginUnlock`, `ExecDel`, `DelReply`, the early
returns `AlreadyLocked` and `UnlockNothing`, and the failures `Fail`, `Resend`,
`Restart`, `LateCommand`. `Fresh` models `nextLockValue`, which formats the clock in
nanoseconds and a counter that starts at 1 in every process: an instance never draws a
value it or the server still knows, but with `Coincide` an instance may draw what
another has just drawn, as two processes can in one nanosecond with equal counters.

### MongoMutex

Acquiring is `ExecFind`, then `SendWrite` or `FoundLive` decided by
`Clock(m) = now + Skew[m]`, then `ExecWrite` and the reply. `doc` carries the
owner as an observer; the filters use only what the code's filters use, `_id` and
the expiry time. A BSON date has milliseconds; `setting.sameInstant` says whether
two leases may get the same one. `claim` marks acquisitions that were not
adoptions of an existing document. `Lock`, `TryLock` on a locked and `Unlock` on an
unlocked instance return without any effect and are left out.

### ElectionWorkers

A worker is a record: its place, ticker, time used by its round, and for the
election worker the flag and the reply. The first round runs at once. A ticker
keeps one tick nobody read. `adopted` is an observer: the flag was set because
the node found its own record, and no renewal has succeeded since.

### RedisElection and MongoElection

`life` is the life of an `ElectionImpl`: `new`, `starting` (`EnableElection` waits for
`readyCh`), `running`, `closing` (`Close` waits for the workers), `deregistering`
(between the two deletions), `closed`; or `crashed`. A node may start again after
`closed` or `crashed`. `StepDown` is a round with `CanElect` false: it clears the flag
and keeps the record. `Exit` competes with `BeginRound` when `closeCh` and the
ticker are both ready, as the select does. `haunted` is an observer: the node was
started while a deregistration of an earlier life of it was still under way or still to
come. `Close` of `Atomic` forgets the election before it closes it, so with
`setting.overlap` a node may be started again while its last life is `closing` or
`deregistering`: what that life may still send (`Remaining`: a last round of each worker
and the deletions) goes to `late`.

In `RedisElection` a campaign is `SetNX`, then `GET` if refused; a renewal is the
script. In `MongoElection` a campaign is a find, a decision by the node's clock, and
a write that the server accepts only if the filter still matches (`Accepts`); the
expiry time is in the write, so a late write brings an old one. Heartbeats are
keyed by the node key; the key and the domain of each node are in `setting`.

### Kit

`claims` says when the claim of each machine number ends. `kit[p]` is a process
between `NewDefaultKit` and its IDs: on Redis `TryRedis` is one `SET NX`; on MongoDB
`Find`, then `Insert` or `Update` (the takeover of a document that had expired when
it was found), with the expiry computed before the loop, so that it may be over
when it is written. `Claim` covers the lost answer: the claim stays behind without
an owner. `Purge` is the TTL index, `Restart` a process that ends and starts again,
`NextID` an ID of sonyflake: unit of time, sequence, number. A unit of sonyflake is `Unit`
ticks of the clock (10 ms in the code) with `PerUnit` IDs in it, while claims end at any
tick, so a number can change hands inside a unit; `covered` (observer) says that the
maker's claim lasts to the end of the unit. Nothing renews a claim. The
helpers are `MutexDo` (all variants), `Acquire`, `EndAction`, `Unlock` under one
context; every call has a mutex of its own, hence `Token(p)`. All processes read
one clock.

### MongoxRepo

`docs` is one collection, `mem` the entities each caller holds, `seen` (observer)
the stored document each of them was read from or written as. A write is begun
(options merged, condition injected, entity audited in memory), executed at the
server, and answered or not. `repo` chooses what the entity type carries (creation,
update, deletion, tenant), the options and the work of the callers. Covered:
creation of one document and of several, `Update` of one and of several, `Upsert`,
`Patch`, `PatchRaw`, `Delete`, `BatchDelete`, reads by id, and the feed with its tokens. The
server sorts a page by the cursor field alone, so rows with one value come in any order,
and in another one on the next page (`SortedRows`).
Times are the numbers of the stamped operations, `PerInstant` of them in a millisecond,
and entities keep them as `time.Time`; the Ms variants are in section 5. An audit that
fails leaves on the entity what it had set by then (`CreateFilled`), so that an `Upsert`
repeated after a failed one no longer creates.

### HttpAgent

`call[c]` is one `Do` or `DoStream`: `prepare`, `resolve`, `send`, `flight`, then
`drain`, `handle` or `stream`, and `backoff` between attempts. The clock has `Ms` ticks
in a millisecond because the budget header is in whole milliseconds. `hop` is the
context the next service makes of the headers. Durations shift in `Width` bits.
Whatever the client fails with is retryable, because it is a `url.Error`. The network,
servers, resolver, pre-handlers and response handlers may fail or answer as they
like. `Redirect` is one that `client.Do` follows by itself, up to the limit of its
`CheckRedirect`. A body is empty, malformed, of mismatched types (`json.Unmarshal` sets the
other fields and fails) or whole, with or without a code. `code`, the code of the response
wrapper, and `filled` (observer: the attempts whose answers set fields of wrapper or
result) outlive an attempt, because all attempts decode into the same two values. `allow`
are the wrapper's `allowCodes`, `marks` says that its `Validate` marks its errors as
retryable.

### ResourceManager

A download looks up the handler of its scheme, opens (over http a `DoStream` of
the agent, closed unread when the announced length is above the limit), creates
its temporary file, copies one read at a time through `limitReadCloser`, checks,
renames. Every step may fail and then runs the deferred calls (`Abandon`).
`Register` replaces a handler at any time. Bodies are counts of units; the server
may stop sending in the middle, and where no length was announced that may look like the
end (`BrokenLooksDone`).

### Config

One `Load`: the default file, the file of the deployment environment, the local file,
environment variables and flags; a file is a tree of two levels, the others are lists of
assignments to paths. `mergeMaps`, `recordSources`, `parseWithHint`, the validation of
sensitive and required paths and masking are operators of the source's names; `ToMap` is
the loop over the variables, or the flags, as a recursive function. The texts are a few
that tell the conversions of `strconv` apart: `1` reads as true where no number is
overridden, `007` prints as 7 and `0.50` as 0.5 (`Number`). A path is sensitive when its
dotted form has a sensitive key in it, which on paths is a run of elements
(`isSensitivePath`). A step merges one source, so every prefix of the load is a state.
`SourceAssumption` says what a source is: the entries of a tree are values or groups, a
value that reads as empty or as a mask is a string, and a list of assignments is finite.

## 3. Runs

Deadlock is checked except where the modelled work is finite: in `kit`,
`config` and `agent_download` the calls, loads and the clock come to an end.

| Run | Instance | Shows |
|---|---|---|
| `redis_mutex` | 2 instances, 4 tokens, 1 identity, TTL 2, 1 late command | `MutualExclusion`, `LeaseBacked`, `ImplementsLeaseLock` under lost, repeated and late commands, expiry and restarts; lock values do not coincide |
| `redis_mutex_live` | 2 instances, 3 tokens, TTL 1, no late commands | `LockReturns`: a `Lock` whose competitors stopped returns, also behind a holder that died or a grant nobody knows of |
| `redis_mutex_stale` (violation) | as the first | `TryLock` of an instance whose lease expired reports success while another owner has the key |
| `mongo_mutex` | 2 instances, clocks 1 apart, TTL 2, clock to 4; late writes without identities, identities without late writes | `MutualExclusion`, `LeaseBacked`, `UnlockRemovesOwn`, `ImplementsLeaseLock` |
| `redis_election` | 2 nodes with all failures and veto; 2 nodes with lives that overlap; 1 node with heartbeat, with failures and overlap and without; UnhealthyTime 4, round 1 | `LeaderBacked`, `RunningIsAlive`, `CloseDeregisters`, `ClosedStaysOut` |
| `redis_election_live` | 2 nodes without failures; 1 node with all of them | `LeaderReelected`, `DeadForgotten` |
| `redis_election_two_leaders` (violation) | 2 nodes whose operations may fail | a node that found its own old record leads without renewing it; the record ends and a second node leads too |
| `mongo_election` | 2 nodes, clocks 1 apart, failures, late writes, TTL index; 2 nodes with lives that overlap; 1 node with heartbeat, with failures, with overlap and with neither; UnhealthyTime 5, round 1 | `LeaderBacked`, `RunningIsAlive`, `CloseDeregisters`, `ClosedStaysOut` |
| `kit` | 2 processes, 2 numbers, claim 2, lease 2, contexts of 2 and 3, clock to 3, either backend | `ClaimsExclusive`, `IDsUnique`, `ActionsExclusive`, `NilMeansReleased`, `KeepsLeaseLock`, `HelperReturns` |
| `mongox_repo` | 2 callers, 2 documents, 2 names, pages of 1, 4 stamped operations | `NoLostUpdate`, `OutOfReach`, `FeedComplete` |
| `config` | five sources from small trees and assignments, all combinations | `LastSourceWins`, `SecretsContained`, `TypeKept` |
| `agent_download` | a caller with nine kinds of call and a download; clock to 4, 2 ticks in a millisecond, bodies of 0, 2 and 3 units, limit 2 | `SentAtMost`, `BudgetPassedOn`, `NothingLeaked`, `SuccessIsFresh`, `PickIsCallable`, `AllOrNothing`, `EverythingReturns` |

What the properties say, with their limits:

* `MutualExclusion` is about instances that lock without a reentrant identity and
  count their lease from sending the command (Redis), or keep a margin of the
  largest skew (MongoDB). Instances of one identity share a lease by design.
* That holders on Redis exclude each other rests on lock values that differ. Values of one
  process do; those of two processes do unless they are drawn in the same nanosecond with
  equal counters (`Coincide`), see section 5.
* `LockReturns` is checked without late commands; a late `SETNX` delays the others by the
  lease it takes. In `LeaderReelected` the setting with two nodes has no failures: the
  leader closes, it does not die.
* `LeaderBacked` excepts a leader by adoption until its first renewal (that is the
  run with two leaders) and a node started while its own deregistration was late or
  still to come.
* `LeaderBacked` and `RunningIsAlive` of MongoDB are about leases that are `Timely`: a
  period, a round, what a late write takes off (`Drift`) and the skew fit into
  `UnhealthyTime`. The code does not look for it. The defaults (5 s, 2 s) are Timely if no
  write is executed late and clocks differ by half a second at most, and not otherwise:
  section 5 has the counterexample.
* `CloseDeregisters` is about nodes whose operations succeed and whose `CanElect`
  stays true, and about lives that do not overlap. With a veto the record is left to its
  expiry.
* `LeaseBacked` and `LeaderBacked` connect what a client believes with what the
  server has; they are broken only by several steps of several actors.
* `UnlockRemovesOwn` is about MongoDB leases that expire in different milliseconds and
  `RunningIsAlive` about node keys used in one domain; section 5 says what happens
  otherwise.
* `IDsUnique` and `ClaimsExclusive` are about claims that last: `IDsUnique` about those
  that last to the end of the unit of time the ID was made in. A claim lasts one minute,
  is never renewed and the number is used for the life of the process: after that minute
  the code gives no guarantee (section 5). The number of a lost answer is lost until it
  expires.
* `ActionsExclusive` is about contexts that are not longer than the lease (the
  helpers' own is exactly as long). A longer one lets two actions overlap. When the
  action uses up the context the deferred `Unlock` fails, the helper returns that
  error, and the lease stays until it ends. `HelperReturns` needs a context with a
  deadline.
* `NoLostUpdate` excepts two updates in one millisecond, which pass the same filter,
  entities without update time (an `Upsert` that creates goes by the id alone, and
  `OutOfReach` excepts it too), and the mark of a bulk deletion, which leaves the update
  time alone. A failed `Update` leaves the entity stamped, so repeating it conflicts
  although nobody else wrote; the model has that too.
* `OutOfReach`: no write reaches a document that the injected conditions hide.
* `FeedComplete` excepts rows that share their cursor value with a returned one at a
  page boundary, or have none: the feed skips those.
* `LastSourceWins` asks of a variable or a flag that what stands in the tree is its text,
  or the truth value or number the text spells, in any form (`StandsFor`). `SecretsContained`
  is about secrets that have a path; that `maskURI` hides passwords inside other values is
  left out. `TypeKept` is about integers overridden as text.
* `SentAtMost` counts what the agent sends; what a server redirects (307, 308) is repeated
  at the server's word, and the property bounds how often.
* `BudgetPassedOn` excepts a budget below a millisecond, announced as 0, which the next
  service takes for none. Time between headers and arrival, discovery included, is
  nobody's to deduct and is the slack of the property.
* `SuccessIsFresh` excepts calls whose errors of the handler are retried, by option or
  because `Validate` marks them: for those it fails (section 5).
  In the other direction a code left by an earlier attempt can make a good response fail.
* `PickIsCallable` is close to the code it is about; what it adds is that the choice holds
  for each attempt anew.
* `AllOrNothing` is a state invariant, so it holds for a crash at any point, except that
  the temporary file of a process that died, or whose removal failed, remains. The crash
  is one of the process: the code does not sync the file. A body that ends early counts as
  whole where no length was announced. Handlers registered by the user are not held to the
  limit when they do not announce a size.

### Bounds

Two instances or nodes are enough for every hazard listed: each is about one
actor and one competitor, the former and the next holder being two lives of the
same actor where three are needed. Four tokens let both instances have a current
token and one under way from an earlier attempt. One late operation at a time is
enough because a late operation acts alone on the server and each of them can be
any operation of any earlier life. TTL 2 separates a lease that just began, one
that is under way and one that is over. UnhealthyTime 4 gives a period of 2, so
that rounds can take time (`RoundTime` 1) and still end before the lease
(`TimeAssumption`); MongoDB needs 5, because the skew and a late renewal come off the
lease too (`Timely`). In the runs with overlapping lives all that an old life can still
send may be late at once. `MaxTime` 4 lets a MongoDB lease expire, be taken over and
the successor expire in turn. Heartbeats do not depend on other nodes, hence the
settings with one member.

`Kit`: two processes and two numbers let one number be lost to a dead claim while the
other is fought for; a claim of 2 has a first, a last and an ended instant within a clock
of 3; a unit of 2 ticks lets a claim end inside it. Claims and helpers share only the
clock, and so do the caller and the download of `agent_download`: the constraint `Apart`
leaves out states in which both have begun. `MongoxRepo`: four stamped operations are a
creation, two competing writes and one more. `HttpAgent`: a budget of 4 ticks is two
milliseconds, enough for three attempts and for a header of 0, 1 and 2; 3-bit durations
overflow on the second delay. Bodies are below, at and above the limit, read by 1 or 2
units. `Config`: a path of two levels is the shortest on which a group replaces a value, a
value a group, and two groups merge.

`TimeAssumption` is a condition on `Timeout` and `UnhealthyTime` that `readOpt`
does not check and the defaults meet: a round, including its network operations, must be
over before the lease that the round before it took. `Timeout` bounds a round in the
code. `SkewAssumption` says of late writes only that they have been under way for a round.

### Fairness

`redis_mutex_live`: the server answers and time passes (weak fairness); the
ticker of `Lock` fires and the client library repeats a command finitely often
(strong fairness of the client's steps); not every reply to a successful `SETNX` is
lost (strong fairness of `SetNXOk`), without which an unlucky client could time
out for ever. Calls are not fair: nobody has to unlock.
`redis_election_live`: time passes and workers that can step do so; a select
with two ready channels chooses at random, so `Exit` is strongly fair. Starting,
closing, crashing and failing are not fair.
`kit`: time passes; a call to the lock is answered by the end of its context, as the
client libraries do; an action that runs ends and `Unlock` is answered. A lock held
by somebody else need never come free.
`agent_download`: time passes; the agent and the manager take the steps that are
theirs; the resolver answers; a request, the read of a response body and a handler end
once the context they are bound to has. Servers need never answer.

## 4. Proofs

`RedisMutexProofs` proves, for any number of instances, tokens, identities,
durations and late commands, from `ValueAssumption` (tokens, identities and the
empty value are apart), `TTLAssumption` (durations are positive) and
`MaxLateAssumption`:

* `TypeCorrect`: `Spec => []TypeOK`
* `HoldersBacked`: `Spec => []LeaseBacked`, assuming `~Coincide`
* `Exclusion`: `Spec => []MutualExclusion`, assuming `~Coincide`
* `Refinement`: `Spec => ImplementsLeaseLock`

The inductive invariant is `IInv == TypeOK /\ (~Coincide => TokensUnshared /\ LeaseBacked)`.
`LeaseBacked` alone is not inductive: a deletion under way for a token, or a second
instance with the same token, could remove the key of a holder. `TokensUnshared`
says there is none as long as the lease is counted: a token is new when drawn,
an abandoned `SETNX` never carries a token that was reported, and a deletion of a
token starts only when its owner has called `Unlock`, which ends the claim.
`TypeOK` gives what the locals are at each place of a method. One lemma per action
shows that it preserves `IInv`; exclusion follows because two holders would have
two values in one key. For the refinement, `lease` of the abstract lock is the
record, and `asked` are the tokens with a deletion running or under way.

`~Coincide` is what `nextLockValue` does not guarantee across processes: with two equal
values a second `TryLock` is still refused, but the `Unlock` of one instance deletes the
key of the other. The refinement needs nothing of it: the abstract lease is the key's,
whoever draws the value.

`KitProofs` proves, from `KitAssumption` (durations are numbers, `None` is nothing
else) and for any number of processes, numbers, calls, IDs and restarts:

* `ClaimsExclude`: `Spec => []ClaimsExclusive`, and `IDsApart`: `Spec => []IDsUnique`
* `ActionsExclude`: `Spec => []ActionsExclusive`, and
  `ReleasedOnNil`: `Spec => []NilMeansReleased`
* `HelpersKeepContract`: `Spec => KeepsLeaseLock`

Claims and helpers have an inductive invariant each. `HelpInv` adds to the types that
a context not longer than a lease ends within it: it began before the lease did, so
as long as it runs the lease is there and is the call's own (`Backed`); two actions
would need two tokens in one lease. `ClaimInv` adds that a takeover was decided on a
claim that had ended, that a claim that lasts is still written (`ClaimBacked`), and,
for the IDs, that the number of a covered ID stays claimed until its unit of time is
over, even when its maker has died (`Instants`): without it the next claimant could
repeat the sequence numbers of a dead process. Each way to write a claim then finds
none, or one that ended before. For the refinement the lease is the token and the
time left, and `asked` are the calls that wait for their `Unlock`.

`RedisElectionProofs` proves, from `TimeAssumption` and for any number of nodes, lives
and late commands:

* `LeadersBacked`: `Spec => []LeaderBacked`, and from it `OneBackedLeader`: two nodes
  never both report to be leader unless one of them adopted an old record
* `HeartbeatsLast`: `Spec => []RunningIsAlive`
* `CloseCleansUp`: `Spec => CloseDeregisters`, and `ClosedIsOut`: `Spec => ClosedStaysOut`

`LeaderBacked` says that the record is there; to be inductive the invariant has to say
for how long. `LeaseOK` gives, at every point of the election worker's loop, the time
the record has left against the time the worker has spent in its round and the time
until its ticker fires: between rounds it lasts past the end of the next round. The
script then finds the record of its own node, and no other node finds none. `HeartOK`
says the same of the heartbeat. `Unhaunted` excludes a deregistration under way for a
node that is up. For `Close`, `Clean` says who may hold the record when nothing fails:
a node whose flag is set, or is about to be, so the deletion that follows the workers'
end does not miss it. What the workers, tickers and rounds do to their records is
proved first; `MongoElectionProofs` begins with the same lemmas, over its own module.

`MongoElectionProofs` proves the same five statements (`HeartbeatsLast` as `Spec =>
[](KeysApart => RunningIsAlive)`: two members with one node key overwrite each other's
heartbeat, see section 5), from `TimeAssumption`, `SkewAssumption` and
`SettingAssumption`; `LeadersBacked`, `OneBackedLeader` and `HeartbeatsLast` assume
`Timely` as well. The lease a leader has left is kept above the skew as well (`Reserve`):
a takeover was decided on a record that the clock of its node called expired, so the
record it names is not the one of a leader that renewed (`IOOK`, `GoodWrite`); a renewal
executed late brings an expiry at most `LateTime` old. `Timely` is a condition on the
deployment, not on the code's options, and weaker than it looks where nothing is late:
`Drift` is 0 if no setting lets a write be late, so the theorems then hold at the defaults
for clocks up to half a second apart. With late writes they do not, as section 5 shows;
`UnhealthyTime` 10 s with `Timeout` 2 s would leave them 3 s for lateness and skew.

`MongoMutexProofs` proves for any number of instances, identities, clocks within
`MaxSkew`, late writes, and without the bound on the clock:

* `TypeCorrect`: `Spec => []TypeOK`
* `Backing`: `Spec /\ Distinct => []LeaseBacked`
* `Exclusion`: `Spec /\ Distinct => []MutualExclusion`
* `UnlockOwn`: `Spec /\ Distinct => UnlockRemovesOwn`
* `Refinement`: `Spec /\ Distinct => ImplementsLeaseLock`

`Distinct` says that no two leases expire in the same millisecond; the settings of
`mongo_mutex` have it. It cannot be dropped: the filters of the takeover and of the
deletion compare the expiry time, and section 5 names the counterexample. With it
`ExpiryIdentifies`: one expiry time, one lease, among all that are stored, remembered
or under way. The rest of `IInv` is that an abandoned deletion never names the lease of
a holder (`Unasked`; the claim is given up before the deletion is sent) and that a
method that was told of its lease, or is about to be, has it in the document from the
execution of its write on (`AllBacked`). The refinement maps the document to the
abstract lease and the deletions that are sent or under way to `asked`.

`ResourceManagerProofs` proves for the agent and the downloads, for any jobs,
instances, sizes and limits: `RequestsBounded` (`SentAtMost`), `BudgetsShrink`
(`BudgetPassedOn`), `BodiesClosed` (`NothingLeaked`), `SuccessesFresh` (`SuccessIsFresh`),
`PicksCallable` (`PickIsCallable`) and `DownloadsWhole` (`AllOrNothing`). `IInv` is one
conjunction for each call and one for each download. `SentAtMost` needs that
`backoff` is entered only below the last attempt; `SuccessesFresh` that a refused answer
ends the call unless its error is retried, so that `filled` is empty whenever another
attempt begins; `BudgetPassedOn` that the header was
computed from the time left when it was written; `AllOrNothing` that the temporary file
holds what was read and never more than the limit when it is renamed, and that a
download that reads over http has the stream of its call. `JobAssumption` types the
jobs; `ResourceAssumption` keeps `None` apart from the handlers.

`MongoxRepoProofs` proves, for any number of callers, documents, contexts and stamped
operations:

* `WritesStayInReach`: `Spec => OutOfReach`
* `UpdatesNotLost`: `Spec => NoLostUpdate`, assuming `PerInstant = 1`
* `FeedsComplete`: `Spec => []FeedComplete`

The first needs only `Requests`: a request on its way carries the filter that its
audit and `injectCond` built, through batches, the count after a conflict and lost
replies. The second is about where an update time can be. `IInv` adds that all of them
were drawn before (`Bounded`), that a stamp on its way to a document is stored nowhere
and known to no other caller (`SentAlone`), and that a caller that can filter by the
update time of the stored document has seen that document, up to a mark of deletion
(`KnownSeen`). `Turn` states what a step may do to stamps, `TurnKeeps` shows that
this keeps the invariant, and every action is shown to be such a step. `PerInstant = 1`
is the setting of the run; with two stamps in one millisecond the lock of the code
does not hold.

The feed is proved for pages of any size, any number of rows and any resolution of the
clock; `RepoAssumption` makes the collection finite, so that it can be sorted. `GotOK`
is the invariant of a feed between two pages: nothing came twice, nothing that came lies
ahead of the token, and each row that was in view all along and lies behind the token came,
or a row with its value did. `InOrder` says what the server may answer: the rows after
the token, each once, sorted. The step from page to page (`PageKeeps`) needs no induction
over the rows: a row left for later comes after the last one of the page, so it lies
ahead of the new token or has its value. What other callers do can only take rows out of
view. `Dates` adds that creation times are numbers wherever an entity is, without
which two cursor values could not be compared.

`ConfigProofs` proves, from `SourceAssumption`, for any trees, lists of variables and flags,
sensitive and required paths:

* `SourcesInOrder`: `Spec => []LastSourceWins`
* `SecretsKept`: `Spec => []SecretsContained`
* `NumbersKept`: `Spec => []TypeKept`

`LastSourceWins` speaks of the list of sources read so far, which grows by one in a step,
so `WinnersGrow` says who is in force after one more: the new source for what it gives,
nobody for what it hides, the same one as before otherwise. `MergeIs` says the same of
`mergeMaps`, and `MergeKeeps` puts the two together. `TypedIs` shows that typing the
variables moves no path and makes of each text what it spells (`ParsedIs`).
`SecretsContained` follows from what validation checked (`Checked`) and from the record of
sources, once what looks empty or masked is known to be a string (`Plain`):
`isPlaceholder` is asked about strings only, and among values with a text `isEmpty` finds
only strings empty. `TypeKept` needs the types to be remembered: as long as only files
were read the merged tree has theirs, and from then on a number that is overridden by
numbers is one (`FilesFirst`). That the loop of `ToMap` ends with a tree is an induction
over its passes. The induction theorems of the library cannot be used here, so it is
carried out by hand: among the numbers of passes after which the result were none there
would be a least (`LeastNat`).

All inductive invariants were checked with TLC on the runs' instances first. Every safety
property and every action property of a passing run is a theorem, under the conditions
named with it.

What stays with TLC:

* liveness (`LockReturns`, `LeaderReelected`, `DeadForgotten`, `HelperReturns`,
  `EverythingReturns`): `ENABLED` and fairness are outside the proof system;
* every property for the exact instances of section 3, so that a theorem and a run say the
  same of them. What the theorems assume away (lock values that coincide, leases that end
  in one millisecond or are not Timely, shared node keys, two stamps in one millisecond)
  is in sections 3 and 5.

## 5. Disagreements met

The first two are runs that TLC finds violated; `findings` quotes the lines.

1. `redis_mutex_stale`: `TryLock` succeeds while another owner holds the key, after the
   lease of the instance expired (`redis/mutex.go:131`; the same code is in
   `mongo/mutex.go:117`).
2. `redis_election_two_leaders`: two nodes report to be leader after one of them
   adopted its old record (`redis/elect.go:255`).

The next six are outside what the passing runs assume, and each can be reproduced by a
change to the configuration of such a run:

3. With the default `UnhealthyTime` 5 s and `Timeout` 2 s (`mongo/elect.go:23,25`) a
   heartbeat that its node gave up after 2 s, and that the server executes after the next
   one, puts back an expiry time that ends before the following heartbeat need be over: a
   running node disappears from `IsAlive`, although `dkit.go:46` calls `UnhealthyTime` the
   duration of the lease. Renewals are written the same way, so a leader loses its record.
   In `MCMongoElection.cfg`, in units of half a second: `UnhealthyTime = 10`,
   `RoundTime = 4`, `LateTime = 5`, `MaxSkew = 0`, `Settings <- MCLateSettings`; then
   `RunningIsAlive` is violated, and so is `LeaderBacked` if it is checked alone.
4. A machine number is used after its claim ended (`dkit.go:130`), although
   `dkit.go:80` calls the IDs globally unique: with `IDsGloballyUnique` as an invariant in
   `MCKit.cfg` it is violated.
5. `Do` succeeds with fields of an answer it had refused, when errors of the handler are
   retried: all attempts decode into one result (`httpx/resp.go:124`), which
   `httpx/resp.go:95` describes as that of the response. With `ResultIsFresh` as an
   invariant in `MCResourceManager.cfg` it is violated.
6. Two processes that draw one lock value, in the same nanosecond and with equal counters
   (`redis/mutex.go:203`), can delete each other's lease: with `Coincide = TRUE` in
   `MCRedisMutex.cfg`, `LeaseBacked` is violated. It takes a coincidence of clocks, not a
   sequence of calls.
7. `Unlock` of the MongoDB mutex takes a lease with the same expiry millisecond for
   its own (`mongo/mutex.go:180`): in `MCMongoMutex.cfg` give `Settings` the value
   `MCInstantSettings`, and `UnlockRemovesOwn` is violated.
8. Heartbeats of two domains with the same node key overwrite each other
   (`mongo/elect.go:350`): in `MCMongoElection.cfg` give `Settings` the value
   `MCTwinSettings`, and `RunningIsAlive` is violated.

The others were found while modelling and have no counterexample of their own:

9. `Close` of `Atomic` forgets the election before it has closed it
   (`redis/redis.go:167-175`, `mongo/mongo.go:186-195`), so the node can be enabled again
   meanwhile, and the old life then deletes the records of the new one. The elections
   model it; `LeaderBacked` and `RunningIsAlive` except the new life (`haunted`), and
   `CloseDeregisters` is about settings without it.
10. Secrets inside lists have no path in `sourceMap` and are not judged
   (`config.go:612`), although `config/README.md:92` covers them.
11. `PatchRaw` and `BatchDeleteByFilter` store a date (`mongox.go:782`, `:921`) where the
   entities of the Ms variants (`model/audit.go`) keep a number of milliseconds: such a
   document no longer decodes into its entity and no longer matches its update time. The
   model has entities with `time.Time` only.
12. `CtxCreateAudit` that fails on a missing tenant or app has already set creator and
   creation time (`model/audit.go:13-37`): the entity's next `Upsert` goes by
   `baseUpdateOp`, as an update. The model has it.

## 6. Not modelled, and the plan

1. `AtomicLifecycle`: `at.mu`, held by `EnableElection` while it waits for the first round,
   against event handlers, which the election worker runs synchronously, and `Close`: a
   handler that asks `IsLeader` or closes waits for itself. Today the elections model
   `Close` and `IsLeader` without the lock and without handlers.
2. `SnowflakeID`: decimal strings and integers as a checked pure function.
3. Clocks of different processes in `Kit`.

Left out for good: reads without effect (`ExistLock`, `AliveNodes`, `Find`, `Count`,
`PageQuery`), encoding and decoding of requests, raw and hybrid response handlers,
wording and wrapping of errors, logging, trace IDs, values in a context (`pass`), parsing
of resource identifiers and of service names, the option setters, registration of
locators: no state, no interleaving. Redis, MongoDB and their client libraries are
modelled from how the code uses them, as single servers: failover that loses
acknowledged writes is outside the models.
