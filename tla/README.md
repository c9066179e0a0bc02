# SnakeTron: a TLA+ model of the server that keeps a match right

SnakeTron is a multiplayer snake server. Games are simulated by *executors*, one per partition
of the game-id space, spread over the server tasks of a region. Redis (Valkey) holds everything
that survives a task: leases, the assignment document, command and event streams, decision
journals, recovery checkpoints, queues and lobbies. DynamoDB holds what outlives a match:
accounts, ratings, archived games. Tasks come and go (autoscaling, deploys, crashes) while games
run. This directory models the parts of the server that have to stay correct through that: from
the queue a lobby joins, over the partition lease, the commands and the simulation of a match, to
the result that is paid and the analytics that are folded.

Paths below are relative to `src/server/src/` unless they start with another directory.

## 1. Inventory

| Component | State | Operations | Hard behaviour | What makes it correct |
|---|---|---|---|---|
| Partition lease (`partition_lease.rs`) | one Redis key per partition with a TTL: an acquisition token | `try_acquire`, `renew`, `renew_for_handoff`, `validate`, `release`, each a Lua script with a client-side timeout | a script whose caller gave up is applied later; the key expires on Redis' clock | fencing: no write of an old acquisition after a newer one wrote |
| Executor authority (`game_executor_v2.rs`) | executor phase, watchdog budget, channel of watchdog events | watchdog probe, bridge, bootstrap release, cooperative handoff with keepalive | timers race answers; three senders of scripts per token | an executor fails closed before its lease can be gone |
| Command sessions (`recovery.rs`) | per client session: contiguous watermark, bounded exact outcomes, rejection fence | `record`, `can_record`, `install_rejection_fence`, lookups | gaps, resends after pruning, full window | at-most-once execution and one answer per command with bounded memory |
| Game actor (`game_executor_v2.rs`) | engine, resolved sessions, command cursor, event sequence, unacknowledged ids | incorporate, replay a decision, activate, tick, checkpoint, snapshot, barrier | crash or handoff between any two writes; a dropped future whose script still runs | recovery rebuilds exactly what was told to clients; nothing lost; no replay loops |
| Game bus (`game_bus.rs`) | command stream, consumer group, decision hash, checkpoints, handoff watermark, event stream, completion records | fenced scripts | trim beside reads and acknowledgements | commands survive until a checkpoint covers them |
| Game engine (`common/src/game_engine.rs`, `game_state.rs`; `client/web/hooks/useGameEngine.ts`) | committed and predicted state, command queue, speculative commands, stream position | step, label, replicate, predict, retract, resync | every effect reaches a page twice, by its own step and by the event; lost and repeated messages | a page that missed nothing holds the match as the executor does |
| Assignment (`partition_assignment.rs`) | versioned document, one view per partition, local cache of the projected version | `balanced_minimal_movement`, `compare_and_set`, `reconcile`, `sync_partition_views`, `repair_partition_views` | superseded coordinators, partial projection | valid and minimal assignments; views follow committed versions only |
| Membership (`cluster_membership.rs`) | a document with TTL per boot, tombstones | `heartbeat`, `remove`, `list_live` | late heartbeats | a draining or removed task never becomes eligible again |
| Control loop (`executor_cluster.rs`) | executor state, stabilizer, coordinator token, handle map | heartbeat worker, control tick, reconcile, drain | every await may be overtaken by a drain, an expiry or another coordinator | the assignment converges on the tasks that are up |
| Lifecycle (`lifecycle.rs`) | readiness predicates, socket count | `mark_*`, `begin_draining`, notices | demotion races promotion | eligibility follows readiness |
| Completion (`completion.rs`, `game_bus.rs`, `db/dynamodb.rs`) | immutable record, pending set, done marks, replay journal; DynamoDB anchor and effect markers | materialize, commit, drain, apply effects, mark, retire | a drain by any later term, every answer lost, a commit that lands after its term | one result, each effect once, none forgotten |
| Gateway routing (`replication.rs`, `ws_server.rs`) | per subscription: cold, or live at a sequence; channels; snapshot requests | route, anchor, forward, go cold, replay outcomes, request snapshot | lag, gaps, restarted sequences, two readers of one state | a client never applies a delta to the wrong state; cold heals |
| Matchmaking (`matchmaking_manager.rs`, `matchmaking.rs`) | queue generations, indexes, user mappings, match records, GameCreated outbox | admit, cancel, reap, commit, deliver, clean | two lobbies share a user; multi-key scripts torn by a crash; lost answers | a lobby is in one match, every match is created once, what torn scripts leave behind is known |
| Lobbies (`lobby_manager.rs`) | metadata, members, membership reservations, ad breaks | join with recovery and compensation, leave, queue, begin and end a break | reservations that age out half way, finalizers that arrive late | the roster queued is the roster that agreed; every break ends |
| Hosted services (`hosted_services/`, `service-api`) | exclusion lease, supervisor, renewer | acquire by rank, renew, release, restart | failing renewals, preemption, skewed clocks | a live holder keeps its term, one that lost it stops within a bound, someone holds it at last |
| Ranking ladder (`db/dynamodb.rs`) | rating, ladder row, user-addressed pointer, effect markers | `AddMmr`, `UpdateRanking`, `get_user_ranking` with scan and backfill | two drains and a page request on one row | one row per player, every game counted once, unless a rating moves away and back under a reader |
| Accounts (`db/dynamodb.rs`) | META item, user-name row, CrazyGames identity | create, rename, upgrade, resolve, claim, AddXp | late transactions whose answer nobody awaits | one identity one user, the mirror is exact, answers stay true |
| Analytics export (`analytics/exporter*.rs`, `flusher.rs`, `batch.rs`) | stream, consumer group, batch per date, objects | flush, read, reclaim, write, acknowledge | failed writes, takeover between write and acknowledgement, trim | nothing delivered is forgotten but what is trimmed while it waits |
| Analytics fold (`analytics/committer.rs`, `resume.rs`, `iceberg_catalog.rs`) | epoch counter, table with epoch and marks, object prefixes | allocate an epoch, list, fold, commit | a paused committer wakes after its successor committed; keys arrive out of order | every object folded once while it is in the window, marks that hide only keys written late |
| Rematch, presence, wallet, seasons, skins, payments, metrics, gateways' plumbing, clients | Redis hashes, DynamoDB items | | | not modelled, see section 5 |

How they interact: the control loop of every task publishes membership and, on the task that
holds the coordinator lease, writes the assignment document and projects it into partition
views. `try_acquire` and `renew` test the partition's view, so a moved assignment is noticed by
the incumbent's watchdog, which triggers the handoff. Everything an executor writes names its
lease token. Gateways append commands to the command stream and read the event stream. A
lobby is queued under a roster fence; a match commit leaves an outbox entry whose delivery creates
the game; the game's completion is drained by whichever term holds the partition, and its
effects are DynamoDB transactions guarded by markers. Hosted services are elected by exclusion
leases; the exporter and the fold are two of them.

## 2. Modules

| Module | Models | Extends / instances |
|---|---|---|
| `PartitionTerms` | abstract promise of a fenced lease: one open term at a time, only it writes, a term that wrote and ended never returns | - |
| `PartitionLease` | the lease scripts, executors, watchdogs and time for one partition | implements `PartitionTerms` |
| `SessionOutcomes` | `SessionCommandOutcomes` as operators | - |
| `CommandSession` | one session of a live actor under every arrival order | `SessionOutcomes` |
| `CommandRecovery` | a game's commands across executor terms: stream, journal, checkpoint, watermark, actor | `SessionOutcomes` |
| `GameEngine` | one snake of a match: the executor's engine, its messages and the page that replicates and predicts it | - |
| `BalancedAssignment` | `balanced_minimal_movement` and `validate` as operators | - |
| `AssignmentHistory` | any succession of eligible sets | `BalancedAssignment` |
| `AssignmentControl` | membership, coordinator lease, document, views, control loops and drains of several tasks | `BalancedAssignment` |
| `Completion` | the result of a match and its effects across terms | - |
| `AccountIdentity` | a guest's account, its registration, its claim and its progress | - |
| `RankingLadder` | a player's ladder row, its pointer and the reads that repair it | - |
| `GatewayContinuity` | a game's owner, its log, the gateway's router and sockets | - |
| `MatchCommit` | queue generations, the match commit, the outbox and the cleanup | - |
| `LobbyMembership` | joins, leaves, reservations, ad breaks and queueing of one lobby | - |
| `ExclusionLease` | the exclusion lease and its supervisors | - |
| `AnalyticsExport` | the flusher and the elected exporter | - |
| `FencedFold` | the elected committer under epochs | - |
| `*Proofs` | theorems about the module they are named after; the lease's also about `PartitionTerms`, the recovery's also about `CommandSession` | it, `TLAPS` |
| `MC*` | the instances TLC explores | see section 3 |

Operators whose names carry a suffix (`Granted_AnyToken`, `Cached_Early`, ...) are plausible
bugs of the operator named before the underscore. No specification uses them; substituting one
must make a named property fail.

### PartitionLease

`holder`/`left` are the lease key and its remaining PX, `owner` the partition's assignment view,
`exec` the phase of each boot's executor task, `guard` its token, `ecall` and `dcall` the lease
operation that the executor and its watchdog await. `late` is the set of scripts that nobody
awaits any more: calls that timed out, were cancelled or whose process died, and fenced game
writes in flight. `RunScript` is what Redis does at one instant for any of them. `budget` is
the time to `LeaseWatchdogBudget::fail_closed_at`; it starts at the *receipt* of a response,
while `left` starts when the script ran, which is what `BudgetBacksAuthority` is about.

Assumptions: a script is applied at most once, but arbitrarily late; identical abandoned scripts
of one token collapse into one while both are in flight (a second copy meets the same token test,
and the executor may send it anew once the first has run); a response or a timer is polled at most
`MaxLag` late (the code's margin is the operation timeout, so the theorem states the guarantee for
the part of the budget above the lag); a refused keepalive ends the executor at once, because
every later write it could send would be refused by the same test.

### SessionOutcomes and CommandSession

A session is its watermark, its retained outcomes and its fence. `Decide`, `Resend`, `Fenced`,
`PrunedDuplicate` and `FenceOff` are the branches of `incorporate_v2_command`, in its order.
`executed` and `answer` are history.

### CommandRecovery

One game, one client session. A stream position is a Redis stream id. `actor.env` is what a
`RecoveryEnvelopeV2` would persist; the game state is reduced to the sequence of commands
scheduled in it, whose length is the server command counter. `actor.task` is the await the actor
is suspended in. A handoff raises `handoff`, drops suspended checkpoint and snapshot futures
(their scripts may be on their way: `late`), and goes through `Barrier` and `Release`; a bootstrap
is released without a barrier (`ReleaseBootstrap`). `Crash` covers process death, lost authority
and failed operations. Fencing is assumed here (it is what PartitionLease shows): a new term
discards what older terms have in flight.

The actor has a mailbox that holds one delivery (`actor.mail`; the dispatcher has at most one
outstanding). A delivery that was in it when the handoff was raised is still taken in, with its
decision journalled and its outcome published, before the barrier; so the actor may be one
decision ahead of a checkpoint that was on its way when it was stopped.

Left out: readiness messages, idle kicks, the "started" event of a first activation,
replay recording, rejections for games that are inactive or completed, quarantine, the
session-count limit, retention expiry, and checkpoint retries overtaking each other
(retries are sequential on one connection). Completion has a module of its own.

### GameEngine

`server` is the executor's committed `GameState`, reduced to one snake of a team match: its head,
its direction, the direction it last moved in, carried food, pellets, score, the queue of
commands and the tick. `MovementOnly` and `Full` are `tick_forward(true)` and `tick_forward(false)`,
phase by phase in the code's order; `StepEvents` are the events of a full step. `Published` labels
them as `run_until_observing_boost` does. `client` is the page's engine: `Processed` is
`process_server_event`, `Rebuilt` is `rebuild_predicted_state`, `Press` is `process_local_command`
followed by the outbox's admission or `discard_local_command`. `Lose`, `Repeat`, `Bridge` and
`Resend` are the transport. The field `after` of a message is ghost data for the properties.

Assumptions: food never appears inside the base (`sample_food_position` places it between the
bases); the fingerprint of a `TickHash` tells any two modelled states apart; one user issues all commands. Left
out: boost and with it the snakes that do not move in a quantum, bodies and collisions with
snakes, inactivity, the readiness gate, completion, and the resync that a session-wide
rejection forces.

### BalancedAssignment, AssignmentHistory, AssignmentControl

Boots are numbers ordered as boot identities are; owner maps are total with `Unowned` for a
missing entry. In `AssignmentControl` each await of a control pass is a step (`Tick`, `Coordinate`,
`Decide`, `Reconcile`, `CompareAndSet`, one `SyncViews` per partition); heartbeats are a request
(`SendHeartbeat`) and its effect (`HeartbeatDone`, `HeartbeatFails`), so they can be late.
`announced` is history: boots whose DRAINING document or tombstone Redis has stored.

Assumptions: `list_live` is read at one instant; a request still in flight when its membership
TTL passes carries an `expires_at_ms` in the past and is ineligible, so `MemberExpires` waits for
it; commands of one connection are applied in order, so a crash with a request in flight is a
slow step followed by the crash; the wait for executor handles in `drain` may end at any time
(PartitionLease models the executors themselves).

### Completion

Redis: `lease`, `active` (in `active_games`), the `record` and its publication marker `notified`,
`pending`, `done`, the replay `journal`, `matched`. DynamoDB: `anchor` and `markers`. A term has an
`actor`, which materializes and commits, and a `drain`, which applies and marks the effects in
`EffectOrder`; `flight` holds what was sent, so an answer may be lost and a request may land when
its term is over. `paid` and `published` are history.

Assumptions: one effect per kind stands for one per player; the game is recorded; journal and
recovery TTLs outlive the gaps between owners; retries of one revision collapse; requests of one
connection are applied in order; a timed-out checkpoint does not land after the completion commit.

### AccountIdentity and RankingLadder

`account` are META items, `index` the rows of the usernames table, `identity` the CrazyGames
identity item. Every process reads, then sends one transaction whose condition is evaluated when it
lands (`UpgradeHolds`, `ClaimHolds`, `EffectHolds`); an unanswered one goes to `late` and may land
at any time. In the ladder, `look` is a process's progress through pointer, scan key by key and
backfill. Assumptions: identifiers of different kinds are distinct (`AccountAssumption`); one user,
one ladder, rating steps of one. `returned` is history: an effect committed on a rating that had
moved away and back since it was read. The creation of a linked account may be unanswered, too
(`CreateUnanswered`): the retry reads the identity again. Left out: profile refresh, preferences,
the `Check` mode of `resolve_crazygames_account`, and `upsert_ranking`, which only tools and tests
call.

### GatewayContinuity

`owner` is the actor across its terms, `store` what Redis and DynamoDB keep of the game, `log` the
event stream, `router` what the gateway's partition reader has forwarded to which channel, and `sub` each
socket's subscription with what its client was sent. One game, one gateway.

A replay of outcomes (`LoadOutcomes`) reads the stored envelope, never the actor's memory; that it
nevertheless covers the frame a client holds depends on the actor's order of work: a requested snapshot
follows the checkpoint of what it shows (`Checkpoint`, `PublishRequested`), and outcomes after it are
forwarded as entries of their own. A barrier is of one of four
kinds: none, `live` (the answer to a replay of a live game), `final` (a completed game whose record
was read: the client may reject what is left in its outbox) and `open` (the record is missing,
expired, not terminal or could not be read: the outcomes are empty and the client must conclude
nothing); `ServeCompleted` has both ends. Left out: the
readiness barrier of a partition reader and a reader that crosses the trim horizon, which ends
the task. The user is assumed to be recorded in the game.

### MatchCommit

`mm` are the keys of the matchmaking slot; a script is a list of writes of which a prefix may take
effect. `torn` names the commits whose last script stopped half-way. An admission or a commit is
repeated after an error and may be given up at any point, whatever its script has done so far
(`GiveUp`, three attempts in the code); a cancellation and a reap are sent once. A cancellation may be
asked for at any time, also while a retry of an earlier admission is on its way. `told` are the
answers a generation's callers were given. Left out: which lobbies
are combined, idle-player cleanup, claim loops torn between users; the membership fence and the
ad break are LobbyMembership's. Assumptions: marker retention (30 days) outlives workers and
retries; a match outlasts the seconds in which its commit is retried; a cleanup is retried from its
pending record until it is complete.

### LobbyMembership

`meta`, `fence` (reservations) and `members` are three Redis keys that no script writes together;
`outcome` is what makes a finalizer idempotent. Left out: metadata expiry and code reuse, host
succession, the matched state, refusal of a full lobby, chat and preferences, a leave whose
reservation ages out. `get_lobby_members` leaves out users that the user cache does not return; the
cache falls back to a consistent read of the account (`db/dynamodb.rs:3428`), an error of which fails
the whole request, and no code deletes an account, so every member that has not expired is in the
snapshot. A failed cancellation of a break is ignored, as in `ws_server.rs:2462`; the reconciler
repairs it. Assumptions: a reservation (300 s) outlives a tentative member's lease and every change; only
the finalizer may arrive late.

### ExclusionLease, AnalyticsExport, FencedFold

The lease is timed in ticks of about a second (TTL 6, renewal every 2, an operation takes at most
1); `off` is how far a node's wall clock leads, `lost` how long a service has run on without its
lease. Operations end within `OpMax` and builds within `BuildMax`; a timed-out command does not run
later; only `FailurePolicy::Restart` is modelled. The export has one file per date and batch;
`lapsed` is history: the entries trimmed before they were read, or while they were pending; idle
time is untimed; the poison branch that discards is unreachable below its threshold. The fold rests
on an external assumption: the version token of S3 Tables makes the loser of a commit race fail.
Objects of a prefix are put in any order, because the exporter goes on to newer entries after a
failed write (`late` is history: those put below a key that was there already); a retention of 0 or
1 days stands for 3; there is one shared calendar day.

## 3. Runs

Several runs explore a *sum* of modules: a variable `scene`, chosen in the initial state, says
which one moves while the others stay in one of their initial states. The modules share no
variable, so each is explored exactly as it would be alone. In the same way a frozen variable
(`setting`, `bounds`, `cast`) chooses, among named records, the bounds a behaviour is under:
several small corners instead of one product that TLC could not finish.

| Run | Modules and bounds | Checks |
|---|---|---|
| `lease_fencing` | `PartitionLease`: 2 boots, 2 tokens, TTL 4, timeout 1, lag 1, 2 writes, 1 late script; `AssignmentHistory`: 5 partitions, 4 boots | `BudgetBacksAuthority`, `OneConfidentExecutor`, `TermsSpec`, `MinimalMovement` |
| `command_recovery` | `CommandRecovery`: 3 sequences, 4 entries, 1 retained outcome, ticks to 2, 2 terms; `GameEngine`: 3x2 arena, lag 1, prediction 3 ahead, five matches (ticks/presses/pellets/probes/faults 4/1/0/1/1, 4/0/1/1/1, 4/2/0/0/0, 3/2/1/0/0, 5/1/1/0/1) | `RecoveryExact`, `OutcomesStand`, `NothingLost`, `ReplayNeverBails`, `BarrierHandoffBeyond`, `ReplicaExact` |
| `recovery_progress` | `CommandSession`: 6 sequences, 2 retained outcomes; `CommandRecovery`: 2 sequences, 3 entries, 3 terms; `GatewayContinuity`: 1 socket, 2 terms with a crash, or 1 term and 3 entries | `SessionExact`, `CommandsCovered`, `ColdHeals` |
| `planned_handoff` | `CommandRecovery`: 1 sequence, 2 entries, ticks to 3, 3 terms | fails: `PlannedHandoffBeyond`, section 6 |
| `assignment_control` | 2 tasks, 2 partitions; either task 1 may drain or crash at any point and one step of its drain may fail, or any 1 request is lost while both stay up | `ViewsInOrder`, `CacheIsProof`, `NoResurrection`, `Converges` |
| `match_commit` | `MatchCommit`: one lobby with 2 generations and 2 torn scripts, or 2 games and a torn script beside an expired key, a lost answer or a plan given up; two lobbies that share a user, 3 generations, or 2 and a lost answer or a torn script | `MatchedOnce`, `AnswersAgree`, `ResidueIsKnown`, `CleanupIsExact` |
| `match_progress` | `MatchCommit`: 1 game, a torn script, and 2 failures of workers, answers or plans, or 2 lapses; `Completion`: 3 terms, 2 faults | `CommittedIsCreated`, `StaleIsReaped`; `PaidExactly`, `NoReplayOfResult`, `EventuallyPaid` |
| `player_records` | `AccountIdentity`: 2 registrations of 2 names beside a game, a registration and 2 launches beside a game, or one of each beside 2 games, 1 lost answer; `RankingLadder`: 2 games, one drained twice, with or without a legacy row, or 3 games, and a page | `AccountExact`, `AnswersTrue`, `LadderExact` |
| `ladder_stale_read` | `RankingLadder`: 3 games and a page | fails: `OneRow`, section 6 |
| `gateway` | `GatewayContinuity`: five settings (handoff with an outcome, handoff with events on either side, crash with a lapped reader, two sockets (symmetric), a socket that returns beside a rejection) | `DeltasContinue`, `SocketsSound`, `PromotedWhileLive` |
| `lobby` | `LobbyMembership`: five settings of up to three attempts, two gateways, two lost answers, one death; 1 ad break, 2 reservations | `SlotsAgree`, `RosterExact`, `BreakEnds` |
| `background_services` | `ExclusionLease`: preferred nodes, equal nodes, failing renewals, skewed clocks; `AnalyticsExport`: 3 entries, cap 2, 2 terms, 2 faults; `FencedFold`: two committers, two objects of a prefix in either order, one or two committers at the end of the window | `ExclusionSound`, `LeaderSettles`, `ExportComplete`, `FoldExact`, `FoldedAtLast` |

Why the bounds are enough to be interesting. Two boots and two tokens are an incumbent and a
successor, with a free token for one to come back under; two writes and a late one are the shortest
violation of fencing; TTL 4 with timeout 1 and lag 1 lets a renewal be answered late, fail once
and be retried inside the budget. With two retained outcomes six sequences fill the sparse
window, install and lower a fence, close the gap and prune; one retained outcome does the same
with three sequences in `CommandRecovery`, and four entries are the creation and three
commands, one of which may be a resend. Two terms are a crash and its recovery; three are needed for a
handoff whose successor is handed off itself. In the 3x2 arena a straight run ends at a wall after two steps, a
turn leads over a pellet into the base, so four ticks hold a crash, a pellet eaten and a goal; two presses
in one tick exercise the deferral. Five partitions over four boots reach every
spread of the balancing loop, including several moves in one call. Only task 1 stops, because
two stopped tasks leave nothing to observe and boots differ only in how ties are broken; a stop and
a lost request in one behaviour are beyond TLC's liveness checker, and what is safe in them is what
`AssignmentControlProofs` proves. In `match_commit` two
generations of one lobby are a cancellation and a requeue, and a user in two lobbies is the
conflict every index must agree on. Three terms of `Completion` are one that commits and dies,
one that pays some effects and dies, and one that finishes. Two registrations and a game that
finishes are the smallest race in which progress can be lost; two drains and a page are the
smallest in which a stale read can be written back; three games are the smallest in which a rating moves
away and back under a reader. A crash with a lapped reader, and a handoff with an
outcome to replay, are the two ways a subscription goes cold that differ in what heals it.
A TTL of three renewals lets one renewal fail and one succeed within a term.

Every bound is a named constant or a field of a setting, and a guard of the actions it limits. Deadlock
checking is switched off where the bounded system really ends.

### Fairness

* `CommandRecovery`: weak fairness of the tasks of a term and of takeover (`ExecutorStep`). While a
  term holds the lease its tokio tasks keep being polled, and an unowned partition is acquired by
  its assigned boot at a control tick. Clients, ticks, trims, crashes and handoffs are not fair;
  the last of `MaxTerms` terms is not ended, which is how "once crashes and handoffs cease" is said.
* `AssignmentControl`: a running task keeps heartbeating, ticking and draining (tokio intervals),
  the stabilization window of an unchanged candidate passes, and what is not refreshed expires (PX).
* `Completion`: the actor and the drain of a running term, arrival of what was sent, takeover of a
  free partition, the end of a dead term's lease.
* `GatewayContinuity`: the router and subscription tasks, the pacer's clock, an ownerless partition
  is claimed; crashes and joins are bounded.
* `MatchCommit`: outbox workers and sampling loops are spawned loops; a plan that is not given up is
  retried; cleanup is retried from its record. Giving up is not fair, and `CommittedIsCreated` says what
  holds although it may happen.
* `LobbyMembership`: spawned tasks run on, leases run out, every session reconciles a break once a second.
* `ExclusionLease`: tokio tasks run and time passes. `AnalyticsExport`: flusher and exporters run, a
  free lease is taken. `FencedFold`: committers run, a free lease is asked for, a dead node's runs out.

## 4. Theorems

Proved with TLAPS for every value of the constants that satisfies the named assumptions. All the
assumptions restate what the constructors check or what a bound is (a natural number); none
restricts the number of boots, tasks, partitions, terms, requests, faults or entries. The sockets of
a gateway are a finite set.

### The lease (`PartitionLeaseProofs`)

* `TermsAreContiguous`: the abstract terms keep each term's writes contiguous.
* `LeaseTypeCorrect`, `WatchdogFailsClosedInTime`, `AtMostOneConfidentExecutor`: invariants of `PartitionLease`.
* `LeaseImplementsTerms`: it refines `PartitionTerms` under `term <- IF left > 0 THEN holder ELSE NoToken`.
* `LeaseTermsContiguous`: the two combined.

`TypeOK` and the budget property are not inductive. `Inv` adds: which call may be awaited in which
phase (`CallsMatchPhases`); that no two executors carry one token (`GuardsDistinct`); that an
acquisition Redis has not run yet carries a token that is in no key, guard, script or write
(`AcquisitionsFresh`: otherwise a late acquisition could revive a term that wrote); that a release
nobody awaits belongs to an executor that is over (`ReleasesOver`: otherwise a late release could
delete a confirmed lease); that a confirmation is never older than the operation that brought it
(`ConfirmationsBacked`: `left + age >= TTL` for an answered call, `left + MaxLag >= budget` for an
armed watchdog); and that a live key names a token (`LeaseHasHolder`). All scripts share
`ScriptEffect`, `ScriptKeepsBacking` and `ScriptKeepsConfirmation`, all ways an executor ends share
`EndPreservesInv`. The refinement needs `Inv` only for scripts: an acquisition that Redis grants is
a `Begin` because its token is fresh.

### The assignment control plane (`AssignmentControlProofs`)

* `NeverResurrected`: a boot that announced DRAINING or was retired never becomes eligible again.
* `CacheProvesViews`: a cached version proves that every view has reached it.
* `ViewsFollowCommits`: views show committed documents only and never step back.

`ControlInvariant` is their inductive invariant. `NoResurrection` needs `Retirement`: every heartbeat
sent before an announcement finds the announcement standing. `CacheIsProof` needs `Committed` (every
document a task has loaded or is projecting was committed, and a version names one document; what
a superseded coordinator planned is not among them) and `Projecting` (a projection under way has
reached the partitions before its position). What the balancing algorithm computes plays no part.

### Commands (`CommandRecoveryProofs`)

* `SessionStaysExact`: each sequence is executed at most once and answered consistently, the
  watermark is exact, the record within its bound, for every arrival order. Inductive: the
  watermark stops at a gap (`RecordInv`), and what the record says of a sequence is what happened to
  it (`Decided`), where a sequence that is in neither can only have been answered by a fence that
  still covers it.
* `NoCommandLost`: an entry no checkpoint covers is in the stream, and pending or undelivered.
* `BarrierIsBeyond`: after a handoff through the barrier the successor starts beyond all that was visible.
* `RecoveryIsExact`: replaying the journal over the checkpoint rebuilds the commands, outcomes and
  watermark of the live actor.
* `ToldOutcomesStand`: no crash, handoff or late checkpoint takes back an outcome a client was told.
* `JournalReplays`: no replay meets a decision that does not follow from the envelope before it.
* `RecoveryTyped`: the types of stream, group, journal and actor.

`RecoveryInvariant` adds `Cursors` (checkpoint, actor and dispatcher in order), `LateInv` (a checkpoint
on its way when its actor was stopped is the last one it sent, and the actor is at most one
journalled decision ahead of it, taken from its mailbox: otherwise it could acknowledge what the
barrier's own state does not hold), `Visibility` and `BarrierInv` (what is visible is covered by the
actor, the watermark, the checkpoint, the checkpoint still on its way, or the decision above it,
`Beyond`).

`JournalInvariant` is a second invariant over the first. `Gapless`: the journal has no gap above the
checkpoint, and whoever saves an envelope acknowledges every decision in it. `Writers`: only an actor
that has been through the whole journal writes to it. `Envelopes`: each envelope is one that the
decisions can produce, and those a checkpoint may save keep all that was told; the late one does so
itself (`LateWhole`) or together with the one decision above it (`LateBehind`). `OnPath`: there is a
function `P` of the entries with `P[i]` the envelope replayed up to entry `i`, and the live actor is at
its end. Replay is a fold, and what a fold computes cannot be proved here by induction; the
invariant carries the intermediate states instead, each step extends or shortens them by one
entry, and where two paths are compared the argument takes the least entry at which they differ.

### Results and accounts (`CompletionProofs`, `AccountIdentityProofs`)

* `ResultIsFinal`: one result is announced, no term plays the match again, the effects are anchored
  to it.
* `CompletionPaidExactly`: each effect is applied at most once, and a retired completion has paid
  all.
* `AccountStaysExact`: the user-name row mirrors its account, progress is exact, an identity is one
  user.
* `AnswersStayTrue`: whoever was told that the guest became their account owns it; every launch was
  told the same user.

`CompletionInvariant`: a term sends one commit, whose revision names it (`CommitsInv`); until a
commit is accepted nothing of it exists, and afterwards the commits in flight are those of earlier
terms (`ResultInv`), which the fence refuses; an effect is done only after its marker, and a marker
was paid for once (`PaidInv`). `AccountInvariant`: an account that is no guest any more is still
what every request and every late transaction has seen of it (`Requested`); the newcomer's row is
its own from the reservation on (`Reserved`); an answer ends its request and is final (`Answered`).

### Matchmaking (`MatchCommitProofs`)

* `NobodyMatchedTwice`: no lobby or user is in two matches that are not over, and no game is created twice.
* `CleanupFreesItsOwn`: a mapping is taken from a match only after its game is over.

`MatchInvariant`: a match whose record is written and whose game is not over owns the mappings of all
its lobbies and users, and a game that plays or is about to be created has its record (`Records`); a
game without a delivery marker has no entry, or nobody is left who could deliver it (`Delivery`,
`Deliverers`). Identities, leases, claims and outcomes play no part: the mappings alone exclude
a second match, so the result holds for any number of torn scripts, lost answers and expired keys.

### The gateway (`GatewayContinuityProofs`)

* `DeltasAlwaysContinue`: a forwarded delta continues the state the client holds, for every planned
  handoff, lagging channel and reconnect, and after a crash once the client holds a live snapshot.
* `SocketsStaySound`: a barrier a client acts upon (a live or a final one) vouches only for outcomes
  that reached this socket, although only checkpointed outcomes are replayed, and no channel is dropped
  under a subscriber.
* `PromotesOnlyLive`: a socket is promoted only when live delivery was seen and it is continuous,
  as long as no out-of-band rejection was taken for live delivery (section 6).

`GatewayInvariant`: the log is one order, in which only a snapshot starts a term and outcomes are
counted one by one (`LogInv`), with the owner at its end (`OwnerInv`); the stored envelope is of the
present term and is a state the log cannot contradict (`StoreInv`: `Beyond`, what older terms
published is numbered below it unless a term crashed, and `Contains`, it holds their outcomes); at
most one channel is open, and one that ended under a subscriber was sent the terminal entry
(`RouterInv`). Per socket (`SubInv`): where it reads, what it has seen, and that the frame its
client holds is an entry of the log or such an envelope. Without `Beyond` a delta of the log could
continue an envelope by its number alone.

### Lobbies (`LobbyMembershipProofs`)

* `SlotsAlwaysAgree`: a member whose join was not accepted is fenced, and a join that was answered
  with a failure left neither a member nor an admission.
* `RostersAreExact`: a lobby is queued, or made to wait for an ad, with exactly its members.

`LobbyInvariant`: where a join stands says what it has left in the two slots (`JoinInv`: from the
reservation until it is accepted or its member removed its fence stands, and a compensation first
makes every later finalizer powerless); a leave is fenced until it has removed its member
(`LeaveInv`); a gateway whose revision is still the present one knows the members, unless a
reservation is open or a lease it saw has run out (`QueuerInv`), and both are tested by the script
that queues. The assumptions of section 2 on reservations and late finalizers are in the model.

### Only model-checked

* Liveness, whose proofs need ENABLED: `CommandsCovered`, `ColdHeals`, `Converges`, `EventuallyPaid`,
  `CommittedIsCreated`, `StaleIsReaped`, `BreakEnds`, `LeaderSettles`, `FoldedAtLast` and the
  temporal part of `ExportComplete`.
* What a recursion or a fold computes, which needs induction over data: `MinimalMovement` (the
  balancing loop), `ReplicaExact` (iterated simulation steps).
* `LadderExact`: until a rating has moved away and back under a reader; afterwards `OneRow` is false
  (section 6).
* `AnswersAgree` (until another generation of the lobby is asked for) and `ResidueIsKnown`: what the code
  guarantees beside the two comments of section 6 that it does not.
* `FoldExact`, `FoldedAtLast`: within the window, and for objects put in the order of their keys (section 6).
* `ExportComplete`: for entries that are not trimmed while they are pending (section 6).
* `ExclusionSound`: it depends on how far the clocks of the run's settings drift apart, and a general
  statement would need a bound on drift that the code does not name.

## 5. Not modelled

Rematch and presence, wallet, seasons and challenges, WebSocket and HTTP plumbing, caches and
stores, skins, textures, generation and payments, metrics and tracing, the rendering client,
bots, terminal and load test. `PROJECT.json` gives the reason for each. Most of the repository's lines are
there: image and skin processing, rendering, tables of data, the load generator, tests. The map
covers the distributed core instead of a share of those lines.

## 6. Where documents and code disagree

`planned_handoff` checks what `specs/autoscaling-resilience-prd.md:488` says of every planned
handoff: the successor "publishes a recovery snapshot strictly beyond the incumbent's visible
stream". Through the barrier that holds (`BarrierHandoffBeyond`, proved). It does not when the
assignment moves while the incumbent is still in bootstrap: `release_bootstrap_authority`
(`game_executor_v2.rs:530`) deletes the lease with no barrier and no watermark, although
`activate_all` runs inside the bootstrap and a game that activated early may already have
published its snapshot and further events. The counterexample: a first term checkpoints,
publishes its recovery snapshot at sequence 1 and is released before the rest of the partition has
activated; the second starts from that checkpoint, which was written before the snapshot, and
publishes its own recovery snapshot at sequence 1 again. Gateways re-anchor on every snapshot, so
subscribers recover; the ordering the document states is what fails.

`ladder_stale_read` checks what the comment at `db/dynamodb.rs:7194` says of the condition on the
rating: it is there to "prevent a stale ranking read from committing after another game's MMR
transaction". The condition compares the rating, not a version. With three games: the effect of the
first reads a rating m and no row; the second game moves the rating to m + 1 and writes a row there; the
third moves it back to m; the first effect's condition holds and it writes a second row, at m. The player
is on the ladder twice, and the games are split between the rows.

Other disagreements and observations met while modelling. The properties say exactly what the code
guarantees beside them, so the runs explore them too:

* Ladder: a backfilled pointer keeps `gameTypeSeason`, which the transaction's pointer drops (7993,
  7267).
* Gateway: after a crash the next term uses sequence numbers again, so a delta may follow a bridge
  anchored at the old envelope (`ws_server.rs:3972`) without showing as a gap, as the comment at
  3942 expects; a rejection forwarded to a cold socket counts as live delivery (4285, 4197).
* Matchmaking, retries: "Retrying the immutable queue identity is safe"
  (`matchmaking_manager.rs:1387`). The outcome key remembers one generation of a lobby (379-385), so
  it does not refuse a retry of a first generation after a second one was queued and cancelled: the
  first is readmitted although it was cancelled. `AnswersAgree` holds until the second is asked for.
* Matchmaking, torn commits: an uncommitted match "is treated as uncommitted unless the durable
  record is observed" (762). A commit that stops after its mappings (997) and is given up leaves
  lobby and user mappings of a match that does not exist, and nothing repairs them; one that stops
  after its record (998) and before its outbox entry (999) is answered as committed (2151) and its
  game is never created. `MappingsBacked` and `CommittedIsCreated` name these as the only cases. A
  claim may outlive its index entry: an admission torn before its metadata, a cancellation torn
  before its claims, then an admission with other members, and the reap prunes the index only
  (`ResidueIsIndexed`).
* Exclusion lease: "stop the service before the lease could expire"
  (`hosted_services/supervisor.rs:285`) is tested once a renewal round, so a service may run on past
  the expiry by up to that round; one that was preempted and whose answer saying so is lost runs
  until its own term would be over, and a round (`OverrunBounded`); the count of consecutive
  failures is reset only by a lost lease (92, 132); with a drifted clock a renewal stores an expiry
  in the past (`dynamo_kv.rs:444`).
* Export: a failed batch is not retried within the term that logs "will retry"
  (`analytics/exporter_service.rs:295`), since it reads new entries only; reclaimed entries batched
  differently get a second key (`analytics/exporter.rs:5`). Loss by trimming "must never be silent"
  (`analytics/exporter_service.rs:140`), but the test is given the first entry that was claimed,
  which still exists (142, 247): an entry trimmed while it was pending leaves the group uncounted,
  and so does one trimmed before it was read. `NothingForgotten` excepts exactly those.
* Fold: an epoch is allocated before the lease is contended for (`hosted_services/lease.rs:104`), so
  a holder may carry a lower epoch than its predecessor (`service-api/src/lib.rs:132` says
  otherwise); the fence then refuses it. Across midnight two committers may use different windows,
  and the marks one has pruned are of keys the other still lists (`analytics/resume.rs:182`). The
  two together fold an object twice, although "pruning can never cause a re-fold" (179-182): a
  committer of epoch 2 lists its keys and pauses, one of epoch 1 holds the lease and folds an
  object, the object's prefix leaves the window, the next commit prunes its mark, and the first,
  whose epoch is the higher one, folds it again. This takes a pause across the whole retention
  window; `FoldedOnce` is about objects within it. An object put below a later key of its prefix is
  taken for folded once the mark has passed it (152-159), and is never folded: a batch whose write
  failed is written by a later term of its host, after newer ones
  (`analytics/exporter_service.rs:244-301`).
* Engine: an engine built from a snapshot counts its commands from 1 again, so two commands of one
  page may carry one client id; the delivery session's own sequence keeps them apart.

## 7. Plan

Done: the lease, the commands, the engine and its replica, the assignment, completion, accounts,
the ladder, the gateway, matchmaking, lobbies, hosted services, export and fold; the theorems of
section 4. Left:

1. `ExclusionSound` as a theorem, under a stated bound on clock drift.
2. Rematch and presence, wallet, seasons and challenges (section 5).
