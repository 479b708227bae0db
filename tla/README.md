# hyperiondb (pg_replica): TLA+ models and proofs

pg_replica is a Postgres extension that adds automatic failover: a background
worker on every node runs an embedded Raft group (openraft), gossips WAL
positions, agrees on who is the primary and applies that decision to its own
Postgres through `psql`. This directory holds TLA+ modules of its core, TLC
configurations that check them on small instances, and TLAPS proofs for every
value of the constants. `PROJECT.json` lists components, runs, mutants, the
definition-to-source map, findings, hazards and theorems.

## 1. Inventory

| Part | State | Operations | Talks to |
|---|---|---|---|
| supervisor loop, `src/lib.rs` | `decided`, `promoted`, `rejoining`, `applied_*` (memory of past psql calls), `authorized_since`, `reconfirm_pending`, ages of peers | one pass per 100 ms: stall check, gossip, adopt decision, marker, (leader) propose, authorize, fence / sync / unfence, promote / repoint, rejoin | Raft node (`SharedDecision`, `propose`, gossip), Postgres by psql, scripts |
| SQL client, `src/apply.rs` | none | `run_sql` with a 10 s timeout, LSN probes, spawning | Postgres |
| deadman watchdog, `scripts/watchdog.sh` | its place in the script, its count of misses, a lock | check heartbeat, ALTER SYSTEM, reload, give up | heartbeat file, Postgres |
| rejoin script, `scripts/rejoin.sh` | the mark file | stop, pg_rewind or pg_basebackup, start as standby | Postgres, new primary, entry point |
| container entry point, `docker/entrypoint.sh` | none | seed or clone, start, monitor, end | data directory, mark file, Postgres |
| configuration, `src/config.rs` | settings, fixed at the start of Postgres | registration, checks | supervisor |
| Raft storage, `src/store.rs` | log, vote, committed, state machine in memory; two JSON files; snapshot in memory | save_vote, save_committed, append, truncate, purge, apply, build / install snapshot, open | openraft, disk, `SharedDecision` |
| Raft node, `src/raft_node.rs` | openraft instance | start, bootstrap, propose, shutdown | storage, transport |
| gossip codec and choice, `src/failover.rs` | none | encode, decode, `choose_primary` | supervisor |
| transport, `src/rpc.rs` | one connection per peer | RPC with one retry, gossip sender, server | peers |
| verification model, `packages/consensus-model` | `State`, `LState` | `Action`, `LAction` | none |

What is hard here: the supervisor acts on *memories* of past psql calls while
the watchdog, a restart or a late call change Postgres behind it; every
`apply_setting` is two calls that can fail separately and whose failure may
hide success; `ALTER SYSTEM` and reload make one shared file live, so a reload
made for one setting activates another; authority is derived from ages and
from decisions that arrive at their own pace, on every node by its own clock;
WAL positions are measured while they move; calls are dropped half way and
connections reused; scripts overlap; the Raft files are two, written
one after the other by tasks that interleave; and everything can be cut by a
crash. The correctness properties per part:

* supervisor: a node that is not authorized becomes and stays read-only; a
  writable primary has its sync quorum configured; a stalled or re-created node
  does not resume on old authority; a chosen primary becomes writable, a
  deposed one a standby;
* storage: what was acknowledged survives power loss, the two files always fit
  together, a published decision is never taken back, a committed one arrives;
* cluster: one writable node at a time, an old primary fenced before a new one
  is promoted, no acknowledged write lost by a failover, and a cluster that
  serves again after a fault;
* transport: a call returns its own answer, gossip is never taken back and the
  newest gets through;
* scripts: a deposed node comes back as a standby, and a primary never stays
  writable without anybody watching it.

## 2. Modules

| Module | Models |
|---|---|
| `Supervisor` | one node: the loop without its leader part, Postgres' configuration and role, the watchdog, the rejoin script |
| `RaftStore` | one node's Raft storage with its files, power loss, write errors |
| `Failover` | the supervisors of a cluster in time: gossip, links, the leader's part, Raft as an agreed log |
| `Authority` | what `Failover` promises, as an abstract specification |
| `Choice` | the choice of a primary by WAL position, with Postgres' WAL and its acknowledgements |
| `Transport` | `Connection.call` and the server's tasks |
| `Gossip` | broadcast, the sending task, the receiving tasks, the codec's lengths |
| `Rejoin` | rejoin.sh step by step, several at once, and entrypoint.sh |
| `Startup` | the start of the worker, its configuration checks, and the lives of watchdogs |
| `Durability` | `struct Cluster` of the consensus model: acknowledgements and failover |
| `Leadership` | `struct Leadership`: elections, stale leaders, fenced commits |
| `MC*` | instances for TLC (the cfg files give the constants) |
| `DurabilityProofs`, `LeadershipProofs`, `SupervisorProofs`, `RaftStoreProofs`, `FailoverProofs`, `ChoiceProofs` | theorems about the module of that name |
| `TransportProofs` | theorems about `Transport` and `Gossip` |
| `ScriptProofs` | theorems about `Rejoin` |

### Supervisor

A pass is the action `Loop`, which takes all decisions of the pass (lines 237
to 521 of lib.rs without 316-398) from the state it sees, followed by one
action per psql call: `todo` holds the jobs the pass still has to do, `Rank`
their order in the code, `step` the place inside a job (`ALTER SYSTEM`, then
`pg_reload_conf`, then for a promotion `pg_promote`). Everything else may
happen between two calls. A call ends `ok`, `lost` (failed without effect) or
`late` (the caller sees a failure or a timeout, the server has done it).
`conf_*` is postgresql.auto.conf, `live_*` what is in force; `applied_*` keep
their names from the code. `decided`, `NewDecided` and the other capitalised
helpers stand for the local variables as the rest of the pass sees them.

Decisions come from an environment that is free. The code tells them apart by
their value only, and two may carry one number (`src/lib.rs:377`), so a new
one may have any number, also a smaller or an equal one; the place of a
decision among those published is kept beside it as a history (`pos`,
`decided_at`, `stalled_at`), which no guard reads except to bound the number
of decisions by `MaxDecisions`. A second history, `failed`, tells whether a
psql call has failed never, in an earlier pass, or in the present one; some of
the properties end at such a failure, and say so.

Abstractions. Another node is "other". `quorum_ok` and the gossiped sequence
number are free. Ages are classes: the heartbeat is
fresh, older than the 1.5 s stall threshold, or older than the watchdog's 2 s;
`authorized_since` is fresh or has lasted `confirm_window`; a promotion is
overdue after 100 ticks. A reload is served before the next step.
`primary_conninfo` has no reader in this module. The sync quorum is "empty",
"own" (`ANY k (...)` of this node) or "foreign" (copied by rejoin from the new
primary). The rejoin script either completes or dies before it stops
Postgres; its steps are `Rejoin`'s. The watchdog is always there; its life is
`Startup`'s. Faults are enabled by name through `Faults`
and bounded in number by `MaxFaults`.

### Failover and Authority

A tick is 600 ms; the constants are the code's: quorum_lease 1.2 s (2 ticks),
confirm_window 1.5 s (3), dead_timeout 2.5 s (5), stall_threshold 1.5 s (2), the
watchdog's 2 s and its sleep (5), 20 passes until a proposal is repeated (4).
Within a tick every worker makes one pass, in node order (`turn`); any node may
be the primary or the Raft leader at the start, so the order costs no
generality that the properties tell apart. `Pass(n, c)` is the whole loop body:
gossip is read and ages are counted from the reading (`Ages`), decisions are
adopted, the leader's part proposes `c` or nothing (`Choices`), authority is
derived (`QuorumOk`, `RawAuth`, `Authorized`) and applied to Postgres at once.
psql calls cannot fail here; that is Supervisor's subject. `choose_primary` may
return any live node; that is Choice's.

Raft is external: one log of decisions, a leader of the highest term, other
nodes that still believe they lead, proposals that wait in the leader's log and
may commit long after `propose` has given up, a new leader that serves only
after an entry of its own term, and followers that hear of commitments as
their leader reaches them. An election may take any number of ticks: openraft's
timeouts are 1 to 2 s (`src/raft_node.rs:59`), drawn again after every split
vote, and `Tick` waits for none of them. What `Tick` does wait for is a message
on its way: a leader with a quorum commits what it has, the first entry of its
own term included, before the tick is over (600 ms for a round trip and a disk
write). That is an assumption on the network. Without it a leader that is
elected but has committed nothing for longer than `Retry` would propose one
candidate after another, and OneWritable fails. `Starts` gives the primary and
the leader a behaviour begins with, and whether the first decision is made.

`Authority` is the promise: one history, views that follow it in order, and the
right to write with at most one node, taken only when nobody has it by a node
the last decision it knows of names. `Failover!HoldsAuthority` is the
refinement, with `applied` for `view` and the writable nodes for `writers`.
The history variable `covered`, which no guard reads, is true until a single
link is cut or a node restarts. The two are within the model, the liveness
properties hold with them, and OneWritable, FencedBeforePromotion and the
mapping of `writers` stop claiming anything after them (section 5).

### Choice

WAL is a sequence of records, each named by the timeline it was written on; a
node's position is its length. A standby streams only from a primary whose WAL
extends its own. A commit waits until `ANY k` standbys confirm it, also on a
primary that has been fenced meanwhile. The leader's probes run one by one and
records are written, streamed and acknowledged between them. Timelines of two
promotions are told apart here, although Postgres would give two nodes promoted
from the same timeline the same number. A primary that comes back is fenced at
once, because how long that takes is Failover's subject. A decided primary is
unfenced only when no probes are under way: a probe ends after 1.2 s,
confirm_window is 1.5 s. The role used to break ties is the node's own; the
code uses the role it gossiped, at most 0.5 s older. Two histories are kept for
AckedKept: with every acknowledged record whether it came in time (`InTime`:
before a leader began to look for another primary), and `blind`, whether a
decision was taken on a fallback value.

### Transport and Gossip

A request is a number, an answer is the number of its request. A call takes the
stream out of `self`, so that a call dropped by openraft, a deadline or an error
loses it. The peer's task of a lost connection still executes what had arrived.
In Gossip a frame carries its sender, its length (what `decode_gossip` looks at)
and a sequence number, which stands for the decision it tells of and for the
state (position, role, request) it was sent with: `known` is the maximum of the
former, as in the code, and `view` whatever frame was read last. A connection
given up after GOSSIP_SEND_TIMEOUT may deliver later what was written to it.
Senders outside `Voters` put frames into the queue of the server directly
(`Intrude`).

### Rejoin and Startup

Rejoin follows one container: Postgres (up, down, or running without its
files), what the data directory holds, the mark, one place per script, and the
monitor, whose two looks (Postgres, then the mark) are steps of their own
before it sleeps and again after it. `pg_ctl stop` may fail and the script goes
on, as its `|| true` has it: pg_rewind then refuses, and the fallback removes
the files of a server that is up. pg_rewind and pg_basebackup may fail or be
cut. Histories tell whether scripts have overlapped, whether a stop has failed
(`unstopped`), whether the container ended in the middle of a script, and
whether files were changed under a running server. Startup follows one primary:
settings are records with entries that parse or do not; the worker goes through
the checks of lib.rs:97-147, spawns a watchdog, starts Raft, or returns (the
port is taken), or panics (the store cannot be opened); every `Every` passes it
spawns another watchdog, which ends at once if the lock is held. A worker that
returns is not started again: Postgres restarts only workers that fail, and one
that panics is.

### RaftStore

Each operation changes memory and then goes through `atomic_write`: the rename
(`file`, what a reader sees) and the directory fsync (`disk`, what power loss
is sure to leave; one fsync of the directory makes both files' renames
durable). `Crash(l, s)` picks for each file either version. openraft is
external and modelled by how it calls the store: log operations one at a time;
apply and install_snapshot one at a time; the builder concurrently with both,
also between the moment apply lets go of its lock and the one its state is on
disk (`src/store.rs:262`); `save_committed` returns before the entries are
applied; truncation only of entries that are not committed; purge up to the
last snapshot (`max_in_snapshot_log_to_keep = 0`), after `install_snapshot` has
returned or a build has finished; at start, committed entries are applied
again, a log that ends before the state machine is purged, and the snapshot is
built again. An error from the store stops openraft (`phase = "failed"`) until
the node is restarted. Log ids are indices, entries are payload kinds (the
constant `Payload`), a decision is named by the index of its entry; the counter
in a snapshot's id is left out. `chosen` is what the cluster committed; `acked`
and `voted` record what this node has promised. The history `ahead` is "now"
from a builder's read of a state that is not on disk until that state is, and
"lost" if power goes in between.

### Durability and Leadership

These translate the repository's two stateright models, action by action. The
code's bit masks over nodes are sets; `primary`, an Option that is never
cleared, is a node.

## 3. Runs

| Run | Distinct states | Shows |
|---|---|---|
| `durability` | 162 thousand | N = 5, quorum 3: no acknowledged write is lost |
| `leadership` | 6 thousand | N = 3, terms to 5: no split brain with fencing |
| `supervisor` | 2.65 million | the safety of one node under up to two faults of any kind, lost and late psql calls included |
| `supervisor_live` | 92 thousand | one fault of any kind: a kept primary becomes writable, a deposed one a standby, one without quorum read-only; and the watchdog alone fences a hung primary |
| `raft_store` | 665 thousand | power loss or a write error at any step, and a builder that may read at any time: what was acknowledged survives up to such a read, and a committed decision reaches the supervisor |
| `failover` | 137 thousand | elections of any length, and one fault among isolation, crash, restart, hung worker, needless election and cut link, in an established or a new cluster: one writable node, the refinement of `Authority`, old primary fenced first, a connected majority serves, a whole cluster comes to rest |
| `choice` | 133 thousand | a primary or a standby that goes down and may come back, or a primary cut off from gossip only, with probes that may fail: no write acknowledged in time is lost |
| `transport` | 201 thousand | five calls, connections that break at any point |
| `gossip` | 53 thousand | lost, late and coalesced frames, and frames of a stranger |
| `rejoin` | 44 thousand | two scripts, stops and copies that fail, Postgres dying, the container killed |
| `startup` | 62 thousand | configurations, worker and watchdog lives |
| `link_cut` | | the counterexample of section 5 |

In `supervisor_live` the specification assumes the watchdog only, so that
HungIsFenced has a worker that may hang for ever; the other three properties
have the rest of the fairness as a premise.

Bounds. Three decisions let a node be chosen, deposed and chosen again, with
numbers that go up, repeat or fall; two faults let a restart or a stall meet a
failed call, or two calls fail in one pass or in two. Two log entries with
batches of two let a snapshot, a purge, a conflict and a re-application overlap
(three entries with one power loss were also explored, ten million states, with
the same result). Five nodes are the largest instance of the repository's own
tests; three nodes and five terms let two stale leaders come back.

In `raft_store` one fault hits any step, and a node stopped by
a write error is restarted besides. Its entries are decisions and memberships;
a blank one does less than either.

Failover: three nodes are the smallest cluster with a majority, and a fault of
each kind reaches every phase of a failover, since it may happen between any
two passes; four decisions leave room for the first, a failover, a
reconfirmation and a duplicate. An established cluster starts with any primary
and any leader, a new one is seeded with node 1 and led by node 2. Choice: with
two records per node a survivor can be behind by one and by two, and one fault
makes one choice. Transport: with five calls a connection can be reused, lost
and replaced while two earlier ones still have requests under way; the proofs
cover every number. Gossip: queues of two let frames be coalesced and
overtaken. Rejoin: with two faults a stop can fail and the container or
Postgres end under the script that goes on. Startup: two misses instead of 20
and a spawn every second pass instead of every fiftieth keep their order free.

Deadlock is checked in `leadership` and the supervisor runs. In `durability`
every node may have crashed, and the storage has stopped after a write error,
so those runs switch it off. So do Choice (decisions, WAL and faults are
bounded), Rejoin (a standby is at its end) and Startup (an idle worker is).

Fairness. In `FairSpec` of Supervisor: the latch wakes the worker every 100 ms,
psql calls are killed after 10 s, clocks advance, Postgres ends a recovery it
was told to end, and scripts are ordinary processes; hence weak fairness of the
pass, its calls, the two timers, `EndRecovery`, the rejoin script and the
watchdog. Nothing is assumed of the cluster: the liveness properties have what
they need of it as a premise that holds for ever from some point.
`WatchdogSpec` assumes only the watchdog. In Failover: workers, time, Raft's
commits and the watchdog make progress (weak fairness), a rejoin that is
possible again and again succeeds (strong: the script is retried by a restart),
so does an election (strong: the timeouts are drawn at random, and no bound is
put on how long it takes), and in `AwakeSpec` a hung worker wakes up, because
what hangs it are psql calls with a timeout. In Gossip, tasks run and a
connection that is up again and again delivers; ViewSettles and NewestArrives
have a network that stays up as their premise. In Rejoin, a copy that is tried
for ever succeeds some time. In Startup, processes run and Postgres answers
again in the end. In RaftStore, disk writes end and openraft's tasks are
scheduled; nothing makes the cluster commit.

EventuallyWritable speaks of a node that gets an answer to its request for a
new decision after a stall (the code waits for one) and whose memory
`applied_read_only` is not left wrong by the watchdog or a failed call;
EventuallyFenced of one whose memory is not left at "on" by a failed call; and
EventuallyRejoined of one whose script has not died under the present decision
(section 6).

## 4. Proofs

TLAPS proves, for every value of the constants that meets the modules'
assumptions:

* `DurabilityProofs`: `TypeCorrect`, and `AckedNeverLost` under
  `AckQuorum >= Majority`. NoAckedLoss is not inductive: a failover needs to
  know that the electing majority meets the copies. `MajorityHolds` (a majority
  of all nodes, dead ones included, holds every acknowledged write) is the
  strengthening; the intersection of two majorities is a lemma over
  FiniteSetTheorems.
* `LeadershipProofs`: `TypeCorrect`; `OneLeaderPerTerm`, with or without
  fencing; and `FencedNeverSplits` under `Fencing = TRUE`. The strengthening is
  `CommittedTermHeld` with `OneWritablePerTerm`: a majority is at or above the
  committed term, and only the committed leader can be writable at it.
* `SupervisorProofs`: all of it for every set of faults, every number of them
  and of decisions, with no hypothesis. `TypeCorrect`; `StalledStaysFenced`,
  from `StallInv` (adopted decisions only get later, and `reconfirm_pending`
  stays up from a stall until one is adopted), stated with the histories `pos`,
  `decided_at` and `stalled_at`; and `FencingInvariant`, from it
  `UnauthorizedIsFenced`, `SyncComesFirst` and `PromotedIsFenced`. The
  invariant `FencingInv` says that each memory of the worker is true of the
  file and of the server, or the call that makes it true is still queued in
  this pass; without that, skipping a call because of a memory proves nothing.
  What it says of the sync quorum survives failed calls: the memory
  `applied_sync` is set only by calls that have succeeded, and the one pass in
  which a call fails is exempt. What it says of the fence ends with the first
  failed call (`failed`), as section 6 shows it must. `MarkedStaysFenced` comes
  from `MarkInv`: the remembered marker is the file's from the first pass on.
* `TransportProofs`: `TransportTypeOK`, `TransportAnswersMatch` and
  `TransportStreamIsClean` for every number of calls. AnswersMatch is not
  inductive: that the answer read is the call's own needs to know what can be
  under way on the connection in use. The invariant `Inv` says that a call
  opens at most one connection, that unopened ones are silent, that the kept
  stream is silent, and that the one in use is silent or carries the current
  request in exactly one of three places. `TransportAtMostTwice` adds `Budget`:
  executions, requests still waiting on any connection and sends the call may
  still make are two at most. Gossip, the other protocol of rpc.rs, is proved
  about in the same module: `GossipTypes`, for payload lengths that are numbers,
  says also that no frame of a stranger gets into the worker's queue.
* `RaftStoreProofs`: `StoreTypes` and `StorePublishes` for every number of
  entries, votes and faults, from `Formed`: memory, the named file and what
  power loss leaves of it are well formed; each of the three state machines is
  the exact outcome of a prefix of what the cluster has chosen, the durable one
  the oldest; and they are equal unless `atomic_write` is under way or failed.
  `StoreSurvives` and `StoreFits`, of the same constants and no others, come
  from `Safe`: every generation of the log covers, together with the state
  machine on disk, all that was promised; nothing is purged, and no snapshot
  built, beyond that state machine. A builder may read at any time; while what
  it has read is not on disk (`ahead = "now"`) `Safe` says the same of the
  state machine in memory instead, which is what makes the two properties true
  again when `persist` succeeds. They are lost only by a power loss before that.
* `FailoverProofs`: `FailoverFollows` (`FollowInv`: what nodes see, have
  adopted and have applied are places in one history of decisions, for every
  timing and every fault), `FailoverWriterIsNamed` (a node becomes writable
  only if the decision it has applied names it) and `FailoverImplements`:
  wherever OneWritable holds, each step is a step of Authority or none.
  These three hold for every timing and every fault; `AuthorityOneWriter` says
  what Authority promises.

  The timing is the second part: `FailoverTimed`, `FailoverOneWritable`,
  `FailoverFencedBeforePromotion` and `FailoverHoldsAuthority`, for every number
  of nodes and elections of any length, under the hypothesis `Timely`. They are
  not true of all constants, and `Timely` says of which: an established cluster
  (every start has its first decision), at most one fault, and

  | `Timely` | in ticks of the code | why |
  |---|---|---|
  | `Lease + 2 <= Dead` | 2 + 2 <= 5 | a primary that is cut off fences itself before its peers give it up |
  | `Stall < Dead` | 2 < 5 | a worker that was given up because it hung knows that it stalled when it wakes up |
  | `Stall < WdStale` | 2 < 5 | the count of `last_loop` goes beyond stall_threshold |
  | `WdStale < Dead + Confirm` | 5 < 5 + 3 | the watchdog has fenced a hung primary before its successor's window is over |
  | `Retry >= 2` | 4 >= 2 | a leader that has proposed waits for at least one more tick before it proposes again |

  For three nodes and the run's other constants TLC refutes
  FencedBeforePromotion with `Lease = 4` and with `MaxFaults = 2`, and
  OneWritable with `WdStale = 9` (not with 8). It finds no counterexample with
  `Stall` or `Retry` outside their bounds: those are what the proof uses.

  OneWritable says nothing of ages and is far from inductive. `TimedInv` is:
  `Aged` (ages within their caps, every node goes by the decision it has
  applied, a worker that remembers a fence has one), and, as long as the faults
  are covered, one of five situations of the primary `s`. *Steady*: at most one
  node `x` is down or cut off, or was. The others make their passes in time and
  hear each other, however long they are without a leader. If `x` is `s`, what
  `s` has last heard is as old as what they have heard of it, and it is fenced
  before they give it up (`Missing`). If `x` is a leader that is cut off, it
  loses contact with all its peers at about the same time and soon counts too
  few of them to propose (`Spread`); what it proposed before that waits
  (`Waiting`, `Lost`). *Hanging*: the worker of `x` hangs, and its peers hear
  of `s` as long as `s` makes passes. *GivenUp*: the leader, with a majority,
  has proposed `c` for `s`; decisions name `s` and then `c` (`Succession`), and
  `s` is down, a standby, fenced until it hears of `c` (`Yields`), or hangs for
  so long that `c`, which counts its window from its promotion, cannot open
  before the watchdog was due (`Overdue`, `Waits`). *Doubted* and *Told* are
  about a leader `x` that was cut off, is back, and nobody was elected in
  between: it may judge `s` by contacts from before, and give up a primary that
  never noticed anything. In both all nodes follow `x` and pass in time
  (`Peace`), so every pass adopts the last decision there is. *Doubted* lasts
  until the next pass of `x`: at most one decision follows the first, and
  nobody but `s` may write. In *Told* `x` hears everybody again and proposes at
  most what takes `s` back; only the node the last decision names can be
  writable, since the others adopt that decision, and are fenced by it, before
  the window that begins with its promotion is over. There is one lemma per
  situation and kind of step; `SteadyStep`, `HangingStep`, `GivenUpStep`,
  `DoubtedStep` and `ToldStep` put them together. TLC checked `TimedInv` before
  it was proved, for three nodes. What `Timely` leaves out stays with the
  runs: a cluster without its first decision (`failover` begins there too).
* `ChoiceProofs`: `ChoiceKeepsAcked`, AckedKept for every number of nodes,
  records and decisions under `MaxFaults <= 1`; with two outages it is false
  (section 6). `ChoiceInv` has two halves. Before the decision there is one
  timeline, an acknowledged record is on a standby, and once the primary is out
  every standby is up, reports all it has, and answers no less than an
  acknowledged record it holds; so the maximum that `choose_primary` takes
  (`ChooseMost`) is at or beyond the record. After it the decided node is
  neither down nor fenced and its WAL only grows.
* `ScriptProofs`: `RejoinAtRest`, `RejoinMark` and `RejoinUndisturbed` for any
  number of scripts at once, from `RejoinInv` (scripts that do not overlap are
  one at most, which has the mark and, if its stop has succeeded, a stopped
  Postgres between its stop and its start).

Only model-checked: the liveness properties (fairness and ENABLED are out of
the prover's reach: EventuallyWritable, EventuallyFenced, EventuallyRejoined,
HungIsFenced, DecisionsReachSupervisor, KeepsServing, ComesToRest,
NewestArrives, ViewSettles, ComesBack, WatchedAgain, SilentIsFenced), and
OneWritable, FencedBeforePromotion and HoldsAuthority from the start of a new
cluster.

## 5. Finding

`link_cut`: one cut link, between the primary and the Raft leader, leaves two
writable nodes (`src/lib.rs:408`), against "Never two writable primaries"
(ARCHITECTURE.md:121). The leader stops hearing the primary and decides for
another node, while the primary still hears the third one: its `quorum_ok`
stays true and the new decision does not reach it.

## 6. Where the properties end

Each of these is a behaviour of the model, found by TLC with the constants
named, or by dropping the condition named from a property. They are the
conditions under which the runs and the proofs hold.

Supervisor (`Watchdog = FALSE`, `MaxDecisions = 2`, one fault unless more are
named; the properties of the runs stand here without the exemption named):

* without any fault, "a primary under a decision is writable only with its sync
  quorum in force" is refuted: a node that is writable by the bootstrap rule
  adopts its first decision and stays writable until `set_sync` is done. The
  comment at `src/lib.rs:519-521` ("never a window") is about the order of the
  calls; UnfenceAfterSync says what that order gives, for a node that is
  read-only before;
* `Faults = {"lost"}`, UnfenceAfterSync without `failed = "now"`: unfence does
  not depend on the sync quorum having been set in the same pass
  (`src/lib.rs:555`), against the same comment;
* `Faults = {"lost"}` or `{"late"}`, FencedAfterPass without
  `failed = "never"`: one failed call leaves the node writable until the next
  pass tries again (`src/lib.rs:522`);
* `Faults = {"lost"}`, FencedUntilAuthorized without `failed' = "never"`: the
  promotion ignores a failed fence (`src/lib.rs:435`), against "fenced until
  authorized" (432);
* `Faults = {"late"}`, or two `"lost"` calls, EventuallyFenced without its last
  premise: an unfence that took effect but timed out is remembered as not done
  (`applied_read_only` stays "on"), and the node is then not fenced when it
  loses its quorum (`src/lib.rs:522`), against README.md:45;
* `Faults = {"lost"}`, or a watchdog that writes after the worker's unfence
  (`Watchdog = TRUE`, `{"hang"}`), EventuallyWritable without its last premise:
  the node stays read-only while the worker remembers the opposite. No document
  excludes it;
* `Faults = {"rejoin"}`, EventuallyRejoined without its last premise: a script
  that dies is not started again under the same decision (`src/lib.rs:601`);
* `Faults = {"lost", "raft_dir", "crash"}`, two faults, MarkedNeverBootstraps
  without `failed = "never"`: until the first `SHOW data_directory` succeeds the
  marker is taken as absent.

RaftStore, AcknowledgedSurvives and FilesFit without `ahead`
(`Faults = {"crash"}`, one fault): a snapshot may copy state machine memory that
is not on disk, and the log is purged up to it (`src/store.rs:194`, `262`), so
that a power loss leaves files that do not fit, against README.md:49. It rests
on openraft running the builder in a task of its own, which the
`get_snapshot_builder` interface is for. A builder that read before
`install_snapshot` can also store its older copy after it.

Failover (`Spec`, the constants of the `failover` run, one fault):

* `Faults = {"restart"}`, OneWritable without `covered`: a primary that crashed
  while writable accepts writes from its restart to its first pass
  (`src/lib.rs:522`), against ARCHITECTURE.md:121.
* `Faults = {"isolate"}`, FencedBeforePromotion without `Serves(m)`: a healed
  leader judges by ages from its isolation and gives up a primary that is in
  touch with everybody and writable (`src/lib.rs:318`), against
  ARCHITECTURE.md:92-94. The promoted node is fenced for its window, and the old
  one adopts the decision before that is over, so OneWritable stands.
* `MaxFaults = 2`, FencedBeforePromotion: the primary and the leader fail one
  after the other. OneWritable was searched for 15 minutes with two faults of
  all kinds, without a result, and exhaustively with `{"hang", "depose"}`, where
  it holds.
* `Faults = {"isolate"}`: two decisions with one seq and different primaries
  (`src/raft_node.rs:136`, `src/lib.rs:377`). A proposal that was given up
  commits after the link is back, and so does the one made in its place. The
  "monotonic fencing token" of ARCHITECTURE.md:94 is then told apart only by the
  order in which it was adopted.
* A hung worker's Raft node keeps leading (`src/raft_node.rs:36`), against
  ARCHITECTURE.md:126; AwakeSpec assumes that it wakes up.

Choice:

* without `InTime`: a commit waiting on a fenced primary is acknowledged after
  the probes and lost (`src/lib.rs:522`), against README.md:48;
* without `blind`: a failed probe makes a less advanced survivor win
  (`src/lib.rs:355`), against ARCHITECTURE.md:122;
* two outages: a returned old primary is chosen for WAL of its old timeline
  (`src/apply.rs:138`), against DURABILITY.md:65-67, or a restarted standby
  answers a probe with 0 (`src/apply.rs:119`), against README.md:48.

Rejoin:

* `Faults = {"stop"}`, FilesAtRest without `unstopped`: when `pg_ctl stop` fails
  the script goes on (`scripts/rejoin.sh:25`), pg_rewind refuses a running
  server, and the fallback removes and replaces the files under it
  (`scripts/rejoin.sh:39`);
* without `overlapped`: the first of two scripts removes the mark and the
  container ends under the second (`scripts/rejoin.sh:18`), against
  entrypoint.sh:169. It needs a second decision before the first script has
  stopped Postgres;
* without `cut_short`: after a kill in the middle of a rejoin the mark keeps
  the monitor waiting for ever (`docker/entrypoint.sh:165`), against 169;
* a node "left stopped for manual recovery" (rejoin.sh:43) is started again,
  node 1 as a new cluster (`docker/entrypoint.sh:77`).

Startup, SilentIsFenced without its premise: worker and Postgres hang for 10 s,
the watchdog gives up, and Postgres comes back alone (`scripts/watchdog.sh:29`),
against README.md:46; or Postgres restarts while the old watchdog, about to
give up, still holds the lock the new one wants, and the worker does not last
until it spawns another.

## 7. Not modelled

openraft's own protocol (elections and commitment are external actions in
Failover, its calls to the store in RaftStore). The status file and
`pg_replica.status()`, reading of single settings, the hold mode and faketime of
the entry point, packaging, CI and the test clients: input/output without
protocol state. Contents of the data directory and of connection strings, the
saved postgresql.conf, and the 4 MB limit of a frame. Several psql outcomes and
several nodes at once: Supervisor has the former, Failover the latter.

## 8. Plan

1. Done: all modules of section 2, their runs and the proofs above.
2. Left: the proofs about the timing for a cluster that has not made its first
   decision, where the primary writes without one and `Aged` does not hold yet;
   and OneWritable under two faults, which neither TLC nor the proof settles.
