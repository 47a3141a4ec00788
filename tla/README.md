# cargoless, specified

cargoless keeps a Rust trunk green: a daemon checks worktrees with a shared analyzer, a
build lane merges, builds and lands candidate branches, and an app server keeps the last
green build of each ref running behind a proxy. This directory specifies the parts of it
that decide something over time, model-checks them with TLC and proves the most important
invariants with TLAPS.

The sections give the inventory of the program, the modules and how they correspond to the
code, what every run shows, what is proved, what the code does otherwise than its own
documentation says, and what is not modelled.

Paths: `core/` is `src/crates/cargoless-core/src/`, `bin/` is `src/crates/cargoless/src/`.

## 1. The system

### Inventory

| component | state | operations | what is hard about it | what makes it correct |
|---|---|---|---|---|
| **Lane policy** `core/lane.rs` | queue, roster in flight, ejections, infrastructure streak and backoff, capture window, generation, clock | the events `Enqueue`, `HeadMoved`, `Withdraw`, `ForceReadmit`, `LandFailed`, `BuildFinished`, `Tick`; the decision to start a build | one handler moves members between three places; late completions; a clock that only the host supplies | a member is in one place; a running build is never preempted; what is withdrawn stays out; nothing is held for ever |
| **Lane driver** `core/lanedrv.rs`, `core/lanetree.rs` | the pump's event list, its step budget; candidate worktree; trail | `pump_observed`, `execute` (materialize, legs, land), three landers | actions of a step run before the events they produce; builds and lands block; a lander times out after it landed | what ships is what compiled; each green build lands once; no completion is dropped |
| **Lane host** `core/lanehost.rs` | channel, accepted set, withdrawal tombstones, published snapshot and activity | `enqueue`, `withdraw`, `readmit`, `tick`, `snapshot`; the worker | request threads, worker and ticker interleave over four locks | an acknowledged member is never lost; a reader sees its own withdrawal |
| **App instances** `core/appstate.rs` | per instance: serving child, pipeline, pending, last red and green, draining, streaks; queue, build slots, generation counter | `HeadAdvanced`, `BuildFinished`, `ProbeSucceeded`, `ProbeFailed`, `ServingExited`, `DrainComplete`, `RecoverFromPointer`; add, remove | threads are never joined: late results; instances share slots; retries of three kinds | only a proven build serves; the newest head is judged; slots are used; builds converge |
| **App driver** `core/appdrv.rs`, `core/appbuild.rs` | tracked children, port allocator, bundles on disk | order execution, spawn, promote, drain, kill, prune | order by order with a crash between any two; ports and bundles outlive their owners | driver and policy agree on children; ports are neither lost nor shared; no bundle in use is pruned |
| **App daemon** `bin/appserve.rs`, `core/appstatefile.rs`, `core/previewreg.rs` | event channel, pollers, stop threads, preview registry, state file | event loop, boot recovery, previews with a TTL, SIGHUP reload | five kinds of threads, one channel; restart at any point | recovery finds its bundle; the daemon comes to rest |
| App read plane, manifest, proxy `core/appsvc.rs`, `appmanifest.rs`, `appinstances.rs`, `l4proxy.rs` | reports, parsed files, one upstream slot | rendering, parsing, byte copying | the slot is swapped under open connections | the slot names the serving child (checked in `ChildrenMatch`) |
| **Serve loop** `bin/servedrv.rs` | per cluster: client, fence generation, deferred worktrees, readiness; wake-up keys; drain flag | take pushes, switch the overlay, pull diagnostics, settle, index verdicts, deactivate, exit drained | HTTP threads, pull threads, supervisor and loop meet in three channels; a write may fail after the transaction was armed | a green is of the pushed text; each push is answered once; none vanishes |
| **Cluster driver** `core/clusterdrv.rs`, `barrier.rs`, `multiplex.rs`, `overlay.rs` | transaction in flight, FIFO of worktrees, recheck flag, applied overlay | `RoutedBatch`, `Lsp`, `Deactivated`, `take_followup`, `reset_after_respawn` | one analyzer shared by all worktrees; stale ends of flychecks and pulls; respawn in the middle of a transaction | a verdict is of the overlay it names |
| **Serve API** `bin/serveapi.rs` | pushed overlays and wake-ups per worktree, active set, attributions, witness claims and slots; attempts and their outcomes; batch queues | push (plain, gate, v3), attribution, gate dispatch, witness with watchdog, publish, drain; reserve, accept, roll back; batch submit | condition variables, locks taken one after the other, a watchdog beside its worker, duplicates of one request | one answer per push; limits hold; an attempt is executed once; every waiter is answered with its own members |
| **Batch and corun policy** `core/batch.rs`, `corun.rs` | none beyond one run | `run_batch`: combined run, fallback to solo runs, blame | who is told what when a union is red, conflicts or is truncated | nobody is green on a union that was not checked |
| **Evidence store** `core/evidence.rs` | admissions and bundles on disk, outcomes in memory | reserve, accept, rollback, persist, prune, recover | a crash between any two file operations; retries that reach another process | an acknowledged attempt is known after a restart, and concluded once |
| **Watch session** `core/model.rs` | files and texts as last read, tree verdict, file system thread | forward an edit, re-open the files, apply events, resume, shut down | a restart swaps the client under the thread that writes to it | at rest the verdict is that of the disk |
| **Analyzer supervisor** `core/analyzer.rs`, `lsp.rs` | stored child, restart count and backoff, suspended flag | monitor, spawn hook, suspend and resume, memory cap, shutdown | eviction, resume and shutdown meet a monitor that polls, parks, backs off or is in a handshake | one analyzer at a time, none left behind |
| **Activity and idling** `core/cluster.rs`, `clustermgr.rs`, `activity.rs`, `activitymgr.rs`, `idle.rs` | members per configuration hash, last activity per worktree | activate, deactivate, sweep | the last member leaves while a pull runs | spawned on 0→1, torn down on 1→0 |
| Recovery `core/recovery.rs` | replay of documents | begin, replay, complete | a second respawn during a replay | no production path drives it |
| Watching and topology `core/watcher.rs`, `repo.rs`, `repo/`, `structural.rs` | debounced batches, worktrees, crate graph | file events, rescan | lost and merged notifications | no change goes unseen |
| Project checks and clients `core/project_checks.rs`, `bin/checks.rs`, `check.rs`, `push.rs`, `verdict.rs` | plan of legs, results | run, cache, report | a mostly sequential run | none needs a state machine of its own |
| Content store and publishing `cargoless-cas`, `core/build.rs` | blobs, trees, latest-green pointer | put, link, publish | a crash between any two writes | the pointer names a complete tree |
| Transport, configuration, protocol `core/transport/`, `config.rs`, `yamlscan.rs`, `cargoless-proto` | sockets, parsed values | read, write, parse | formats | not a question for a model checker |

### How the parts interact

There are four programs in one. The **serve daemon** answers pushes: an HTTP thread stores an
overlay and wakes the serve loop, the loop switches the shared analyzer to it and publishes a
verdict; a gate push goes to a compile witness instead; a v3 push is admitted by the evidence
store first; a batch goes through the coalescer to the project checks. The **watch session**
has the same analyzer under the same supervisor, fed by the file system. The **lane host** is
called by the Serve API's request threads (`lane_enqueue`, `lane_withdraw`, `lane_readmit`); its
worker owns policy and driver; the driver calls the candidate tree, the legs and a lander, all of
which block it. **App-serve** is a process of its own: its control thread owns policy and
driver, everything else posts to one channel. What the lane lands, app-serve sees as a ref that moved.

## 2. The modules

| module | what it is | source |
|---|---|---|
| `Lane` | the lane's state and every handler, as operators from states to states | `core/lane.rs` |
| `LaneMachine` | the lane under any well-behaved driver; its safety properties | `LaneState::step`, `LaneEvent` |
| `LaneHost` | request threads, channel, worker, pump, actions, ticker, readers; refines `LaneMachine` | `core/lanehost.rs`, `core/lanedrv.rs`, `core/lanetree.rs` |
| `App` | app-serve's policy, as operators from states to states | `core/appstate.rs` |
| `AppMachine` | the policy under any driver that reports each ordered attempt once | `AppState::step`, `Event` |
| `AppServe` | the daemon: control thread, orders, ports, bundles, threads, channel, restarts | `bin/appserve.rs`, `core/appdrv.rs`, `core/appbuild.rs` |
| `Serve` | a push through the serve daemon: HTTP threads, loop, cluster driver, analyzer, pulls, gate dispatcher, witnesses, drain | `bin/servedrv.rs`, `bin/serveapi.rs`, `core/clusterdrv.rs`, `multiplex.rs`, `barrier.rs` |
| `Attempts` | the ledger of v3 attempts, with crashes and failing file operations | `bin/serveapi.rs`, `core/evidence.rs` |
| `Batch` | attribution of one physical check run to its members; no variables | `core/batch.rs`, `bin/serveapi.rs` |
| `Coalescer` | threads that share check runs under a global limit; uses `Batch` | `bin/serveapi.rs` |
| `Session` | a watch session and its analyzer's supervisor | `core/model.rs`, `core/analyzer.rs`, `core/lsp.rs` |
| `MC…` | the small instances TLC checks | |
| `…_proofs` | the proofs, one module beside each proved module | |

A definition `X_bug` (or `_redo`) is `X` with a slip that a change to the code could make. No definition
uses it; it is substituted for `X` to show that a property notices. `PROJECT.json` lists every
mapped definition with its lines, every hazard with the property that covers it, and every mutant.

### The lane

`LaneState` is `[queue, inFlight, ejected, phase, generation, now, …]`. `Enqueue`,
`HeadMoved`, `Withdraw`, `ForceReadmit`, `LandFailed`, `BuildFinished` and `Tick` are the
arms of `step_inner`; each is followed by `MaybeStart` (`maybe_start_build`) or, when the pump
yields, not (`step_without_build_start`). `Resync` is `advance_clock`. A member is an id and a head;
the files a head changes and the files a red names are what attribution compares, so they
are kept, the texts of reasons are not. `Lane` is written as operators on a record, so that the same
definitions serve the machine, the host around it and the proofs; `App` is written alike.

`LaneHost` makes every lock region of a request thread one step: a withdraw is two steps
(tombstone and event, then forget), a `GET /lane` three (`ReadView`, `ReadAccepted`, `ReadTombs`), and what it answers is
`Lists`: what the view of the first step shows, less the tombstones of the last, and what was accepted at the second. A
reader looks for one id.
The worker receives an event, steps the lane, begins and ends each action, steps the events
the actions produced, and lifts a tombstone when the pump ends, in the order of
`pump_observed`. A build answers with every verdict that the candidate tree and the legs can
give for its roster; a land succeeds, fails, or fails although it landed.

The trunk is no variable. Others push to it while a candidate is built; two of the three landers never merge; and the ancestry
check that would recognise a landed head answers *no* when git cannot tell (`core/lanetree.rs` 235–249). So any roster may be
stale, in conflict, refused, or be built and landed again, whatever was landed before, and no property says what the trunk holds.

### App-serve

`App` keeps per instance the fields of `InstanceState` and globally queue, slots and
generation counter. `AppMachine` adds the set of attempts ordered and not reported; a
result may come at any later time, also after the instance was removed or added again.

`AppServe` executes a drive in the code's order: the policy steps at once (`Drive`), its
orders are executed one at a time (`StartBuild`, `SpawnAndProbe` or `CannotSpawn`,
`Promote`, `StartDrain`, `KillStandby`, `RecordRedOrder`), then the state file is written
(`Persist`), then the next event is taken. Build, probe, stop and poll threads are one step
each, so they interleave anywhere. Ports, bundles and processes are modelled as the code
handles them: LIFO recycling, harvest that reuses, prune that keeps one warm bundle, a child
that exits if its port is taken, a probe that asks whoever listens. `Restart` may happen between
any two steps and keeps bundles, state file and registry.

### A push

`Serve` follows one `push_overlay` from `Admit` over `Replace` (a later push of the same commit
takes the earlier one's place), `Enqueue` and `Signal` or `SendGate`: each lock region is a step. The loop's round
is: drain the control channel (`Round`), take wake-up keys (`TakeKey`: the cluster is spawned if
this is its first member), take LSP events (`TakeEvent`, then `EventIgnored`, `EventObserved` or
`EventSettles`, then `EventIndexed`, then one `RouteDeferred` for each worktree that waited for the
baseline), and end (`RoundEnds`, or a drained exit). `driver` is `ClusterDriver`,
`cluster` the rest of `ClusterState`, `ra` the process the multiplexer talks to, with the text
it has really been sent (`Garbled` after a torn write). A pull answers about the text the analyzer holds
when it answers, under the generation it was begun with. A witness is a supervisor with a watchdog and
a worker of its own; the slot is released when the *worker* ends. An overlay is the push
it came from; `Key(p)` is (worktree, commit). One variable is history only: `abandoned`, the pushes that were
in analysis when their cluster went idle.

### An attempt

`Attempts` has the disk (`admission`, `evidence`), which a `Restart` keeps, and the memory, which it
empties. A call goes `Reserve` → `ReadEvidence` → `ReadMemory` → `Begin` → `Accept` → `SendGate` or
`Enqueue` → `Ack`, with `Refuse` and `Rollback` on the way; the reads are under `attempt_admission_lock_v3`, the
conclusions are not. A `job` is what the call dispatched: it goes through the queue or the gate to a
witness, and `Finish`, `Persist` and `Conclude` are three steps: memory, bundle, unlink.
`troubles` counts crashes, file operations that fail, refusals, bundles that expire and pushes that name
no attempt, together.

### A batch

`Batch` gives `RunBatch` and its truncation guard as operators on a sequence of members; a patch is
abstract and the constants say which unions are red or clash. `basis` is the only history: the union a
result was judged on. `Pick` keeps the elements at given positions, in order: the `filter` and `retain` of the code, by position and not
by recursion so that lemmas can be proved about it. `Coalescer` makes each hold of the state lock one step; `asleep` is the wait set of
the one condition variable, so that a lost wakeup is a state TLC can reach.

### A watch session

`Session` has the file system thread (`TakeBatch`, `Resumed`, `TakeClient`, `Forward`), the monitor
(`Reap`, `Unpark`, `Spawn`, `Handshake`, `OpenFiles`, `SwapClient`, `Store`, `Stop`), the
evictor, shutdown in two steps (`Close`, `Closed`), each analyzer process with its passes
(native diagnostics, cargo check) and the forwarders that apply what it said. A file is its version; an error is
one the analyzer sees itself (`Native`) or only cargo check sees (`Rustc`). A check may also fail to run (`CheckFails`); `sentinel` is the
red entry the model then has for a file that no analyzer publishes. `NativeVerdict` is the verdict mode of that name.

## 3. What is checked

| run | instance | states | shows |
|---|---|---|---|
| `machine` | 3 members, 2 heads, 2 to a build | 42 257 | no handler duplicates, resurrects or leaks a member, none preempts a build |
| `host` | 2 members, 2 request threads, 3 calls, 1 failed land | 1.98 M | nothing acknowledged is lost, what lands is what compiled, once per green build, pacing holds, readers see withdrawals, the host refines `LaneMachine` |
| `live` | 2 to a build, capture window, pump budget 3 | 51 470 | ejections end, a queue that only waits for time is served |
| `app` | 3 instances, 3 commits, 1 slot | 533 447 | builds converge, the newest head is judged, a promotion is earned, no slot is left idle beside a waiter |
| `appserve` | 1 static instance, 1 preview, 2 commits, 2 ports | 2.81 M | driver and policy agree, ports are accounted for, bundles outlive their users, nobody waits for nothing |
| `appserve_live` | the same, heads only go forward | 58 434 | the daemon comes to rest with a verdict |
| `serve` | 2 pushes and a gate push of one commit, one escalated, two broken; a stall, a respawn, an idle teardown, a drain | 3.31 M | a green is earned, one answer per push, nothing vanishes, a witness slot is a running compile |
| `serve_live` | 3 pushes of 2 worktrees on one analyzer, one native notification | 65 969 | every push is answered unless the analyzer dies |
| `serve_stall` | 2 pushes, a failed write, 2 native notifications | | the finding of section 5 |
| `attempts` | 3 calls of 2 attempts, 3 troubles, memory for 1 outcome | 2.16 M | executed at most once, dead if abandoned, known if acknowledged, concluded once |
| `coalescer` | 3 threads, 2 keys, 1 slot, 3 submissions: a culprit, a truncated patch, a conflict | 30 571 | slots are runs, answers are earned, a culprit sits out, everyone is answered |
| `session` | 2 edits, 2 analyzers, 1 eviction, 1 failed check | 1.50 M | one analyzer, none left behind, at rest the verdict is true or a check has failed, it comes to rest |

### Properties worth a word

* `NoMemberLost` (lane) relates seven places: an acknowledged member is in the channel, the
  pump, the queue, the build, a land or an ejection until it lands or is withdrawn.
* `ShipsWhatCompiled` and `LandsEachGreenOnce` relate the last candidate, its verdict, the report in the pump and the lands
  left to do. The first breaks if a land and a start are swapped, the second if the pump loses a green report, drops the land of a step that
  also starts a build, lands a roster twice or lands it again without another compile. Neither says that the trunk has not moved
  since the candidate was merged: to refuse then is the lander's part.
* `WithdrawnIsHidden` speaks of readers that take three locks one after the other. The reader overtaken between two
  of them by the worker that lifts the tombstone is excepted (`excused`): it may hold a view from before the withdrawal, and is the only one
  that may.
* `BuildingIsBeingBuilt` is what keeps the lane from waiting for a build that is over.
* `MachineSpec` is the refinement: every step of the host is a step of `LaneMachine` or
  leaves the lane alone. It carries the proved invariants over to the host; section 4 proves it.
* `BuildsConverge` (app) bounds the builds since the last verdict by the two retry streaks,
  whatever the heads do. The streaks reset each other's counters, which is why this is not obvious.
* `PromotionIsEarned` says a child becomes serving only with the generation of a build that passed its
  own probe, and the promoted commit is then the last green one.
* `ChildrenMatch`, `PortsAccounted` and `BundlesOutliveTheirUsers` relate the policy, the driver's
  children, the proxy slot, the free list and the disk between any two events.
* `NothingIsLost` says a busy pipeline has its order, thread or message somewhere.
* `GreenIsEarned` (serve) says that a push is told green only if its own text compiles, although the
  analyzer is shared, restarts, fails writes and answers late. A witness whose plan has no check to run is green by default
  (section 5), whatever the text; the model keeps that green apart (`vacuous`), and the property says that only
  a push that asked for a witness gets it.
* `NothingVanishes` says an acknowledged push without a verdict is in a queue, an attribution, a gate
  or a witness, or was superseded by one that is. With `AnsweredOnce` it is exactly-once, but for the idle
  teardown of section 5.
* `SlotsAreCompiles` counts witness slots against running workers, watched or abandoned.
* `AtMostOnce`, `AbandonedIsDead` and `AckedIsKnown` (attempts) are what a retrying client relies on: no
  second execution, no execution of what was rolled back, no amnesia behind an acknowledgement.
  `TerminalIsFinal` adds that a conclusion never changes and a pass is not told before it is durable.
* `AnswersAreEarned` (coalescer) says a thread gets as many results as it sent members, in its own order, for
  its own patches, and green only on a checked union that contains its patch and nothing truncated.
* `OneAnalyzer`, `NothingOutlives`, `RestIsTruth` (session): see section 4.

### Bounds, and why they are enough

* *Lane.* Three ids give a member ahead, between and behind; two in a build give a culprit and a
  survivor; generations, ticks and streaks go one past each configured limit. The clock
  reading repeats and goes back. `LaneHost` counts client calls (3: an enqueue, a withdrawal
  and one more, which may be the reader), ticks and failed lands, but no steps of the worker. `Watched` says which ids readers look
  for: one of two in `host`, which is any of them, since ids are treated alike; none in `live`. `MaxTick` cuts time, so the liveness
  properties speak of deadlines within it (`Due`).
* *AppMachine.* `MaxGen` bounds the generations by the number of instances added: alone, six
  suffice for a green with three failed respawns or for both streaks to run out; two and
  three together share one slot long enough to queue, retry, remove and return.
* *AppServe.* `MaxEvents` bounds disturbances only (pushes, failures, previews, restarts), never
  the daemon's own steps. Two instances, two commits and two ports make a port and a slot scarce. Commits are
  symmetric where a head may move anywhere. With `Forward` (liveness) symmetry is off.
* *Serve.* Two plain pushes of one commit and a gate push of it meet in every table that has the key
  (worktree, commit); `QueueCap` and `WitnessLimit` 1 reach both limits; `MaxSpawns` 2 is one respawn, with the second
  process dead or alive. `serve_live` has two worktrees, so that one waits for the other's transaction.
* *Attempts.* Two calls of one gate attempt and one of an overlay that the gate supersedes; three
  troubles suffice for a failed write, the crash behind it and a failure of the retry; `MemoryCap` 1 evicts.
* *Coalescer.* Three threads give a leader, a follower and one of another key; `Limit` 1 makes the gate bite;
  the culprit's cooldown of one run ends within the instance.
* *Session.* Two edits are one that races a restart and one after it; two analyzers are one restart; version 1
  breaks only cargo check, version 2 the native pass, version 0 nothing. One failed check is as good as many, since
  nothing takes it back. `NativeVerdict` is FALSE in the run, the default mode; the proofs cover both.
* Symmetry is used in no run that checks a liveness property.

### Fairness, and why the code justifies it

* *Lane.* Weak fairness of the worker (one thread in a loop), of the ticker (the daemon's
  heartbeat), and of the second half of a begun request. Builds and lands are steps of the worker:
  both run under a time budget in the code, so they end.
* *App-serve.* Weak fairness of the control thread and of the build, probe, stop and poll
  threads: each is a thread that runs to its end under a timeout. Pushes, failures,
  previews and restarts are not fair.
* *Serve.* Weak fairness of the loop, of each push's remaining HTTP steps, of witnesses and their watchers, of pulls
  (a pull has a timeout), of the supervisor's respawn and of the gate dispatcher, each while the process is up. The analyzer's own
  notifications, deaths, stalls and drains are not fair.
* *Coalescer.* Weak fairness of each thread's own step; new submissions are not fair. A physical run ends: the
  checks are killed at their budget. Submissions are bounded, so the run does not exclude that an
  endless stream of other requests starves one (the queue is served in order under one key only).
* *Session.* Weak fairness of the system as a whole (`System`) is enough: in this instance every run
  without a further edit, death or eviction is finite, and fairness only says that it goes on.
* Deadlock is checked for the lane, whose ticker never stops. The other systems may really stop: app-serve when nothing is
  left to do, the serve daemon when it has exited drained, the session when it is closed, the
  coalescer and the attempts when all bounded requests are answered (`CHECK_DEADLOCK FALSE`).

## 4. What is proved

### The lane: `Lane_proofs`, end of `LaneHost_proofs`

For every set of ids, heads and files, every roster size, ttl, window, backoff, attempt limit and clock:

* `TypeCorrect`, `EveryIdInOnePlace`, `WithdrawnNeverReturns`, `NothingHeldBeyondItsHorizon`,
  `RosterBounded`: the invariants of `LaneMachine`, the three of the run `machine` among them;
* `BuildNeverPreempted`: the action property `NeverPreempted`.

The inductive invariant is

    MachineInv == Sound(state) /\ gone \subseteq Id /\ gone \cap Where(state) = {}

`Sound(s)` is the conjunction of the state's type, one place per id, the deadlines and the
roster bound, for any state `s`; `Where(s)` is the set of ids in the lane. They are predicates
of a state and not of the variables, because a handler is a composition of operators: there is one
lemma per operator (`AdmitSound`, `EjectSound`, `InfraSound`, `AttributeRedSound`, `JudgeSound`, …), each of
the form *Sound(s) gives Sound(Op(s)), and Op(s) has no id that s had not, but for the one it was
given*. One place is not inductive without the type, nor `WithdrawnStaysOut` without `Where`:
every handler's bound on `Where` is what keeps a withdrawn id out. The lemmas on sequences
(`KeepRoster`, `ConcatRoster`, `SplitRoster`, …) say what filtering, appending and splitting do to the
ids of a roster and to their distinctness; they rest on the rank of a position in a filtered sequence.

### The lane host: `LaneHost_proofs`

For every set of request threads, ids, heads and files, every configuration of the lane, every pump budget and
any number of calls, ticks and failed lands:

* `MembersAreKept` (`NoMemberLost`), `BuildsAreReported` (`BuildingIsBeingBuilt`), `LandsWhatCompiled`
  (`ShipsWhatCompiled`), `LandsEachGreen` (`LandsEachGreenOnce`), `RetriesArePaced` (`InfraRetryPaced`) and `WithdrawalsAreSeen`
  (`WithdrawnIsHidden`): the invariants of the run `host`;
* `TypeCorrect`: the state has its type, history and counters too;
* `HostImplementsMachine` (`MachineSpec`): the host implements `LaneMachine`, so what is proved of the machine holds in it.

None of the six is inductive alone; their invariant is one. It says where the worker is. A pump is either `Fresh`,
with the one event it received, an idle lane and nothing to do, or `Homeless`: what it holds are
follow-ups of its own steps, and a member on its way back to the queue is in one place and not in the lane.
`Completing` adds that a lane that builds is owed one completion, of its own generation, that names members of the roster;
`Compiling`, that the last candidate is the roster that is built, reported or about to land, with the verdict its report names,
and that nothing of it is left once it was landed. `Kept`,
`Leaving`, `Paced`, `Tombs` and `Hidden` say per id what an enqueue, a withdrawal and a failed
build have left in the queues between the threads: a withdrawal ahead of an enqueue in the channel takes away the older
member only, one tombstone stands for one withdrawal, a failure not yet told is a `BuildFinished` still pending. Two more invariants rest on
this one. `Counters` has the types of what only the history and the bounds need. `Informed` follows a reader: once it holds a view that lists
a withdrawn id, the tombstone is up, and stays up until it is read or the reader is excused; `AnsweredIsHidden` is the argument of its
first step, that an id whose withdrawal was answered is out of the lane or has its tombstone.

The refinement needs the same invariant. `LaneMachine` lets its driver enqueue no member that is in flight and report each build
once, with members it was given: `Fresh` and `Homeless` are the first, `Completing` is the second. An action of the
host that steps the lane is then a step of the machine, any other a stutter. The lemmas of `Lane_proofs` about
`Where(s)` and `Sound(s)` carry every handler.

### The session: `Session_proofs`

For every number of edits, analyzers and evictions and every choice of broken versions:

* `OneAtATime` (`OneAnalyzer`): two analyzers never run at once;
* `NoneLeft` (`NothingOutlives`): a closed session leaves none behind;
* `VerdictIsTruth` (`RestIsTruth`): at rest the verdict is that of the disk, or red if a check has failed to run in this session,
  unless one of the two races of section 5 took place; in either verdict mode.

`IInv` has two parts. The first says who may run: at most the stored child, or, while the
monitor starts one, the process in its hands, which is then the newest; a suspended or closing
supervisor holds none it does not still have to kill. The second follows an edit: from the disk to
the batch, to the text the newest analyzer has open, to its pending passes, to what it said, to the model's
state, and says at each stage what is still *due*. At rest nothing is due, so the verdict is the disk's.

### The attempts: `Attempts_proofs`

For every set of calls, attempts, identities, keys, caps and troubles:

* `ExecutedAtMostOnce` (`AtMostOnce`): an attempt whose evidence has not expired is dispatched at most once;
* `AcksAreHonoured` (`AckedIsKnown`), `GivesUpTheDead` (`AbandonedIsDead`) and `ConclusionsStay` (`TerminalIsFinal`).

`AtMostOnce` alone says nothing about a call that is about to dispatch. The invariant adds ownership: a
call that passed the admission and any that dispatched *owns* the record of its attempt on disk (`Owned`), a call that
dispatched does not come back (`Through`), and only an expired attempt is unlinked by the pruner (`UnlinksExpired`). A record has one
owner, so two dispatches are of one call, and a call dispatches once.

The other three rest on `AInv`. `Clerks`: whoever is between reservation and answer holds the lock, and the record of what was
dispatched is accepted. `Executions`: what waits in a queue is queued once, and a claim on a key belongs to an execution
that still compiles for it or concludes its predecessor. `Memory`: only terminal outcomes age. And for every unexpired attempt a
`Story`: before the dispatch it left nothing but its own pending outcome (`Untold`); at most one execution is `Due` to conclude
it (`OneExecutor`), which passes from a claimant to its successor; until that one has written, the outcome is pending and no
evidence exists (`Pending`); a conclusion in memory is the one on disk or could not be written and is no pass (`Durable`). `AtMostOnce` is
what makes the one executor inductive. One lemma, `AccountFrame`, says what a step must leave alone for the story to go on; each
action has one lemma for the attempts it touches. `Awaited`, for expired attempts too, says that what is pending has an execution or
a call, and an attempt that lost its claim to a nameless push is excepted.

### App-serve: `AppMachine_proofs`

For every set of instances and commits, every number of build slots, and any number of additions and removals:

* `EveryPromotionIsEarned`, `BranchConverges`, `NewestIsNeverForgotten`, `NoSlotIsWasted`: the properties
  `PromotionIsEarned`, `BuildsConverge`, `NewestIsJudged` and `SlotsAreUsed` of the run `app`;
* `DispatchNeverPanics`: who waits exists, is queued and waits once, so the `unreachable!` and the `expect` of
  `dispatch` are not reached; the slots held are those of building instances, within the limit;
* `AppTypes`: the state has its type.

A step is a composition of operators here too, so the invariant `Sound(s, A, G)` is one of a state `s` in the middle
of a step, with the attempts `A` that were under way when it began and the commits `G` seen green. A late result
is the danger: `PromotionIsEarned` is not inductive, because nothing in it keeps a forgotten attempt from
carrying the generation the pipeline waits for. `Fits` adds that: generations are below the counter, an attempt
with the pipeline's generation and kind has its commit, and no probe under way has the generation of a build in hand. The
operators that settle a pipeline are `Kept` steps (streaks, children and last greens stay, new attempts have new
generations), the other events `Steady`, a build's end is a `Judgement` and a health probe a `Promotion`; each
handler has one lemma that says which. `DispatchKeeps` says why no slot is wasted: a dispatch leaves no
free slot beside a waiter, and what comes without one leaves slots and queue alone.

`NewestIsJudged` speaks of idle instances only, and is not inductive for that reason. `Pursues` says it of busy ones: the
newest head is what is pending, or else what is in hand, or else what serves, or it was recorded red (`HeadsFor`, `Excused`). What a
handler would refuse to build must then be known: the commit refused as red was recorded (`Aware`), who serves is the last
green, and a respawn in hand is of the last green while nobody serves, so that a respawn that fails owes the same commit again.
Between the operators of a handler an instance may still have to settle (`Unsettled`). Every handler has a lemma for its own
instance; the other instances at most pass from queued to building (`Launches`), which keeps what they pursue.

### App-serve's daemon: `AppServe_proofs`

For every set of instances and commits, every split of them into static ones and previews, every number of ports, build slots and
disturbances:

* `ChildrenAlwaysMatch`, `NoPortIsLost`, `NoBundleInUseIsPruned`, `NobodyWaitsInVain`: the invariants `ChildrenMatch`,
  `PortsAccounted`, `BundlesOutliveTheirUsers` and `NothingIsLost` of the run `appserve`;
* `RecoveryStaysPut` (`RecoveryStays`): the bundle the state file names for a static instance goes in no step but a promotion of
  that instance (section 5);
* `DaemonTypes`: the state has its type.

None is inductive, for the policy changes in one step and the driver in the many that execute its orders. `IInv` says what
holds between two orders. `Ordering`: an order left is about the pipeline as it is, and of all orders left at most one spawns, a
child nobody tracks yet. `Family`: the children are those the policy holds, the one that boots, and those an order left is about
to kill. `Slots`: the proxy points at who serves, or a promotion is among the orders left. `Draining`: whoever is to be
drained or killed, by an order, a thread or a message, serves no more and boots no more, so a late `DrainComplete` takes nobody's child away.
`Handed`: every generation in sight is below the counter, so the next one is new to every table. `Booting` says what boot has yet to do,
and that nothing is promoted before it is done; with `Pointer` (the state file names the last green, unless the instance is in hand or
untouched since the boot) it is what `RecoveryStaysPut` needs. `Bundles` follows a commit from the build that reports it green over the
probe to the child, and `Protected` covers each of them; `ProbesOK` ties a probe, running or reported, to its child. `Pool` is
`PortsAccounted` with the free list free of repetitions; counting it takes two bijections. `Answered` is `NothingIsLost`.

The first part of the module is about the policy alone. `Effect` says which orders one event leaves and what changes with
them: only what is announced starts to serve, boot or drain, what is told to drain or die is no longer in use, a new generation is
from the counter on. Every operator of `App` preserves a form of it (`Mid`), every handler has one lemma, and `StepEffect` sums them up.
The second part is about the driver: one lemma for each order, each thread and each event, and `FedKeeps` for the moment an event
enters the policy, where the orders are new and nothing of them is executed.

### The push path: `Serve_proofs`

For every set of pushes and worktrees, every choice of gate, escalated and broken pushes, every queue cap and witness
limit, and any number of analyzers, notifications, stalls and deactivations:

* `GateIsSound` (`SlotsAreCompiles`), `OneVerdictEach` (`AnsweredOnce`), `NoPushVanishes` (`NothingVanishes`), `DrainIsExact`
  (`DrainForgetsOnlySharedKeys`);
* `GreenIsTrue` (`GreenIsEarned`), under the hypothesis `~PullsOutliveIdle`;
* `TypeCorrect`.

`Safe` follows one push. `Placed` says that a push nobody has begun to answer has neither an answer nor a witness, and that the
queue of a worktree and the push consumed from it are different pushes; `Claimed`, that a watcher without the claim
of its key was superseded; `InFlight`, that what is attributed is what the driver has in flight, so that the
settle of a transaction answers the right push; `Lifecycle`, that a handshake told late is of a later process, so
that its drain answers nobody twice. They are operators on the values they relate and not on the variables, because
`LoopStep` composes handlers (a switch within a settle, a follow-up within a switch) and the lemmas speak of the state between two.

`DrainIsExact` needs `Lonely`: a push alone on its worktree and its wake-up are one. The signal, the key, the
deferred mark and the pending entry exclude each other, the transaction in flight is the push's own and no recheck is
due, so the single active mark is cleared by the push's own verdict. With a second push on the key this fails, which is why the
property excepts it.

`GreenIsTrue` needs `GInv` on top. `InStep`: the text a live analyzer has open is the one the multiplexer believes. `Numbered`:
pull generations are used once. `Truthful`: a transaction after the baseline is fenced, a pull with the fence's generation is of the present
process and of the attributed push, and diagnostics that come through the fence show the error of a broken text. A torn
write breaks `InStep`, so its push is excepted as `stalled`; a torn-down cluster numbers its pulls from 1 again, which breaks
`Numbered` for a pull that outlives it. The hypothesis is needed: with `PullsOutliveIdle = TRUE` TLC refutes the property (section 5).

### The coalescer: `Coalescer_proofs`

For every set of threads and keys, every limit, cooldown and group size and any number of submissions:

* `GateIsExact` (`SlotsAreRuns`). Only `inflight` and `led` are stored; the invariant ties both to where the threads are. `Counted`
  says that `inflight` is the number of threads between claim and release, with their set finite, which no assumption says of
  the threads; `LedBy` and `OneLeader`, that a key is led exactly while one thread is between its election and
  `finish_leader`. The limit holds because the test and the claim are one hold of the lock, and a run has somebody
  to check because an empty group gives its slot back at once.
* `AnswersAreAboutTheirRequests` (`AnswersAreEarned`), by `AnswerInv`. A submitter that is neither idle nor answered is in the queue of its
  key or in the group of a leader (`Placed`), once and not in both (`Queued`, `Grouped`), so it neither returns nor submits again while a
  run is about it. A leader that has not drained is in its own queue (`Waiting`), since nobody else drains that key; so its drain is never
  empty. `Reported`: the rest of a report judges the members of the rest of the group, position by position. What judges is proved of
  `Batch` for every union, conflict, truncation and infra failure (`OutcomesJudge`).
* `CulpritsSitOut` (`CulpritSitsOut`), under the hypothesis `Limit = 1 /\ Cooldown > 0`, the configured defaults (serveapi.rs:1066-1067).
  A cooldown ends above the run sequence while the slot is free and at or above it while a leader drains (`Cooling`); the one claim in between
  raises the sequence by one. With two slots another leader may claim, or drain, before the culprit is known, and the
  property is not one the code promises.

The lemmas about data: ranks in a finite set of numbers and what `Pick` keeps; that the concatenation `FlattenSeq` computes is the first
sequence followed by that of the others. The library's induction theorems take an operator as parameter and cannot be used; the two
inductions are made on a set of numbers without a least counterexample (`Least`, `Induct`), from the library's theorem that `<` is
well-founded on `Nat`.

### Assumptions

The assumptions are the named ASSUMEs of `Lane`, `LaneMachine`, `LaneHost`, `Serve`, `Session`, `Attempts`, `App`, `AppMachine`, `AppServe` and `Coalescer`: limits
are naturals, rosters, queue caps, pump budgets, analyzers, build slots and ports positive, static instances are instances, watched ids ids, instances finitely many, functions have their type, gate and escalated
pushes are disjoint sets of pushes, requests name members and fit their type, `None` is no value, in `App` no child and in `AppServe` neither
a drive nor an upstream. Two theorems have a hypothesis besides: `~PullsOutliveIdle` of `GreenIsTrue`, and one slot with a cooldown of `CulpritsSitOut`. In `Batch`
a clash of patches has two patches in it: the client collects the changed paths in a set (push.rs:516), so one push has one content for
a path and does not conflict with itself; a hand-made push that names a path twice is outside the model.

**Only model-checked:** the liveness properties (the prover handles neither ENABLED nor fairness), and the run that expects a violation.
Every invariant and every action property a passing run checks is stated by a theorem.

## 5. Where the code and its documentation differ

One divergence has a run, because it takes a trace to believe it:

* **`serve_stall`, `bin/servedrv.rs` 1857.** A write that fails leaves the transaction armed without a fence
  until the respawn is announced. Native notifications of the base workspace that are
  already in the channel are then admitted: clean diagnostics and the end of a flycheck settle the push
  green although its text never reached the analyzer. Line 1562 says such notifications cannot prove the pushed overlay.

The others were seen while modelling. Where a property would fail because of one, the property names the exception.

*Lane*

* A second withdrawal that finds the first one pending sends no event (`core/lanehost.rs` 556): withdraw, enqueue,
  withdraw leaves the member admitted, though both withdrawals were acknowledged (543 says "permanently").
* The step that lands a train starts the next one; if the land fails, its members are put back only
  after that whole build, and until then no snapshot lists them (`core/lanedrv.rs` 2246; `core/lanehost.rs` 86).
* A reader that clones the published view and is overtaken by the worker before it reads the tombstones lists a withdrawn
  member (`core/lanehost.rs` 628; 460), although the withdrawal was answered before it began; the comment at
  458–461 means to exclude a stale member that reappears. `WithdrawnIsHidden` excepts that one read.
* Any verdict but `Infra` clears the backoff a failed land has installed meanwhile (`core/lane.rs` 1075). `InfraRetryPaced` is about failed
  builds only.
* A head that landed may be built and landed again: after a land that timed out, with a lander that does not merge, or where git does
  not answer the ancestry check (`core/lanetree.rs` 235–249 says why it is so).
* An ejection for a head already contained in the base lapses and is rebuilt once per ttl.

*App-serve*

* A head that moves away and back to the commit in hand leaves the older commit pending, and it is built and
  served (`core/appstate.rs` 382; 124). `NewestIsJudged` excepts it.
* `promote` prunes before `drive` writes the state file, and protects the new last green, not the commit the file still
  names (`core/appdrv.rs` 392; 283). After a restart whose recovery of commit a fails three times, b builds green and fails its
  probe, then c is promoted: the prune keeps c and, as the one extra bundle, b, and deletes a. A crash before the write boots cold
  although the file names a green commit; `core/appbuild.rs` 537 and `core/appdrv.rs` 399 call that impossible. TLC finds this
  trace with one instance, three commits and seven disturbances; `RecoveryStays` says that no other step deletes that bundle.
* Removing a preview while it builds frees its slot and dispatches nobody (`core/appstate.rs` 322; 37). `SlotsAreUsed`
  and `ComesToRest` except it.
* A killed child's port is on the free list before the child is dead (`core/appdrv.rs` 514; 108), so a new child
  may find it taken, and its probe may be answered by the old one.
* The build thread of a removed preview goes on and harvests into the reclaimed directories
  (`core/appdrv.rs` 558–567 calls that impossible).
* Nothing in the daemon posts `ServingExited`, so a child that dies by itself is not respawned.
* A crash between a preview's removal and the write of the registry restores the preview.

*Serve*

* After a respawn nothing restarts pending or deferred worktrees until the next push (`core/clusterdrv.rs` 405–415).
* The drain's active set has one entry per worktree key, so one of two witnesses in flight is forgotten
  (`bin/serveapi.rs` 761–764). `DrainForgetsOnlySharedKeys` excepts keys that are shared.
* An idle teardown in the middle of an analysis removes the cluster and its driver, but neither the attribution nor the
  active mark (`bin/servedrv.rs` 1203): the push is answered by the first handshake of the next cluster, which 1471–1475
  calls a guaranteed no-op, or, if nobody pushes again, never. `NothingVanishes` excepts these pushes as `abandoned`.
* A recycled cluster restarts its pull generation at 1 (`bin/servedrv.rs` 160–163): a pull that outlives an idle
  teardown can settle the next transaction. With `PullsOutliveIdle = TRUE`, `GreenIsEarned` fails; the run has FALSE, which
  is the case when the idle timeout is longer than the pull's.
* A witness that ran no check publishes green unless `CARGOLESS_GATE_REQUIRE_CHECKS` is set (`bin/servedrv.rs` 2858). With the variable set,
  2968–2971 says that a run with no check evaluated is unknown. Two such runs escape it: one whose checks were all
  *skipped* for not matching the change is `Green`, not `Empty` (3645), and so is an empty run that came through the coalescer. `GreenIsEarned`
  keeps these greens apart from those somebody earned.

*Attempts*

* A gate push that names no attempt takes over the claim of one that does and concludes nobody: that
  attempt stays pending until a restart (`bin/serveapi.rs` 2711–2715 says it must not). `AckedIsKnown` excepts it as `orphaned`.
* An exact retry after a restart does not recover a pending state, as `core/evidence.rs` 370–372 says; the code answers that
  the dispatch was lost, and the tests agree with the code.
* The verdict is published and the worktree marked drained before the outcome is finished (`bin/serveapi.rs` 3048, 3050), so
  a drained exit may lose an outcome whose verdict was told.
* Batches check an attempt and then act on it without the lock (4220–4260): two concurrent submissions of one
  attempt both execute.
* A read between evidence and memory misses a conclusion that is evicted in between.
* A reserved record whose rollback failed stays, and answers every retry as incomplete.
* An attempt whose bundle is pruned can be reserved anew by a call that then fails; the next retry is told that the attempt
  was abandoned while the execution that pruned it has not remembered its conclusion yet. `AbandonedIsDead` excepts expired attempts.

*Session*

* An edit written to the old client after its successor has read the file is never checked (`core/model.rs` 1008;
  `core/analyzer.rs` 433). `RestIsTruth` excepts it as `missed`, and a late event of the dead analyzer as `overtaken`.
* A check that fails to run is stored as a red diagnostic of a file of its own (`core/model.rs` 415–421). Neither the end of a
  later clean check (410–414) nor a new analyzer (979–1019) takes it back: the tree is red until the session ends, over a file that
  compiles. `RestIsTruth` says so.
* The handshake has no timeout, so an analyzer that hangs in it would block the shutdown; the model's handshakes end.

## 6. What is not modelled, and why

* *Lane:* the trunk, and with it whether a lander's compare-and-swap notices that it moved (`core/lanedrv.rs` 1439–1443 asks it to): the
  model's lander refuses at any time, and a refused roster comes back; the trail file (a log no decision reads), the transport of remote legs
  with its own polling and retries (the legs' verdicts are the environment), poisoned locks, the death of the worker.
* *App-serve:* the SIGHUP reload (a set of additions, removals and ref changes in one
  step), the TTL clock (an expiry is a removal), changes of a preview's ref, the proxy's bytes, HTTP, the contents of a build's
  steps, the last post of a poller that is being stopped.
* *Serve:* several clusters (they share only the drain), the file system posture, candidates, evidence read from
  stderr, the status ring, warm targets, the native verdict of a red (the deployed posture publishes red only from a
  witness), publishing at the end of a file system cycle.
* *Attempts:* several worktrees, which artifacts fit a bundle, temporary directories a crash leaves, batches.
* *Coalescer:* spurious wakeups, the wakeup at a drain, the arm of `submit` for an empty group (1449–1456, which no caller
  reaches), the drain's counters; co-run tables of `corun.rs`, which hold no state.
* *Session:* several files, deletions, the structural gate, the downranking of proc-macro errors, one-shot checks, process
  groups.
* *Recovery* has no production caller. *Content store and build publishing:* files written once under a temporary name and
  renamed, by one sequential function; the crash points leave files that no state here reads.
* *Not at all:* project checks, clients, parsing, rendering, configuration, transport, wire types, benchmarks, vendored
  and generated files: sequential code without behaviour over time. They are most of the program's lines, which is
  why the mapped share is small although the concurrent core is covered.

## 7. What is left

1. `Serve` with its file system posture and two clusters; the ledger of batches.
2. A crash model of the content store's publication beside a cleaner, should one be added to the code.
