------------------------------- MODULE Serve -------------------------------
(***************************************************************************)
(* The push path of the `cargoless serve` daemon in its deployed posture   *)
(* (push-only, analyzer-native verdicts, explicit gates allowed): a client *)
(* pushes an overlay of a worktree, the serve loop switches the one shared *)
(* rust-analyzer to it, pulls its diagnostics and publishes one verdict;   *)
(* a gate push goes past the loop to a compile witness of its own.         *)
(*                                                                         *)
(* Actors: HTTP threads (push_overlay), the serve loop (one thread), the   *)
(* diagnostic pull threads, the supervisor that respawns the analyzer, the *)
(* gate dispatcher, and per witness a supervisor with its watchdog and a   *)
(* worker.  All worktrees here share one cluster, so one analyzer.         *)
(*                                                                         *)
(* Abstractions: an overlay is the push it came from; a push has one       *)
(* document; the analyzer answers a pull about the text it was last sent,  *)
(* or fails it; v3 attempts, candidates and file system batches are left   *)
(* out.  Every counter below the constant Max* is a bound of the model.    *)
(***************************************************************************)
EXTENDS Naturals, Sequences, FiniteSets, SequencesExt

CONSTANTS
    Pushes,        \* every push a client will ever make
    Worktrees,
    WtOf,          \* the worktree key of a push
    ShaOf,         \* its base_sha
    Gates,         \* the pushes made with --gate
    Escalated,     \* pushes whose blind paths promote them to a witness
    Broken,        \* pushes whose text does not compile
    QueueCap,      \* pushed_max_per_wt
    WitnessLimit,  \* CARGOLESS_WITNESS_MAX_INFLIGHT
    MaxSpawns,     \* analyzer processes started, handshakes that fail included
    MaxNatives,    \* notifications the analyzer sends on its own
    MaxStalls,     \* writes a live analyzer does not read in time
    MaxIdles,      \* deactivations of a worktree
    Quiesces,      \* TRUE when an operator may ask for a drain
    PullsOutliveIdle,  \* TRUE when a pull may still run at a deactivation
    None

ASSUME ServeConstants ==
    /\ WtOf \in [Pushes -> Worktrees]
    /\ Gates \subseteq Pushes /\ Escalated \subseteq Pushes \ Gates
    /\ Broken \subseteq Pushes
    /\ QueueCap \in Nat \ {0} /\ WitnessLimit \in Nat
    /\ {MaxSpawns, MaxNatives, MaxStalls, MaxIdles} \subseteq Nat
    /\ {Quiesces, PullsOutliveIdle} \subseteq BOOLEAN
    /\ None \notin Pushes \cup Worktrees

VARIABLES
    stage,        \* how far the HTTP thread of each push has come
    pushed,       \* the queue of stored overlays of each worktree
    signals,      \* worktree keys in the wake-up channel (the reader dedups)
    activeWts,    \* DrainState::active_worktrees
    quiescing,    \* DrainState::quiescing
    attribution,  \* the consumed push each worktree's next verdict is for
    answers,      \* every verdict published for a push, in order
    superseded,   \* pushes replaced by a later one of the same commit
    phase,        \* where the serve loop is
    keys,         \* wake-up keys the loop took this round
    members,      \* worktrees of the cluster; it exists while there is one
    driver,       \* ClusterDriver
    cluster,      \* the other fields of ClusterState
    abandoned,    \* history: pushes in analysis when their cluster went idle
    ra,           \* the analyzer process of the latest spawn
    spawns,       \* processes started so far
    ctrl,         \* Ctrl::Spawned messages the loop has not drained
    events,       \* the LSP ingress channel
    pulls,        \* diagnostic pull threads that still run
    stalled,      \* history: pushes whose write to the analyzer failed
    budget,       \* what the environment may still do
    gateQ,        \* requests sent to the gate dispatcher
    claims,       \* hard_witness_generation: the latest claimant of a key
    worker,       \* the compile worker of each witness
    watcher,      \* the supervisor of each witness
    slots         \* WitnessInflightGate::state

apiVars     == <<stage, pushed, signals, activeWts, quiescing, attribution,
                 answers, superseded>>
loopVars    == <<phase, keys, members, driver, cluster, abandoned>>
raVars      == <<ra, spawns, ctrl, events, pulls, stalled, budget>>
witnessVars == <<gateQ, claims, worker, watcher, slots>>
vars        == <<apiVars, loopVars, raVars, witnessVars>>

-----------------------------------------------------------------------------
NoTxn == [wt |-> None]
Txn(w) == [wt |-> w, err |-> FALSE, real |-> FALSE, pullFailed |-> FALSE]

FreshDriver == [current |-> NoTxn, pending |-> <<>>, recheck |-> FALSE]

FreshCluster == [lsp |-> 0, ready |-> FALSE, deferred |-> <<>>,
                 fence |-> 0, nextGen |-> 1, mux |-> None, baseline |-> FALSE]

\* What the analyzer has open: a push, nothing, or text of nobody.
Garbled == "garbled"

Key(p) == <<WtOf[p], ShaOf[p]>>

Init ==
    /\ stage = [p \in Pushes |-> "new"]
    /\ pushed = [w \in Worktrees |-> <<>>]
    /\ signals = {} /\ activeWts = {} /\ quiescing = FALSE
    /\ attribution = [w \in Worktrees |-> None]
    /\ answers = [p \in Pushes |-> <<>>]
    /\ superseded = {}
    /\ phase = "top" /\ keys = {} /\ members = {}
    /\ driver = FreshDriver /\ cluster = FreshCluster /\ abandoned = {}
    /\ ra = [inc |-> 0, alive |-> FALSE, text |-> None]
    /\ spawns = 0 /\ ctrl = <<>> /\ events = <<>> /\ pulls = {}
    /\ stalled = {}
    /\ budget = [natives |-> MaxNatives, stalls |-> MaxStalls,
                 idles |-> MaxIdles]
    /\ gateQ = <<>>
    /\ claims = [k \in {Key(p) : p \in Pushes} |-> None]
    /\ worker = [p \in Pushes |-> "none"]
    /\ watcher = [p \in Pushes |->
                    [at |-> "none", err |-> FALSE, got |-> "nothing"]]
    /\ slots = 0

Up == phase # "exited"

-----------------------------------------------------------------------------
(* HTTP threads: push_overlay_with_options.                                *)

\* Refused while quiescing, else the worktree counts as active.
Admit(p) ==
    /\ stage[p] = "new"
    /\ IF quiescing
       THEN stage' = [stage EXCEPT ![p] = "rejected"] /\ UNCHANGED activeWts
       ELSE /\ stage' = [stage EXCEPT ![p] = "admitted"]
            /\ activeWts' = activeWts \cup {WtOf[p]}
    /\ UNCHANGED <<pushed, signals, quiescing, attribution, answers,
                   superseded, loopVars, raVars, witnessVars>>

\* A queued push of the same commit is replaced in place, at any depth.
SameCommit(p) == {i \in DOMAIN pushed[WtOf[p]] :
                     ShaOf[pushed[WtOf[p]][i]] = ShaOf[p]}

Replace(p) ==
    LET w == WtOf[p]
    IN  /\ stage[p] = "admitted" /\ p \notin Gates
        /\ \E i \in SameCommit(p) :
             /\ \A k \in SameCommit(p) : i <= k
             /\ pushed' = [pushed EXCEPT ![w][i] = p]
             /\ superseded' = superseded \cup {pushed[w][i]}
        /\ stage' = [stage EXCEPT ![p] = "stored"]
        /\ UNCHANGED <<signals, activeWts, quiescing, attribution, answers,
                       loopVars, raVars, witnessVars>>

\* A new commit is appended; at the cap it gets a 429 and, as on every
\* failure past the admission, the worktree's active mark is cleared.
Enqueue(p) ==
    LET w == WtOf[p]
    IN  /\ stage[p] = "admitted" /\ p \notin Gates
        /\ SameCommit(p) = {}
        /\ IF Len(pushed[w]) >= QueueCap
           THEN /\ stage' = [stage EXCEPT ![p] = "rejected"]
                /\ activeWts' = activeWts \ {w}
                /\ UNCHANGED pushed
           ELSE /\ stage' = [stage EXCEPT ![p] = "stored"]
                /\ pushed' = [pushed EXCEPT ![w] = Append(@, p)]
                /\ UNCHANGED activeWts
        /\ UNCHANGED <<signals, quiescing, attribution, answers, superseded,
                       loopVars, raVars, witnessVars>>

\* The loop is woken, and the client has its ack.
Signal(p) ==
    /\ stage[p] = "stored"
    /\ signals' = signals \cup {WtOf[p]}
    /\ stage' = [stage EXCEPT ![p] = "accepted"]
    /\ UNCHANGED <<pushed, activeWts, quiescing, attribution, answers,
                   superseded, loopVars, raVars, witnessVars>>

\* A gate push is never queued: it goes to the dispatcher.
SendGate(p) ==
    /\ stage[p] = "admitted" /\ p \in Gates
    /\ gateQ' = Append(gateQ, p)
    /\ stage' = [stage EXCEPT ![p] = "accepted"]
    /\ UNCHANGED <<pushed, signals, activeWts, quiescing, attribution,
                   answers, superseded, loopVars, raVars, claims, worker,
                   watcher, slots>>

RequestQuiesce ==
    /\ Quiesces /\ ~quiescing
    /\ quiescing' = TRUE
    /\ UNCHANGED <<stage, pushed, signals, activeWts, attribution, answers,
                   superseded, loopVars, raVars, witnessVars>>

Client(p) == Admit(p) \/ Replace(p) \/ Enqueue(p) \/ Signal(p) \/ SendGate(p)

-----------------------------------------------------------------------------
(* Publishing: publish_attributed_with_candidate_checks.  It clears the    *)
(* active mark of the whole worktree.                                      *)

Answer(ans, p, v) == IF p = None THEN ans
                     ELSE [ans EXCEPT ![p] = Append(@, v)]

Publish(p, w, v) ==
    /\ answers' = Answer(answers, p, v)
    /\ activeWts' = activeWts \ {w}

-----------------------------------------------------------------------------
(* The serve loop executing a SwitchOverlay of worktree w, from the state  *)
(* its caller left: cl the cluster, an the analyzer, attr the attributions.*)

NextPush(w) == IF pushed[w] = <<>> THEN None ELSE Head(pushed[w])

\* take_overlay_for pops one push, and wakes the loop again for the rest.
TakeOverlay_bug(w, attr) ==
    /\ pushed' = [pushed EXCEPT ![w] = IF @ = <<>> THEN @ ELSE Tail(@)]
    /\ attribution' = [attr EXCEPT ![w] = NextPush(w)]
    /\ UNCHANGED signals

TakeOverlay(w, attr) ==
    /\ pushed' = [pushed EXCEPT ![w] = IF @ = <<>> THEN @ ELSE Tail(@)]
    /\ signals' = signals \cup (IF Len(pushed[w]) > 1 THEN {w} ELSE {})
    /\ attribution' = [attr EXCEPT ![w] = NextPush(w)]

LiveClient(cl, an) == cl.lsp = an.inc /\ an.alive

\* The diff between what the multiplexer believes is open and the target is
\* written; it is right only when the belief is.
Opened(cl, an, target) ==
    IF cl.mux = target THEN an.text
    ELSE IF an.text = cl.mux THEN target ELSE Garbled

\* Every verb is written: a pull of a fresh generation is fenced and started.
WriteOk(w, cl, an) ==
    /\ cl.lsp # 0
    /\ LiveClient(cl, an) \/ cl.mux = NextPush(w)
    /\ ra' = IF LiveClient(cl, an)
             THEN [an EXCEPT !.text = Opened(cl, an, NextPush(w))] ELSE an
    /\ cluster' = [cl EXCEPT !.mux = NextPush(w), !.fence = cl.nextGen,
                             !.nextGen = @ + 1, !.baseline = TRUE]
    /\ pulls' = pulls \cup {[gen |-> cl.nextGen, inc |-> cl.lsp,
                             empty |-> NextPush(w) = None]}
    /\ UNCHANGED <<stalled, budget>>

\* A dead analyzer, or one that stops reading, fails a write: restart_now
\* kills the stored child, and the transaction stays armed without a fence
\* and without a pull.  A child still in its handshake is not stored yet.
WriteFails(w, cl, an) ==
    /\ cl.lsp # 0
    /\ cl.mux # NextPush(w)
    /\ \/ ~LiveClient(cl, an) /\ UNCHANGED budget
       \/ /\ LiveClient(cl, an)
          /\ budget.stalls > 0
          /\ budget' = [budget EXCEPT !.stalls = @ - 1]
    /\ \/ ra' = [an EXCEPT !.alive = FALSE]
       \/ cl.lsp # an.inc /\ ra' = an
    /\ cluster' = [cl EXCEPT !.mux = NextPush(w), !.baseline = TRUE]
    /\ stalled' = stalled \cup ({NextPush(w)} \ {None})
    /\ UNCHANGED pulls

\* No handshake yet: the overlay is consumed and nothing is analysed.
NoClient(cl, an) ==
    /\ cl.lsp = 0
    /\ cluster' = [cl EXCEPT !.baseline = FALSE]
    /\ ra' = an
    /\ UNCHANGED <<pulls, stalled, budget>>

Switch(w, cl, an, attr) ==
    /\ TakeOverlay(w, attr)
    /\ WriteOk(w, cl, an) \/ WriteFails(w, cl, an) \/ NoClient(cl, an)

-----------------------------------------------------------------------------
(* ClusterDriver.                                                          *)

Arm(drv, w) == [drv EXCEPT !.current = Txn(w)]

\* A batch for a busy driver: the transaction in flight is re-checked, any
\* other worktree waits once.
Queue(drv, w) ==
    IF w = drv.current.wt THEN [drv EXCEPT !.recheck = TRUE]
    ELSE IF Contains(drv.pending, w) THEN drv
    ELSE [drv EXCEPT !.pending = Append(@, w)]

\* RoutedBatch, and the switch it may call for.
RoutedBatch(w, drv, cl, an, attr) ==
    IF drv.current = NoTxn
    THEN /\ driver' = Arm(drv, w)
         /\ Switch(w, cl, an, attr)
    ELSE /\ driver' = Queue(drv, w)
         /\ cluster' = cl /\ ra' = an /\ attribution' = attr
         /\ UNCHANGED <<pushed, signals, pulls, stalled, budget>>

\* start_next_after_settle: the re-check first, then the queue.
AfterSettle(drv) ==
    IF drv.recheck
    THEN [drv EXCEPT !.recheck = FALSE, !.current = Txn(drv.current.wt)]
    ELSE IF drv.pending # <<>>
    THEN [drv EXCEPT !.current = Txn(Head(drv.pending)), !.pending = Tail(@)]
    ELSE [drv EXCEPT !.current = NoTxn]

ResetAfterRespawn(drv) == [drv EXCEPT !.current = NoTxn, !.recheck = FALSE]

-----------------------------------------------------------------------------
(* Witnesses: hard_witness claims, the compile gate, worker and watchdog.  *)

\* begin_hard_witness: the newest claimant of a commit takes the key over.
Begin(p, err) ==
    /\ claims' = [claims EXCEPT ![Key(p)] = p]
    /\ superseded' = superseded \cup ({claims[Key(p)]} \ {None})
    /\ worker' = [worker EXCEPT ![p] = "waiting"]
    /\ watcher' = [watcher EXCEPT ![p] =
                      [at |-> "watching", err |-> err, got |-> "nothing"]]

DispatchGate ==
    /\ gateQ # <<>>
    /\ Begin(Head(gateQ), FALSE)
    /\ gateQ' = Tail(gateQ)
    /\ UNCHANGED <<stage, pushed, signals, activeWts, quiescing, attribution,
                   answers, slots, loopVars, raVars>>

\* The slot is claimed under the lock that saw it free; 0 means no limit.
Acquire(p) ==
    /\ worker[p] = "waiting"
    /\ WitnessLimit = 0 \/ slots < WitnessLimit
    /\ worker' = [worker EXCEPT ![p] = "running"]
    /\ slots' = IF WitnessLimit = 0 THEN slots ELSE slots + 1
    /\ UNCHANGED <<apiVars, loopVars, raVars, gateQ, claims, watcher>>

\* A check that runs votes on the text of the push.  "vacuous" is a clean
\* report of no check at all: Empty, when no check is selected (unknown under
\* CARGOLESS_GATE_REQUIRE_CHECKS), or Green, when every check is skipped for
\* not matching the change, and for an empty run shared by the coalescer.
Summaries(p) == {"unknown", "vacuous", IF p \in Broken THEN "red" ELSE "green"}

\* The worker hands over what the checks said.  The watchdog may have given
\* up by then, and nobody listens.
WorkerSends(p) ==
    /\ worker[p] = "running"
    /\ worker' = [worker EXCEPT ![p] = "sent"]
    /\ IF watcher[p].at = "watching"
       THEN \E s \in Summaries(p) : watcher' = [watcher EXCEPT ![p].got = s]
       ELSE UNCHANGED watcher
    /\ UNCHANGED <<apiVars, loopVars, raVars, gateQ, claims, slots>>

\* The slot is dropped when the worker returns, or panics with no result.
WorkerEnds_bug(p) ==
    /\ worker[p] \in {"running", "sent"}
    /\ worker' = [worker EXCEPT ![p] = "ended"]
    /\ slots' = IF worker[p] = "running" THEN slots ELSE slots - 1
    /\ UNCHANGED <<apiVars, loopVars, raVars, gateQ, claims, watcher>>

WorkerEnds(p) ==
    /\ worker[p] \in {"running", "sent"}
    /\ worker' = [worker EXCEPT ![p] = "ended"]
    /\ slots' = IF WitnessLimit = 0 THEN slots ELSE slots - 1
    /\ UNCHANGED <<apiVars, loopVars, raVars, gateQ, claims, watcher>>

\* compose_hard_mode_payload, after apply_require_checks.  The verdict of a
\* vacuous summary is a green one, published with no gated check.
Composed(err, summary) ==
    CASE summary = "red"                  -> "red"
      [] summary \in {"green", "vacuous"} -> IF err THEN "unknown" ELSE summary
      [] OTHER                            -> "unknown"

\* The worker's result, or the watchdog's unknown at any time before it;
\* finish_hard_witness lets only the claimant of the key publish.
Settle(p, summary) ==
    /\ watcher[p].at = "watching"
    /\ IF claims[Key(p)] = p
       THEN /\ claims' = [claims EXCEPT ![Key(p)] = None]
            /\ watcher' = [watcher EXCEPT
                   ![p].at = "publishing",
                   ![p].got = Composed(watcher[p].err, summary)]
       ELSE /\ watcher' = [watcher EXCEPT ![p].at = "dropped"]
            /\ UNCHANGED claims
    /\ UNCHANGED <<apiVars, loopVars, raVars, gateQ, worker, slots>>

WatcherHears(p) == watcher[p].got # "nothing" /\ Settle(p, watcher[p].got)
WatchdogFires(p) == watcher[p].got = "nothing" /\ Settle(p, "unknown")

WatcherPublishes(p) ==
    /\ watcher[p].at = "publishing"
    /\ Publish(p, WtOf[p], watcher[p].got)
    /\ watcher' = [watcher EXCEPT ![p].at = "done"]
    /\ UNCHANGED <<stage, pushed, signals, quiescing, attribution, superseded,
                   loopVars, raVars, gateQ, claims, worker, slots>>

Watcher(p) == WatcherHears(p) \/ WatchdogFires(p) \/ WatcherPublishes(p)

-----------------------------------------------------------------------------
(* The serve loop.  One round: exit check and drain_spawned, then every    *)
(* wake-up key, then every LSP event, then the activity tick.              *)

DrainComplete_bug ==
    /\ quiescing
    /\ \A w \in Worktrees : pushed[w] = <<>>
    /\ slots = 0

DrainComplete ==
    /\ quiescing
    /\ activeWts = {}
    /\ \A w \in Worktrees : pushed[w] = <<>>
    /\ \A p \in Pushes : WitnessLimit > 0 => worker[p] # "waiting"
    /\ slots = 0

ExitDrained ==
    /\ phase = "top" /\ DrainComplete
    /\ phase' = "exited"
    /\ UNCHANGED <<apiVars, keys, members, driver, cluster, abandoned, raVars,
                   witnessVars>>

\* drain_push_attributions_for and publish_stranded_unknown: the consumed
\* pushes a respawn stranded get an unknown.
Stranded == {attribution[w] : w \in Worktrees} \ {None}

PublishStranded_bug == UNCHANGED <<answers, activeWts>>

PublishStranded ==
    /\ answers' = [p \in Pushes |-> IF p \in Stranded
                                    THEN Append(answers[p], "unknown")
                                    ELSE answers[p]]
    /\ activeWts' = activeWts \ {WtOf[p] : p \in Stranded}

NoAttribution == [w \in Worktrees |-> None]

\* The cluster after Ctrl::Spawned of process n: deferred is left as it is,
\* and push-only mode is ready at once.
Handshaked_bug(cl, n) == [cl EXCEPT !.lsp = n, !.ready = TRUE, !.fence = 0,
                                    !.baseline = FALSE]

Handshaked(cl, n) == [cl EXCEPT !.lsp = n, !.ready = TRUE, !.fence = 0,
                                !.mux = None, !.baseline = FALSE]

\* The start of a round; the wake-up channel is emptied into a set.
Round ==
    /\ phase = "top" /\ ~DrainComplete
    /\ phase' = "keys"
    /\ keys' = signals
    /\ signals' = {}
    /\ ctrl' = <<>>
    /\ IF ctrl # <<>> /\ members # {}
       THEN /\ driver' = ResetAfterRespawn(driver)
            /\ PublishStranded
            /\ attribution' = NoAttribution
            /\ cluster' = Handshaked(cluster, Last(ctrl))
       ELSE UNCHANGED <<driver, answers, activeWts, attribution, cluster>>
    /\ UNCHANGED <<stage, pushed, quiescing, superseded, members, abandoned,
                   ra, spawns, events, pulls, stalled, budget, witnessVars>>

RouteOrDefer(w, drv, cl, an, attr) ==
    IF cl.ready
    THEN RoutedBatch(w, drv, cl, an, attr)
    ELSE /\ cluster' = [cl EXCEPT !.deferred =
                            IF Contains(@, w) THEN @ ELSE Append(@, w)]
         /\ driver' = drv /\ ra' = an /\ attribution' = attr
         /\ UNCHANGED <<signals, pushed, pulls, stalled, budget>>

TakeKey(w) ==
    /\ phase = "keys" /\ w \in keys
    /\ keys' = keys \ {w}
    /\ UNCHANGED <<phase, stage, quiescing, superseded, abandoned, events,
                   witnessVars>>

\* A push for a live cluster.
PushKeyRoutes(w) ==
    /\ TakeKey(w)
    /\ members # {}
    /\ members' = members \cup {w}
    /\ RouteOrDefer(w, driver, cluster, ra, attribution)
    /\ UNCHANGED <<activeWts, answers, spawns, ctrl>>

\* The first member: the analyzer is spawned and shakes hands on the loop's
\* own thread, and Ctrl::Spawned is drained before the push is routed.  A
\* broken handshake sends no Ctrl::Spawned; one of an earlier cluster may
\* still be there.
PushKeySpawns(w) ==
    /\ TakeKey(w)
    /\ members = {} /\ members' = {w}
    /\ spawns < MaxSpawns /\ spawns' = spawns + 1
    /\ ctrl' = <<>>
    /\ \E shaken \in BOOLEAN :
         LET sent == IF shaken THEN Append(ctrl, spawns + 1) ELSE ctrl
             an   == [inc |-> spawns + 1, alive |-> shaken, text |-> None]
         IN  IF sent = <<>>
             THEN /\ RouteOrDefer(w, FreshDriver, FreshCluster, an,
                                  attribution)
                  /\ UNCHANGED <<answers, activeWts>>
             ELSE /\ RouteOrDefer(w, FreshDriver,
                                  Handshaked(FreshCluster, Last(sent)), an,
                                  NoAttribution)
                  /\ PublishStranded

\* No process can be started: the next push of the worktree is answered
\* unknown, and the loop is woken for the rest of its queue.
PushKeyFails(w) ==
    /\ TakeKey(w)
    /\ members = {}
    /\ pushed' = [pushed EXCEPT ![w] = IF @ = <<>> THEN @ ELSE Tail(@)]
    /\ signals' = signals \cup (IF Len(pushed[w]) > 1 THEN {w} ELSE {})
    /\ IF pushed[w] = <<>> THEN UNCHANGED <<answers, activeWts>>
                           ELSE Publish(NextPush(w), w, "unknown")
    /\ UNCHANGED <<attribution, members, driver, cluster, ra, spawns, ctrl,
                   pulls, stalled, budget>>

KeysDone ==
    /\ phase = "keys" /\ keys = {}
    /\ phase' = "lsp"
    /\ UNCHANGED <<apiVars, keys, members, driver, cluster, abandoned, raVars,
                   witnessVars>>

-----------------------------------------------------------------------------
(* LSP events: [gen, kind, err], gen 0 for what the analyzer sends on its  *)
(* own.                                                                    *)

Native(kind) == [gen |-> 0, kind |-> kind, err |-> kind = "failed"]

\* correlate_lsp_event: with a fence only the fenced pull and the end of the
\* indexing pass; without one, every native event.
Admitted(e) ==
    \/ e.gen # 0 /\ e.gen = cluster.fence
    \/ e.gen = 0 /\ (cluster.fence = 0 \/ e.kind = "indexed")

Terminal(e) == e.kind \in {"ended", "failed"}

\* The cluster once the fenced pull has spoken its last.
Unfenced(e) == IF e.gen # 0 /\ Terminal(e)
               THEN [cluster EXCEPT !.fence = 0] ELSE cluster

TakeEvent(e) ==
    /\ phase = "lsp" /\ events # <<>> /\ e = Head(events)
    /\ events' = Tail(events)
    /\ UNCHANGED <<stage, quiescing, keys, members, abandoned, spawns, ctrl>>

\* Nobody to tell: no cluster, not admitted, or a driver with nothing armed.
EventIgnored ==
    /\ events # <<>>
    /\ LET e == Head(events) IN
         /\ TakeEvent(e)
         /\ e.kind # "indexed" \/ members = {}
         /\ members = {} \/ ~Admitted(e) \/ driver.current = NoTxn
         /\ cluster' = IF members # {} /\ Admitted(e) THEN Unfenced(e)
                       ELSE cluster
         /\ UNCHANGED <<phase, pushed, signals, activeWts, attribution,
                        answers, superseded, driver, ra, pulls, stalled,
                        budget, witnessVars>>

\* Diagnostics go into the barrier's window.
EventObserved ==
    /\ events # <<>> /\ members # {}
    /\ LET e == Head(events) IN
         /\ TakeEvent(e)
         /\ e.kind = "diagnostics" /\ Admitted(e) /\ driver.current # NoTxn
         /\ driver' = [driver EXCEPT !.current.real = TRUE,
                                     !.current.err = @ \/ e.err]
         /\ UNCHANGED <<phase, pushed, signals, activeWts, attribution,
                        answers, superseded, cluster, ra, pulls, stalled,
                        budget, witnessVars>>

\* The transaction a terminal event settles, and its native verdict.
Settled(e) == [driver.current EXCEPT
                  !.real = @ \/ e.kind = "failed",
                  !.err = @ \/ e.kind = "failed",
                  !.pullFailed = e.kind = "failed" /\ e.gen # 0]

NativeVerdict(t, p) ==
    IF \/ t.pullFailed \/ ~t.real \/ t.err
       \/ p # None /\ ~cluster.baseline
    THEN "unknown" ELSE "green"

\* EmitVerdict: published here, or left to a witness when the push is
\* escalated.
Emit(t) ==
    LET p == attribution[t.wt]
    IN  IF p \in Escalated
        THEN /\ Begin(p, t.err)
             /\ UNCHANGED <<answers, activeWts, gateQ, slots>>
        ELSE /\ Publish(p, t.wt, NativeVerdict(t, p))
             /\ UNCHANGED <<superseded, witnessVars>>

\* take_push_attribution: a verdict consumes it.
TakeAttribution_bug(w) == attribution

TakeAttribution(w) == [attribution EXCEPT ![w] = None]

\* A terminal event settles the transaction and, in the same step, the
\* next one switches the analyzer over.
EventSettles ==
    /\ events # <<>> /\ members # {} /\ driver.current # NoTxn
    /\ LET e    == Head(events)
           t    == Settled(e)
           next == AfterSettle(driver)
           attr == TakeAttribution(t.wt)
           cl   == [Unfenced(e) EXCEPT !.baseline = FALSE]
       IN  /\ TakeEvent(e)
           /\ Terminal(e) /\ Admitted(e)
           /\ Emit(t) /\ UNCHANGED phase
           /\ driver' = next
           /\ IF next.current = NoTxn
              THEN /\ cluster' = cl /\ attribution' = attr
                   /\ UNCHANGED <<pushed, signals, ra, pulls, stalled, budget>>
              ELSE Switch(next.current.wt, cl, ra, attr)

\* The end of the indexing pass makes the cluster ready; what was deferred
\* is taken (and kept in the field until it is routed).
EventIndexed ==
    /\ events # <<>> /\ members # {}
    /\ TakeEvent(Head(events))
    /\ Head(events).kind = "indexed"
    /\ cluster' = [cluster EXCEPT !.ready = TRUE]
    /\ phase' = IF cluster.deferred = <<>> THEN "lsp" ELSE "deferred"
    /\ UNCHANGED <<pushed, signals, activeWts, attribution, answers,
                   superseded, driver, ra, pulls, stalled, budget,
                   witnessVars>>

\* Worktree by worktree: the first may start, the others queue behind it.
RouteDeferred ==
    /\ phase = "deferred"
    /\ cluster.deferred # <<>>
    /\ RoutedBatch(Head(cluster.deferred), driver,
                   [cluster EXCEPT !.deferred = Tail(@)], ra, attribution)
    /\ phase' = IF Len(cluster.deferred) > 1 THEN "deferred" ELSE "lsp"
    /\ UNCHANGED <<stage, activeWts, quiescing, answers, superseded, keys,
                   members, abandoned, spawns, ctrl, events, witnessVars>>

\* The channel is empty: the loop waits a little and ticks.
RoundEnds ==
    /\ phase = "lsp" /\ events = <<>>
    /\ phase' = "top"
    /\ UNCHANGED <<apiVars, keys, members, driver, cluster, abandoned, raVars,
                   witnessVars>>

\* The tick that ends a round finds a worktree idle: its queued check, of
\* which there is at most one, is pruned; with the last member the cluster
\* goes and its analyzer dies, but the attributions stay.
Deactivate(w) ==
    /\ phase = "top"
    /\ w \in members /\ budget.idles > 0
    /\ PullsOutliveIdle \/ (pulls = {} /\ events = <<>>)
    /\ budget' = [budget EXCEPT !.idles = @ - 1]
    /\ members' = members \ {w}
    /\ IF members = {w}
       THEN /\ driver' = FreshDriver /\ cluster' = FreshCluster
            /\ ra' = [ra EXCEPT !.alive = FALSE]
            /\ abandoned' = abandoned \cup Stranded
       ELSE /\ driver' = [driver EXCEPT
                  !.pending = RemoveFirst(@, w),
                  !.recheck = @ /\ driver.current.wt # w]
            /\ UNCHANGED <<cluster, ra, abandoned>>
    /\ UNCHANGED <<apiVars, phase, keys, spawns, ctrl, events, pulls, stalled,
                   witnessVars>>

LoopStep ==
    \/ ExitDrained \/ Round \/ KeysDone
    \/ \E w \in Worktrees :
         PushKeyRoutes(w) \/ PushKeySpawns(w) \/ PushKeyFails(w)
    \/ EventIgnored \/ EventObserved \/ EventSettles \/ EventIndexed
    \/ RouteDeferred \/ RoundEnds

-----------------------------------------------------------------------------
(* The analyzer, its supervisor and the pull threads.                      *)

\* What a pull hears: the text the analyzer has, or a failure (deadline,
\* cancellations, an end of file from a dead process, no documents).
Report(q, err) == <<[gen |-> q.gen, kind |-> "diagnostics", err |-> err],
                    [gen |-> q.gen, kind |-> "ended", err |-> FALSE]>>

PullReports(q) ==
    /\ ~q.empty /\ ra.alive /\ ra.inc = q.inc
    /\ events' = events \o Report(q, ra.text \in Broken)
    /\ pulls' = pulls \ {q}
    /\ UNCHANGED <<apiVars, loopVars, ra, spawns, ctrl, stalled, budget,
                   witnessVars>>

PullFails(q) ==
    /\ events' = Append(events,
                        [gen |-> q.gen, kind |-> "failed", err |-> TRUE])
    /\ pulls' = pulls \ {q}
    /\ UNCHANGED <<apiVars, loopVars, ra, spawns, ctrl, stalled, budget,
                   witnessVars>>

Pull(q) == PullReports(q) \/ PullFails(q)

\* Diagnostics of the base workspace, the end of a check on save, an early
\* error or the end of indexing.
RaNotifies ==
    /\ ra.alive /\ budget.natives > 0
    /\ budget' = [budget EXCEPT !.natives = @ - 1]
    /\ \E k \in {"diagnostics", "ended", "failed", "indexed"} :
         events' = Append(events, Native(k))
    /\ UNCHANGED <<apiVars, loopVars, ra, spawns, ctrl, pulls, stalled,
                   witnessVars>>

\* A crash, an OOM kill, the memory cap.
RaDies ==
    /\ ra.alive /\ spawns < MaxSpawns
    /\ ra' = [ra EXCEPT !.alive = FALSE]
    /\ UNCHANGED <<apiVars, loopVars, spawns, ctrl, events, pulls, stalled,
                   budget, witnessVars>>

\* The monitor starts the next process; its handshake sends Ctrl::Spawned,
\* or breaks.
RaRespawns ==
    /\ members # {} /\ ~ra.alive /\ spawns < MaxSpawns
    /\ spawns' = spawns + 1
    /\ \E shaken \in BOOLEAN :
         /\ ra' = [inc |-> spawns + 1, alive |-> shaken, text |-> None]
         /\ ctrl' = IF shaken THEN Append(ctrl, spawns + 1) ELSE ctrl
    /\ UNCHANGED <<apiVars, loopVars, events, pulls, stalled, budget,
                   witnessVars>>

Environment == RaNotifies \/ RaDies \/ RequestQuiesce
               \/ \E w \in Worktrees : Deactivate(w)

WitnessStep(p) == Acquire(p) \/ WorkerSends(p) \/ WorkerEnds(p) \/ Watcher(p)

Next ==
    /\ Up
    /\ \/ \E p \in Pushes : Client(p) \/ WitnessStep(p)
       \/ LoopStep
       \/ DispatchGate
       \/ RaRespawns
       \/ \E q \in pulls : Pull(q)
       \/ Environment

Spec == Init /\ [][Next]_vars

(* Fairness: the loop and the HTTP threads are scheduled, a pull has one   *)
(* deadline for its whole transaction, a dead analyzer is respawned, the   *)
(* dispatcher receives, and a watcher waits with a timeout.  Workers get   *)
(* none: a compile may hang.                                               *)
Fairness ==
    /\ WF_vars(Up /\ LoopStep)
    /\ \A p \in Pushes :
         /\ WF_vars(Up /\ (Replace(p) \/ Enqueue(p) \/ Signal(p)
                                      \/ SendGate(p)))
         /\ WF_vars(Up /\ Watcher(p))
    /\ WF_vars(Up /\ \E q \in pulls : Pull(q))
    /\ WF_vars(Up /\ RaRespawns)
    /\ WF_vars(Up /\ DispatchGate)

FairSpec == Spec /\ Fairness

-----------------------------------------------------------------------------
(* Properties.                                                             *)

Verdicts == {"green", "vacuous", "red", "unknown"}
LspEvent == [gen : Nat, kind : {"diagnostics", "ended", "failed", "indexed"},
           err : BOOLEAN]

Transaction == [wt : Worktrees, err : BOOLEAN, real : BOOLEAN,
                pullFailed : BOOLEAN]
Driver == [current : Transaction \cup {NoTxn}, pending : Seq(Worktrees),
           recheck : BOOLEAN]
Cluster == [lsp : Nat, ready : BOOLEAN, deferred : Seq(Worktrees),
            fence : Nat, nextGen : Nat \ {0}, mux : Pushes \cup {None},
            baseline : BOOLEAN]
Analyzer == [inc : Nat, alive : BOOLEAN, text : Pushes \cup {None, Garbled}]
PullOf == [gen : Nat \ {0}, inc : Nat, empty : BOOLEAN]
Watch == [at : {"none", "watching", "dropped", "done"}, err : BOOLEAN,
          got : Verdicts \cup {"nothing"}]
         \cup [at : {"publishing"}, err : BOOLEAN, got : Verdicts]

\* Every variable holds what its field in the code can hold; the queues keep
\* their caps, and no worktree waits twice for one analyzer.
TypeOK ==
    /\ stage \in [Pushes -> {"new", "admitted", "stored", "accepted",
                             "rejected"}]
    /\ pushed \in [Worktrees -> Seq(Pushes)]
    /\ \A w \in Worktrees : Len(pushed[w]) <= QueueCap
    /\ signals \subseteq Worktrees /\ activeWts \subseteq Worktrees
    /\ quiescing \in BOOLEAN
    /\ attribution \in [Worktrees -> Pushes \cup {None}]
    /\ answers \in [Pushes -> Seq(Verdicts)]
    /\ superseded \subseteq Pushes /\ stalled \subseteq Pushes
    /\ abandoned \subseteq Pushes
    /\ phase \in {"top", "keys", "lsp", "deferred", "exited"}
    /\ keys \subseteq Worktrees /\ members \subseteq Worktrees
    /\ driver \in Driver /\ IsInjective(driver.pending)
    /\ cluster \in Cluster /\ IsInjective(cluster.deferred)
    /\ spawns \in Nat /\ ra \in Analyzer /\ ra.inc = spawns
    /\ cluster.lsp <= spawns /\ cluster.fence < cluster.nextGen
    /\ ctrl \in Seq(1..spawns) /\ events \in Seq(LspEvent)
    /\ pulls \subseteq PullOf
    /\ budget \in [natives : Nat, stalls : Nat, idles : Nat]
    /\ gateQ \in Seq(Gates)
    /\ claims \in [{Key(p) : p \in Pushes} -> Pushes \cup {None}]
    /\ worker \in [Pushes -> {"none", "waiting", "running", "sent", "ended"}]
    /\ watcher \in [Pushes -> Watch] /\ slots \in Nat

AnswersTo(p) == {answers[p][i] : i \in DOMAIN answers[p]}

\* A push is published green only if its text compiles, whatever the
\* analyzer, its respawns, late pulls and other pushes do in between; the
\* text whose write to the analyzer failed is the one exception (see
\* NoGreenFromAStall).  The claim of clusterdrv and of correlate_lsp_event.
\* A green that no check and no analyzer stands behind comes of a witness that
\* ran no check only: a push that asked for none gets no vacuous green.
GreenIsEarned ==
    \A p \in Pushes :
        /\ "green" \in AnswersTo(p) /\ p \notin stalled => p \notin Broken
        /\ "vacuous" \in AnswersTo(p) => p \in Gates \cup Escalated

\* A push whose overlay the analyzer never took in full is not published
\* green: native notifications of the base workspace cannot prove it.
NoGreenFromAStall ==
    \A p \in stalled : "green" \in AnswersTo(p) => p \notin Broken

\* A push gets one verdict, never two: the respawn drain, the watchdog, a
\* late worker and the settle of its transaction exclude each other.
AnsweredOnce == \A p \in Pushes : Len(answers[p]) <= 1

Owed(p) == /\ stage[p] \in {"stored", "accepted"}
           /\ answers[p] = <<>> /\ p \notin superseded

\* An accepted push without a verdict is still somewhere the daemon could
\* answer it from: queued, attributed to the transaction in flight, or with
\* its witness.  Only an idle teardown in the middle of its analysis may leave
\* it to the next handshake, or lose it.
NothingVanishes ==
    \A p \in Pushes : Owed(p) =>
        \/ Contains(pushed[WtOf[p]], p)
        \/ attribution[WtOf[p]] = p
        \/ Contains(gateQ, p)
        \/ watcher[p].at \in {"watching", "publishing"}
        \/ p \in abandoned

\* A drained exit forgets an accepted push only when another push of the
\* same worktree key cleared the one active mark the two share.
DrainForgetsOnlySharedKeys ==
    phase = "exited" =>
        \A p \in Pushes : Owed(p) =>
            \E q \in Pushes \ {p} : WtOf[q] = WtOf[p] /\ stage[q] # "new"

\* The gate's counter is the number of compiles that run, never above its
\* limit, whatever the watchdog gave up on.
SlotsAreCompiles ==
    WitnessLimit > 0 =>
        /\ slots = Cardinality({p \in Pushes : worker[p] \in {"running", "sent"}})
        /\ slots <= WitnessLimit

Undisturbed == /\ spawns = 0 \/ (spawns = 1 /\ ra.alive)
               /\ budget.idles = MaxIdles /\ Up

\* An accepted push gets a verdict, or is superseded, unless the analyzer
\* dies, a worktree is deactivated or the daemon exits meanwhile.
EveryPushAnswered ==
    \A p \in Pushes : Owed(p) ~> (~Owed(p) \/ ~Undisturbed)

=============================================================================
