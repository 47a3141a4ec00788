------------------------------ MODULE AppServe ------------------------------
(***************************************************************************)
(* The app-serve daemon: the control thread of appserve.rs drives the      *)
(* lifecycle of App, one event at a time, and executes its orders one by   *)
(* one (appdrv.rs); build, probe, poll and stop threads report over one    *)
(* FIFO channel.  Bundles and the state file outlive a restart of the pod, *)
(* nothing else does.                                                      *)
(*                                                                         *)
(* Not here: the SIGHUP reload, the TTL (an expiry is a removal), changes  *)
(* of a preview's ref, the proxy, the last post of a poller being stopped, *)
(* children that exit by themselves (the daemon does not observe them).    *)
(***************************************************************************)
EXTENDS App

CONSTANTS Static,           \* the instances of the file; the others are previews
          Later,            \* the commits a head at this one may move to
          PortEnd,          \* --port-range is 1..PortEnd
          MaxEvents         \* BOUND: how often, all together, a head moves, a
                            \* build, spawn or probe fails, a preview is added
                            \* or removed and the pod restarts: MaxEvents[k]
                            \* once k instances lived together

ASSUME StaticAssumption == Static \subseteq Name
ASSUME LaterAssumption == Later \in [Sha -> SUBSET Sha]
ASSUME PortAssumption == PortEnd \in Nat \ {0}
ASSUME EventsAssumption == MaxEvents \in [1..Cardinality(Name) -> Nat]
\* None is neither a drive nor an upstream.
ASSUME HandAssumption == None \notin [name : Name, todo : Seq(Order)] \cup [port : Nat, gen : Nat]

VARIABLES
  (* the control thread                                                   *)
  app,
  hand,                     \* the drive under way: its orders left, or None
  agenda,                   \* drives that precede the next event
  kids,                     \* Runtime::children, of all instances
  slot,                     \* the upstream of each proxy
  ports,                    \* PortAllocator
  (* the channel and the other threads                                    *)
  chan,
  builders, probes, stoppers,
  seen,                     \* the last head each poller posted
  (* the system around them                                               *)
  procs,                    \* child processes
  head,                     \* the commit of each ref
  disk,                     \* bundles of each instance, oldest first
  file,                     \* last_green in the state file
  registry,                 \* previews to restore
  events                    \* what is left of MaxEvents

control == <<app, hand, agenda, kids, slot, ports>>
threads == <<builders, probes, stoppers>>
durable == <<disk, file, registry>>
vars == <<control, chan, threads, seen, procs, head, durable, events>>

Live == DOMAIN app.inst
Bounded == events > 0 /\ events' = events - 1
Least(a, b) == IF a < b THEN a ELSE b

Elems(s) == {s[k] : k \in DOMAIN s}
Message(n, ev) == [name |-> n, ev |-> ev]
Post(n, ev) == chan' = Append(chan, Message(n, ev))
ByGen(set, g) == {x \in set : x.gen = g}
Gens(set) == {x.gen : x \in set}

\* The element of rank k of a set of numbers.
Nth(I, k) == CHOOSE i \in I : Cardinality({j \in I : j <= i}) = k

\* Runtime::children of an instance, and one of them.
KidsOf(n) == {k \in kids : k.name = n}
Tracked(n, g) == ByGen(KidsOf(n), g)

-----------------------------------------------------------------------------
(* Ports: recycled ones first, the last released before the others.        *)

FreshPorts == [free |-> <<>>, next |-> 1]
HasPort(p) == p.free # <<>> \/ p.next <= PortEnd
NextPort(p) == IF p.free # <<>> THEN p.free[Len(p.free)] ELSE p.next
Alloc(p) == IF p.free # <<>> THEN [p EXCEPT !.free = SubSeq(@, 1, Len(@) - 1)]
            ELSE [p EXCEPT !.next = @ + 1]
Release_bug(p, port) == p
Release(p, port) == IF port \in Elems(p.free) THEN p ELSE [p EXCEPT !.free = Append(@, port)]

\* The ports of a set of children, by generation.
ReleaseAll(p, set) ==
  LET new == {k \in set : /\ k.port \notin Elems(p.free)
                          /\ \A j \in set : j.port = k.port => k.gen <= j.gen}
      Of(g) == (CHOOSE k \in new : k.gen = g).port
  IN [p EXCEPT !.free = @ \o [k \in 1..Cardinality(new) |-> Of(Nth(Gens(new), k))]]

-----------------------------------------------------------------------------
(* Bundles.                                                                *)

\* harvest reuses the bundle of an earlier green.
Harvest(bundles, sha) == IF sha \in Elems(bundles) THEN bundles ELSE Append(bundles, sha)

\* Without the commits of the tracked children.
Protected_bug(s, n) ==
  LET i == s.inst[n]
  IN (IF i.serving = None THEN {} ELSE {i.serving.sha}) \cup {i.lastGreen}
     \cup (IF i.pipe = Idle THEN {} ELSE {i.pipe.sha})

Protected(s, n) ==
  LET i == s.inst[n]
  IN (IF i.serving = None THEN {} ELSE {i.serving.sha}) \cup {i.lastGreen}
     \cup (IF i.pipe = Idle THEN {} ELSE {i.pipe.sha})
     \cup {k.sha : k \in KidsOf(n)}

\* prune_bundles: of what is not protected, the newest extra ones stay.
Prune(bundles, protected, extra) ==
  LET Newer(j) == {k \in DOMAIN bundles : k > j /\ bundles[k] \notin protected}
      Kept == {j \in DOMAIN bundles : bundles[j] \in protected \/ Cardinality(Newer(j)) < extra}
  IN [k \in 1..Cardinality(Kept) |-> bundles[Nth(Kept, k)]]

\* A build in flight may be harvesting, unless it is the one just finished.
PressurePrune(n) ==
  [m \in Name |-> IF m \notin Live \/ (m # n /\ app.inst[m].pipe.at = "building") THEN disk[m]
                  ELSE Prune(disk[m], Protected(app, m), 0)]

-----------------------------------------------------------------------------
(* At boot the last green whose bundle is still there is served again     *)
(* before anything else; a restored preview then builds its head.          *)
Recoverable(n) == file[n] # None /\ file[n] \in Elems(disk[n])
Resolve == [type |-> "Resolve"]
Restored(n) == IF Recoverable(n) THEN [type |-> "RecoverFromPointer", sha |-> file[n]] ELSE Resolve

\* The names in the order of the configuration, whichever it is.
Listed(S) == CHOOSE f \in [1..Cardinality(S) -> S] : \A n \in S : \E k \in DOMAIN f : f[k] = n
Boot == LET names == Listed({n \in Static : Recoverable(n)}) \o Listed(registry)
        IN [k \in DOMAIN names |-> Message(names[k], Restored(names[k]))]

Init == /\ disk = [n \in Name |-> <<>>] /\ file = [n \in Name |-> None]
        /\ registry \in SUBSET (Name \ Static)
        /\ app = NewApp(Static \cup registry)
        /\ hand = None /\ agenda = Boot
        /\ kids = {} /\ slot = [n \in Name |-> None] /\ ports = FreshPorts
        /\ chan = <<>>
        /\ builders = {} /\ probes = {} /\ stoppers = {}
        /\ seen = [n \in Name |-> None]
        /\ procs = {}
        /\ head \in [Name -> Sha]
        /\ events = MaxEvents[Cardinality(Live)]

(* The control thread. *)

\* Driver::drive: the orders are executed next, then the state is persisted.
Drive(n, ev) == LET s == StepApp(app, n, ev)
                IN app' = [s EXCEPT !.out = <<>>] /\ hand' = [name |-> n, todo |-> s.out]

At(act) == hand # None /\ hand.todo # <<>> /\ Head(hand.todo).act \in act
Done == hand' = [hand EXCEPT !.todo = Tail(@)]

StartBuild ==
  /\ At({"StartBuild"}) /\ Done
  /\ LET o == Head(hand.todo)
     IN builders' = builders \cup {[name |-> o.name, gen |-> o.gen, sha |-> o.sha]}
  /\ UNCHANGED <<app, agenda, kids, slot, ports, chan, probes, stoppers, seen, procs, head,
                 durable, events>>

ProbeFailed(g) == [type |-> "ProbeFailed", gen |-> g]

SpawnAndProbe ==
  /\ At({"SpawnAndProbe", "Respawn"}) /\ Done
  /\ HasPort(ports)
  /\ LET o == Head(hand.todo)
         child == [name |-> o.name, gen |-> o.gen, sha |-> o.sha, port |-> NextPort(ports)]
     IN /\ kids' = kids \cup {child}
        /\ procs' = procs \cup {[name |-> o.name, gen |-> o.gen, sha |-> o.sha,
                                 port |-> child.port, up |-> FALSE]}
        /\ probes' = probes \cup {[name |-> o.name, gen |-> o.gen, port |-> child.port]}
  /\ ports' = Alloc(ports)
  /\ UNCHANGED <<app, agenda, slot, chan, builders, stoppers, seen, head, durable, events>>

CannotSpawn_bug ==
  /\ At({"SpawnAndProbe", "Respawn"}) /\ Done
  /\ ~HasPort(ports)
  /\ UNCHANGED <<app, agenda, kids, slot, ports, chan, threads, seen, procs, head, durable, events>>

\* No port is free, or the port is taken and given back: the release comes
\* last, so the same port is handed out next.
CannotSpawn ==
  /\ At({"SpawnAndProbe", "Respawn"}) /\ Done
  /\ \/ ~HasPort(ports) /\ UNCHANGED <<ports, events>>
     \/ HasPort(ports) /\ Bounded /\ ports' = Release(Alloc(ports), NextPort(ports))
  /\ Post(Head(hand.todo).name, ProbeFailed(Head(hand.todo).gen))
  /\ UNCHANGED <<app, agenda, kids, slot, threads, seen, procs, head, durable>>

Promote ==
  /\ At({"Promote"}) /\ Done
  /\ LET o == Head(hand.todo)
         now == {[port |-> k.port, gen |-> k.gen] : k \in Tracked(o.name, o.gen)}
     IN /\ slot' = [slot EXCEPT ![o.name] = IF now = {} THEN @ ELSE CHOOSE u \in now : TRUE]
        /\ disk' = [disk EXCEPT ![o.name] = Prune(@, Protected(app, o.name), 1)]
  /\ UNCHANGED <<app, agenda, kids, ports, chan, threads, seen, procs, head, file, registry, events>>

\* A stop thread that finds its child already taken does nothing.
Stop(set, drain) ==
  stoppers' = stoppers \cup {[name |-> k.name, gen |-> k.gen, drain |-> drain] :
                               k \in {x \in set : ByGen(stoppers, x.gen) = {}}}

StartDrain ==
  /\ At({"StartDrain"}) /\ Done
  /\ LET o == Head(hand.todo) IN Stop(Tracked(o.name, o.gen), TRUE)
  /\ UNCHANGED <<app, agenda, kids, slot, ports, chan, builders, probes, seen, procs, head,
                 durable, events>>

KillStandby ==
  /\ At({"KillStandby"}) /\ Done
  /\ LET o == Head(hand.todo)
         killed == Tracked(o.name, o.gen)
     IN /\ kids' = kids \ killed
        /\ Stop(killed, FALSE)
        /\ ports' = ReleaseAll(ports, killed)
  /\ UNCHANGED <<app, agenda, slot, chan, builders, probes, seen, procs, head, durable, events>>

RecordRedOrder ==
  /\ At({"RecordRed"}) /\ Done
  /\ UNCHANGED <<app, agenda, kids, slot, ports, chan, threads, seen, procs, head, durable, events>>

Persist ==
  /\ hand # None /\ hand.todo = <<>>
  /\ hand' = None
  /\ file' = IF hand.name \in Live THEN [file EXCEPT ![hand.name] = app.inst[hand.name].lastGreen]
             ELSE file
  /\ UNCHANGED <<app, agenda, kids, slot, ports, chan, threads, seen, procs, head, disk, registry,
                 events>>

\* Recovery at boot, and the first build of a preview, precede any event.
FromAgenda ==
  /\ hand = None /\ agenda # <<>>
  /\ LET n == Head(agenda).name
         first == Head(agenda).ev
     IN IF first.type = "Resolve"
        THEN Drive(n, [type |-> "HeadAdvanced", sha |-> head[n]]) /\ agenda' = Tail(agenda)
        ELSE /\ Drive(n, first)
             /\ agenda' = (IF n \in Static THEN <<>> ELSE <<Message(n, Resolve)>>) \o Tail(agenda)
  /\ UNCHANGED <<kids, slot, ports, chan, threads, seen, procs, head, durable, events>>

Ready == hand = None /\ agenda = <<>>

TakeEvent ==
  /\ Ready /\ chan # <<>>
  /\ LET n == Head(chan).name
         ev == Head(chan).ev
         drained == IF ev.type = "DrainComplete" THEN Tracked(n, ev.gen) ELSE {}
         full == ev.type = "BuildFinished" /\ ev.outcome = "enospc"
     IN /\ kids' = kids \ drained
        /\ ports' = ReleaseAll(ports, drained)
        /\ disk' = IF full THEN PressurePrune(n) ELSE disk
        /\ Drive(n, ev)
  /\ chan' = Tail(chan)
  /\ UNCHANGED <<agenda, slot, threads, seen, procs, head, file, registry, events>>

AddPreview(n) ==
  /\ Ready /\ n \notin Live /\ events > 0
  /\ events' = Least(events, MaxEvents[Cardinality(Live) + 1]) - 1
  /\ app' = AddInstance(app, n)
  /\ seen' = [seen EXCEPT ![n] = None]
  /\ registry' = registry \cup {n}
  /\ agenda' = <<Message(n, Resolve)>>
  /\ UNCHANGED <<hand, kids, slot, ports, chan, threads, procs, head, disk, file>>

\* DELETE /instances or the end of the TTL.
RemovePreview(n) ==
  LET mine == KidsOf(n)
  IN /\ Ready /\ n \in Live \ Static /\ Bounded
     /\ app' = RemoveInstance(app, n)
     /\ kids' = kids \ mine
     /\ Stop(mine, FALSE)
     /\ ports' = ReleaseAll(ports, mine)
     /\ slot' = [slot EXCEPT ![n] = None]
     /\ disk' = [disk EXCEPT ![n] = <<>>]
     /\ registry' = registry \ {n}
     /\ UNCHANGED <<hand, agenda, chan, builders, probes, seen, procs, head, file>>

-----------------------------------------------------------------------------
(* The other threads.                                                      *)

BuildEnds(b, outcome) ==
  /\ b \in builders
  /\ builders' = builders \ {b}
  /\ disk' = IF outcome = "green" THEN [disk EXCEPT ![b.name] = Harvest(@, b.sha)] ELSE disk
  /\ Post(b.name, [type |-> "BuildFinished", gen |-> b.gen, outcome |-> outcome])
  /\ IF outcome = "green" THEN UNCHANGED events ELSE Bounded
  /\ UNCHANGED <<control, probes, stoppers, seen, procs, head, file, registry>>

\* The child binds its port, or exits when another process has it.
Bind(p) ==
  /\ p \in procs /\ ~p.up
  /\ procs' = (procs \ {p}) \cup
       IF \E q \in procs : q.up /\ q.port = p.port THEN {} ELSE {[p EXCEPT !.up = TRUE]}
  /\ UNCHANGED <<control, chan, threads, seen, head, durable, events>>

\* A probe asks the port, whoever listens there.
ProbeEnds(b) ==
  /\ b \in probes
  /\ probes' = probes \ {b}
  /\ \/ /\ \E p \in procs : p.up /\ p.port = b.port
        /\ Post(b.name, [type |-> "ProbeSucceeded", gen |-> b.gen])
        /\ UNCHANGED events
     \/ Bounded /\ Post(b.name, ProbeFailed(b.gen))
     \/ /\ ~\E p \in procs : p.port = b.port       \* the budget runs out
        /\ Post(b.name, ProbeFailed(b.gen)) /\ UNCHANGED events
  /\ UNCHANGED <<control, builders, stoppers, seen, procs, head, durable>>

StopEnds(t) ==
  /\ t \in stoppers
  /\ stoppers' = stoppers \ {t}
  /\ procs' = procs \ ByGen(procs, t.gen)
  /\ IF t.drain THEN Post(t.name, [type |-> "DrainComplete", gen |-> t.gen]) ELSE UNCHANGED chan
  /\ UNCHANGED <<control, builders, probes, seen, head, durable, events>>

Poll(n) ==
  /\ n \in Live /\ seen[n] # head[n]
  /\ seen' = [seen EXCEPT ![n] = head[n]]
  /\ Post(n, [type |-> "HeadAdvanced", sha |-> head[n]])
  /\ UNCHANGED <<control, threads, procs, head, durable, events>>

Push(n, sha) ==
  /\ sha \in Later[head[n]] \ {head[n]} /\ Bounded
  /\ head' = [head EXCEPT ![n] = sha]
  /\ UNCHANGED <<control, chan, threads, seen, procs, durable>>

\* The pod restarts: the daemon and its children die at any point.
Restart ==
  /\ Bounded
  /\ app' = NewApp(Static \cup registry)
  /\ hand' = None
  /\ agenda' = Boot
  /\ kids' = {} /\ slot' = [n \in Name |-> None] /\ ports' = FreshPorts
  /\ chan' = <<>>
  /\ builders' = {} /\ probes' = {} /\ stoppers' = {}
  /\ seen' = [n \in Name |-> None]
  /\ procs' = {}
  /\ UNCHANGED <<head, durable>>

Control == \/ StartBuild \/ SpawnAndProbe \/ CannotSpawn \/ Promote \/ StartDrain \/ KillStandby
           \/ RecordRedOrder \/ Persist \/ FromAgenda \/ TakeEvent
Next == \/ Control
        \/ \E n \in Name : AddPreview(n) \/ RemovePreview(n) \/ Poll(n)
        \/ \E b \in builders, outcome \in BuildOutcome : BuildEnds(b, outcome)
        \/ \E p \in procs : Bind(p)
        \/ \E b \in probes : ProbeEnds(b)
        \/ \E t \in stoppers : StopEnds(t)
        \/ \E n \in Name, sha \in Sha : Push(n, sha)
        \/ Restart

Spec == Init /\ [][Next]_vars

\* Every thread of the daemon goes on.  Bad luck is bounded, not fair.
Fair == /\ WF_vars(Control)
        /\ \A n \in Name : WF_vars(Poll(n))
        /\ WF_vars(\E b \in builders, outcome \in BuildOutcome : BuildEnds(b, outcome))
        /\ WF_vars(\E p \in procs : Bind(p))
        /\ WF_vars(\E b \in probes : ProbeEnds(b))
        /\ WF_vars(\E t \in stoppers : StopEnds(t))
FairSpec == Spec /\ Fair

-----------------------------------------------------------------------------
ServingGen(i) == IF i.serving = None THEN {} ELSE {i.serving.gen}

\* The state has its type.
TypeOK ==
  /\ \A n \in Live : n \in Name /\ app.inst[n] \in Instance
  /\ kids \subseteq [name : Live, gen : Nat, sha : Sha, port : 1..PortEnd]
  /\ \A n \in Name : disk[n] \in Seq(Sha) /\ file[n] \in Sha \cup {None}
  /\ registry \subseteq Name \ Static
  /\ ports.next \in 1..PortEnd + 1 /\ ports.free \in Seq(1..PortEnd)

(* Between two events the driver and the state machine agree on the        *)
(* children: the driver tracks the one that serves, the one that boots and *)
(* those that drain, no others, so no child is forgotten with its port and *)
(* none is stopped under the proxy; the proxy points at the one that       *)
(* serves.                                                                 *)
ChildrenMatch ==
  hand = None =>
    \A n \in Live :
      LET i == app.inst[n]
          held == ServingGen(i) \cup i.draining
          boots == IF i.pipe.at = "probing" THEN {i.pipe.gen} ELSE {}
      IN /\ held \subseteq Gens(KidsOf(n)) /\ Gens(KidsOf(n)) \subseteq held \cup boots
         /\ IF i.serving = None THEN slot[n] = None
            ELSE \E k \in KidsOf(n) : /\ k.gen = i.serving.gen /\ k.sha = i.serving.sha
                                      /\ slot[n] = [port |-> k.port, gen |-> k.gen]

(* No port is lost and none is given twice, whichever way a child ends     *)
(* (drained, killed, removed with its preview, never spawned): a port once *)
(* handed out is on the free list, once, or held by one tracked child.     *)
PortsAccounted ==
  LET held == {k.port : k \in kids}
  IN /\ Elems(ports.free) \cup held = 1..ports.next - 1
     /\ Len(ports.free) + Cardinality(kids) = ports.next - 1

(* No prune deletes the bundle a tracked child runs from or boots from, be *)
(* it serving, probed or draining, nor that of the last green, which a     *)
(* respawn would start (the doc of protected_shas).                        *)
BundlesOutliveTheirUsers ==
  /\ \A k \in kids : k.sha \in Elems(disk[k.name])
  /\ \A n \in Live : app.inst[n].lastGreen \in Elems(disk[n]) \cup {None}

(* The bundle the state file names, from which a restart would serve, goes *)
(* in no step but a promotion of the instance, whose own Persist is next:  *)
(* no pressure prune, failed build or other instance takes it.             *)
RecoveryStays ==
  [][\A n \in Static :
       /\ file[n] \in Elems(disk[n]) /\ file[n] \notin Elems(disk'[n])
       => At({"Promote"}) /\ hand.name = n]_vars

(* No instance waits for an answer nobody will give: while its pipeline is *)
(* busy the order, the thread or its message in the channel exists.        *)
Awaited(n, g, act, workers, types) ==
  \/ g \in Gens({b \in workers : b.name = n})
  \/ \E m \in Elems(chan) : m.name = n /\ m.ev.type \in types /\ m.ev.gen = g
  \/ hand # None /\ \E o \in Elems(hand.todo) : o.act \in act /\ o.name = n /\ o.gen = g
NothingIsLost ==
  \A n \in Live :
    LET p == app.inst[n].pipe
    IN /\ p.at = "building" => Awaited(n, p.gen, {"StartBuild"}, builders, {"BuildFinished"})
       /\ p.at = "probing" => Awaited(n, p.gen, {"SpawnAndProbe", "Respawn"}, probes,
                                      {"ProbeSucceeded", "ProbeFailed"})

(* Once nothing disturbs it the daemon comes to rest with a verdict: every *)
(* instance serves or has recorded a red, nothing is in hand, pending or   *)
(* draining, whatever failed, restarted or was removed before.  The        *)
(* exception is an instance that a removal left waiting beside a free      *)
(* slot: remove_instance gives the slot back without a dispatch.           *)
Waits(n) == n \in Elems(app.queue)
LeftWaiting(n) == Waits(n) /\ Cardinality(app.building) < MaxConcurrent
AtRest(i) == /\ i.pipe = Idle /\ i.pending = None /\ i.draining = {} /\ ~i.needsRespawn
             /\ i.serving # None \/ i.lastRed # None
ComesToRest == <>[](\A n \in Live : AtRest(app.inst[n]) \/ LeftWaiting(n))

=============================================================================
