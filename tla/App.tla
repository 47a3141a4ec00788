-------------------------------- MODULE App --------------------------------
(***************************************************************************)
(* The lifecycle of the app-serve instances: cargoless-core/src/appstate.rs*)
(*                                                                         *)
(* The code is a pure machine: an event of one instance changes the state  *)
(* of all of them and returns orders for the driver.  Here the state is a  *)
(* record, every handler is an operator from states to states, and the     *)
(* orders of the last step are its field out.  AppMachine feeds it every   *)
(* sequence of events, AppServe those the daemon produces.                 *)
(*                                                                         *)
(* X_bug is X with a slip a change to the code could make; no definition   *)
(* uses it.  Abstracted: the reason and the files of a red (both only      *)
(* reported), the order of the draining children.                          *)
(***************************************************************************)
EXTENDS Integers, Sequences, FiniteSets

CONSTANTS Name,             \* instances: one per served ref
          Sha,              \* commits
          None,             \* no commit, or no child
          MaxConcurrent     \* build slots

ASSUME SlotAssumption == MaxConcurrent \in Nat \ {0} /\ IsFiniteSet(Name)

IndeterminateCap == 1
EnospcCap == 2              \* ENOSPC_RETRY_CAP
RespawnCap == 2             \* RESPAWN_RETRY_CAP

Child == [sha : Sha, gen : Nat]
ASSUME NoneAssumption == None \notin Sha \cup Child

Pipeline == [at : {"idle"}]
            \cup [at : {"queued"}, sha : Sha]
            \cup [at : {"building"}, sha : Sha, gen : Nat]
            \cup [at : {"probing"}, sha : Sha, gen : Nat, respawn : BOOLEAN]

Instance == [serving : Child \cup {None},
             pipe : Pipeline,
             pending : Sha \cup {None},
             lastRed : Sha \cup {None},
             lastGreen : Sha \cup {None},
             draining : SUBSET Nat,
             needsRespawn : BOOLEAN,
             indeterminate : 0..IndeterminateCap,
             enospc : 0..EnospcCap,
             respawns : 0..RespawnCap]

Order == [act : {"StartBuild", "SpawnAndProbe", "Respawn", "Promote"},
          name : Name, sha : Sha, gen : Nat]
         \cup [act : {"StartDrain", "KillStandby"}, name : Name, gen : Nat]
         \cup [act : {"RecordRed"}, name : Name, sha : Sha]

AppState == [inst : UNION {[N -> Instance] : N \in SUBSET Name},
             queue : Seq(Name),
             building : SUBSET Name,
             gen : Nat,               \* next_generation
             out : Seq(Order)]

Idle == [at |-> "idle"]
Queued(sha) == [at |-> "queued", sha |-> sha]
Building(sha, g) == [at |-> "building", sha |-> sha, gen |-> g]
Probing(sha, g, r) == [at |-> "probing", sha |-> sha, gen |-> g, respawn |-> r]

NewInstance == [serving |-> None, pipe |-> Idle, pending |-> None, lastRed |-> None,
                lastGreen |-> None, draining |-> {}, needsRespawn |-> FALSE,
                indeterminate |-> 0, enospc |-> 0, respawns |-> 0]
NewApp(names) == [inst |-> [n \in names |-> NewInstance], queue |-> <<>>,
                  building |-> {}, gen |-> 1, out |-> <<>>]

Emit(s, order) == [s EXCEPT !.out = Append(@, order)]
SetPipe(s, n, p) == [s EXCEPT !.inst[n].pipe = p]
\* An instance waits at most once.
Leave(q, n) ==
  IF \A k \in 1..Len(q) : q[k] # n THEN q
  ELSE [k \in 1..(Len(q) - 1) |-> IF \E j \in 1..k : q[j] = n THEN q[k + 1] ELSE q[k]]

-----------------------------------------------------------------------------
(* The build queue.                                                        *)

Serves(i, sha) == i.serving # None /\ i.serving.sha = sha

\* All callers have just found or made the pipeline idle.
RequestBuild(s, n, sha) ==
  LET i == s.inst[n]
  IN IF Serves(i, sha) \/ i.lastRed = sha \/ i.pipe # Idle THEN s
     ELSE [SetPipe(s, n, Queued(sha)) EXCEPT !.queue = Append(@, n)]

\* Free slots go to the longest waiting instances, the first Starting(s).
Free(s) == MaxConcurrent - Cardinality(s.building)
Starting(s) == IF Len(s.queue) < Free(s) THEN Len(s.queue) ELSE Free(s)
Starts(s, n) == \E j \in 1..Starting(s) : s.queue[j] = n

\* The first of them gets the first generation.
Launched(s, n) ==
  LET j == CHOOSE j \in 1..Starting(s) : s.queue[j] = n
  IN [s.inst[n] EXCEPT !.pipe = Building(s.inst[n].pipe.sha, s.gen + j - 1)]
Launch(s) ==
  [j \in 1..Starting(s) |-> [act |-> "StartBuild", name |-> s.queue[j],
                             sha |-> s.inst[s.queue[j]].pipe.sha, gen |-> s.gen + j - 1]]

Dispatch(s) ==
  [s EXCEPT
     !.inst = [n \in DOMAIN s.inst |-> IF Starts(s, n) THEN Launched(s, n) ELSE s.inst[n]],
     !.building = s.building \cup {s.queue[j] : j \in 1..Starting(s)},
     !.queue = SubSeq(s.queue, Starting(s) + 1, Len(s.queue)),
     !.gen = s.gen + Starting(s),
     !.out = s.out \o Launch(s)]

-----------------------------------------------------------------------------
(* Settling an idle pipeline.                                              *)

OwesRespawn(i) == i.pipe = Idle /\ i.serving = None /\ i.needsRespawn /\ i.lastGreen # None

TryRespawn(s, n) ==
  LET i == s.inst[n]
      probing == [i EXCEPT !.needsRespawn = FALSE, !.pipe = Probing(i.lastGreen, s.gen, TRUE)]
  IN IF ~OwesRespawn(i) THEN s
     ELSE Emit([s EXCEPT !.inst[n] = probing, !.gen = @ + 1],
               [act |-> "Respawn", name |-> n, sha |-> i.lastGreen, gen |-> s.gen])

SettleIdle_bug(s, n) ==
  LET t == TryRespawn(s, n)
      i == t.inst[n]
  IN IF i.pipe = Idle /\ i.pending # None /\ i.serving # None
     THEN RequestBuild([t EXCEPT !.inst[n].pending = None], n, i.pending)
     ELSE t

\* Serving again beats building; what is pending stays so until it is free.
SettleIdle(s, n) ==
  LET t == TryRespawn(s, n)
      i == t.inst[n]
  IN IF i.pipe = Idle /\ i.pending # None
     THEN RequestBuild([t EXCEPT !.inst[n].pending = None], n, i.pending)
     ELSE t

RecordRed(s, n, sha) ==
  Emit([s EXCEPT !.inst[n].lastRed = sha], [act |-> "RecordRed", name |-> n, sha |-> sha])

-----------------------------------------------------------------------------
(* Events.                                                                 *)

OnHead(s, n, sha) ==
  LET p == s.inst[n].pipe
  IN CASE p.at = "idle" -> Dispatch(RequestBuild(s, n, sha))
       [] p.at = "queued" -> SetPipe(s, n, Queued(sha))
       [] p.at \in {"building", "probing"} ->
            IF p.sha = sha THEN s ELSE [s EXCEPT !.inst[n].pending = sha]

\* The build again of what is pending, or of the same commit.
Requeue(s, n, sha) ==
  LET next == s.inst[n].pending
  IN RequestBuild([s EXCEPT !.inst[n].pending = None], n, IF next = None THEN sha ELSE next)

OnGreen(s, n, sha, g) ==
  Emit([s EXCEPT !.inst[n].indeterminate = 0, !.inst[n].enospc = 0,
                 !.inst[n].pipe = Probing(sha, g, FALSE)],
       [act |-> "SpawnAndProbe", name |-> n, sha |-> sha, gen |-> g])

OnEnospc(s, n, sha) ==
  LET t == [s EXCEPT !.inst[n].indeterminate = 0, !.inst[n].pipe = Idle]
  IN IF s.inst[n].enospc >= EnospcCap
     THEN SettleIdle(RecordRed([t EXCEPT !.inst[n].enospc = 0], n, sha), n)
     ELSE Requeue([t EXCEPT !.inst[n].enospc = @ + 1], n, sha)

OnRed(s, n, sha) ==
  SettleIdle(RecordRed([s EXCEPT !.inst[n].indeterminate = 0, !.inst[n].enospc = 0,
                                 !.inst[n].pipe = Idle], n, sha), n)

\* A waiting newer commit does not reset the streak.
OnIndeterminate_bug(s, n, sha) ==
  LET t == SetPipe(s, n, Idle)
      i == s.inst[n]
  IN IF i.indeterminate >= IndeterminateCap /\ i.pending = None
     THEN SettleIdle(RecordRed([t EXCEPT !.inst[n].indeterminate = 0], n, sha), n)
     ELSE Requeue([t EXCEPT !.inst[n].indeterminate = 1], n, sha)

OnIndeterminate(s, n, sha) ==
  LET t == SetPipe(s, n, Idle)
  IN IF s.inst[n].indeterminate >= IndeterminateCap
     THEN SettleIdle(RecordRed([t EXCEPT !.inst[n].indeterminate = 0], n, sha), n)
     ELSE Requeue([t EXCEPT !.inst[n].indeterminate = @ + 1], n, sha)

BuildOutcome == {"green", "red", "enospc", "indeterminate"}

\* A result of an attempt the pipeline has moved past is discarded.
Awaits_bug(s, n, at, g) == s.inst[n].pipe.at = at /\ g <= s.inst[n].pipe.gen
Awaits(s, n, at, g) == s.inst[n].pipe.at = at /\ s.inst[n].pipe.gen = g

OnBuildFinished(s, n, g, outcome) ==
  LET sha == s.inst[n].pipe.sha
      t == [s EXCEPT !.building = @ \ {n}]
  IN IF ~Awaits(s, n, "building", g) THEN s
     ELSE Dispatch(CASE outcome = "green" -> OnGreen(t, n, sha, g)
                     [] outcome = "red" -> OnRed(t, n, sha)
                     [] outcome = "enospc" -> OnEnospc(t, n, sha)
                     [] outcome = "indeterminate" -> OnIndeterminate(t, n, sha))

Promoted_bug(s, n) ==
  LET p == s.inst[n].pipe
      now == [sha |-> p.sha, gen |-> p.gen]
  IN Emit([s EXCEPT !.inst[n].serving = now, !.inst[n].lastGreen = now.sha,
                    !.inst[n].pipe = Idle, !.inst[n].needsRespawn = FALSE,
                    !.inst[n].respawns = 0],
          [act |-> "Promote", name |-> n, sha |-> now.sha, gen |-> now.gen])

\* The only place a child starts to serve.
Promoted(s, n) ==
  LET i == s.inst[n]
      old == i.serving
      now == [sha |-> i.pipe.sha, gen |-> i.pipe.gen]
      t == Emit([s EXCEPT !.inst[n] =
                   [i EXCEPT !.serving = now, !.lastGreen = now.sha, !.pipe = Idle,
                             !.needsRespawn = FALSE, !.respawns = 0,
                             !.draining = i.draining \cup IF old = None THEN {} ELSE {old.gen}]],
                [act |-> "Promote", name |-> n, sha |-> now.sha, gen |-> now.gen])
  IN IF old = None THEN t ELSE Emit(t, [act |-> "StartDrain", name |-> n, gen |-> old.gen])

OnProbeSucceeded(s, n, g) ==
  IF Awaits(s, n, "probing", g) THEN Dispatch(SettleIdle(Promoted(s, n), n)) ELSE s

\* A failed respawn is not held against the commit until the cap.
ProbeRed(s, n, sha, respawn) ==
  IF respawn /\ s.inst[n].respawns < RespawnCap
  THEN [s EXCEPT !.inst[n].respawns = @ + 1, !.inst[n].needsRespawn = TRUE]
  ELSE RecordRed([s EXCEPT !.inst[n].respawns = IF respawn THEN 0 ELSE @], n, sha)

OnProbeFailed_bug(s, n, g) ==
  LET p == s.inst[n].pipe
      killed == Emit(SetPipe(s, n, Idle), [act |-> "KillStandby", name |-> n, gen |-> g])
  IN IF Awaits(s, n, "probing", g)
     THEN SettleIdle(ProbeRed(killed, n, p.sha, p.respawn), n) ELSE s

OnProbeFailed(s, n, g) ==
  LET p == s.inst[n].pipe
      killed == Emit(SetPipe(s, n, Idle), [act |-> "KillStandby", name |-> n, gen |-> g])
  IN IF Awaits(s, n, "probing", g)
     THEN Dispatch(SettleIdle(ProbeRed(killed, n, p.sha, p.respawn), n)) ELSE s

OnServingExited(s, n, g) ==
  LET i == s.inst[n]
      down == [i EXCEPT !.serving = None, !.needsRespawn = i.lastGreen # None]
      waiting == [down EXCEPT !.pending = i.pipe.sha, !.pipe = Idle]
  IN CASE i.serving = None \/ (i.serving # None /\ i.serving.gen # g) -> s
       [] i.serving # None /\ i.serving.gen = g ->
            IF i.pipe.at = "queued" /\ i.lastGreen # None
            THEN TryRespawn([s EXCEPT !.inst[n] = waiting, !.queue = Leave(@, n)], n)
            ELSE TryRespawn([s EXCEPT !.inst[n] = down], n)

OnDrainComplete(s, n, g) == [s EXCEPT !.inst[n].draining = @ \ {g}]

OnRecover(s, n, sha) ==
  IF s.inst[n].pipe # Idle \/ s.inst[n].serving # None THEN s
  ELSE TryRespawn([s EXCEPT !.inst[n].lastGreen = sha, !.inst[n].needsRespawn = TRUE], n)

Event == [type : {"HeadAdvanced", "RecoverFromPointer"}, sha : Sha]
         \cup [type : {"BuildFinished"}, gen : Nat, outcome : BuildOutcome]
         \cup [type : {"ProbeSucceeded", "ProbeFailed", "ServingExited", "DrainComplete"}, gen : Nat]

\* An event of an unknown instance changes nothing.
StepApp(app, n, ev) ==
  LET s == [app EXCEPT !.out = <<>>]
  IN IF n \notin DOMAIN s.inst THEN s
     ELSE CASE ev.type = "HeadAdvanced" -> OnHead(s, n, ev.sha)
            [] ev.type = "BuildFinished" -> OnBuildFinished(s, n, ev.gen, ev.outcome)
            [] ev.type = "ProbeSucceeded" -> OnProbeSucceeded(s, n, ev.gen)
            [] ev.type = "ProbeFailed" -> OnProbeFailed(s, n, ev.gen)
            [] ev.type = "ServingExited" -> OnServingExited(s, n, ev.gen)
            [] ev.type = "DrainComplete" -> OnDrainComplete(s, n, ev.gen)
            [] ev.type = "RecoverFromPointer" -> OnRecover(s, n, ev.sha)

AddInstance(s, n) ==
  [s EXCEPT !.inst = [m \in DOMAIN @ \cup {n} |-> IF m \in DOMAIN @ THEN @[m] ELSE NewInstance],
            !.out = <<>>]

\* The slot of a removed instance is free, though its build goes on.
RemoveInstance(s, n) ==
  [s EXCEPT !.inst = [m \in DOMAIN @ \ {n} |-> @[m]], !.queue = Leave(@, n),
            !.building = @ \ {n}, !.out = <<>>]
=============================================================================
