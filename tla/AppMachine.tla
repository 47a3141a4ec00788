----------------------------- MODULE AppMachine -----------------------------
(***************************************************************************)
(* The app-serve lifecycle under a driver that keeps one rule: it reports  *)
(* the result of an attempt (a build, a probe) it was ordered to make, and *)
(* reports it once.  It may report late: after the instance was removed,   *)
(* or removed and added again.                                             *)
(***************************************************************************)
EXTENDS App

CONSTANT MaxGen             \* BOUND: MaxGen[k] generations are handed out
                            \* once k instances were added, Len(MaxGen) at most

ASSUME BoundAssumption == MaxGen \in Seq(Nat)

VARIABLES machine,
          attempts,         \* ordered and not yet reported
          added,            \* instances added, those of the start included
          (* history, per instance                                        *)
          newest,           \* the last head
          green,            \* commits that built green or came from disk
          red,              \* commits recorded red
          unjudged,         \* builds in a row that ended in no verdict
          flipped           \* the head came back to the commit in hand
                            \* while a newer one was pending

history == <<newest, green, red, unjudged, flipped>>
mvars == <<machine, attempts, added, history>>

Names == DOMAIN machine.inst
Orders(s) == {s.out[k] : k \in DOMAIN s.out}
Attempt == [kind : {"build", "probe"}, name : Name, sha : Sha, gen : Nat]

\* The attempts a step orders.
Ordered(s) ==
  {[kind |-> IF o.act = "StartBuild" THEN "build" ELSE "probe",
    name |-> o.name, sha |-> o.sha, gen |-> o.gen] :
     o \in {x \in Orders(s) : x.act \in {"StartBuild", "SpawnAndProbe", "Respawn"}}}

MInit == /\ machine \in {NewApp(names) : names \in SUBSET Name \ {{}}}
         /\ attempts = {}
         /\ added = Cardinality(Names)
         /\ newest = [n \in Name |-> None]
         /\ green = [n \in Name |-> {}]
         /\ red = [n \in Name |-> {}]
         /\ unjudged = [n \in Name |-> 0]
         /\ flipped = [n \in Name |-> FALSE]

Reds(n) == {o.sha : o \in {x \in Orders(machine') : x.act = "RecordRed" /\ x.name = n}}

Step(n, ev, done) ==
  /\ machine' = StepApp(machine, n, ev)
  /\ machine'.gen <= MaxGen[added] + 1
  /\ attempts' = (attempts \ done) \cup Ordered(machine')
  /\ red' = [red EXCEPT ![n] = @ \cup Reds(n)]
  /\ UNCHANGED added

HeadAdvanced(n, sha) ==
  LET i == machine.inst[n]
  IN /\ n \in Names
     /\ Step(n, [type |-> "HeadAdvanced", sha |-> sha], {})
     /\ newest' = [newest EXCEPT ![n] = sha]
     /\ flipped' = [flipped EXCEPT ![n] =
          \/ @
          \/ /\ i.pipe.at \in {"building", "probing"} /\ i.pipe.sha = sha
             /\ i.pending \notin {sha, None}]
     /\ UNCHANGED <<green, unjudged>>

BuildFinished(a, outcome) ==
  LET current == a.name \in Names /\ Awaits(machine, a.name, "building", a.gen)
  IN /\ a.kind = "build"
     /\ Step(a.name, [type |-> "BuildFinished", gen |-> a.gen, outcome |-> outcome], {a})
     /\ green' = [green EXCEPT ![a.name] = IF current /\ outcome = "green" THEN @ \cup {a.sha} ELSE @]
     /\ unjudged' = [unjudged EXCEPT ![a.name] =
          CASE ~current -> @
            [] current -> IF outcome \in {"green", "red"} \/ Reds(a.name) # {} THEN 0 ELSE @ + 1]
     /\ UNCHANGED <<newest, flipped>>

Probed(a, type) ==
  /\ a.kind = "probe"
  /\ Step(a.name, [type |-> type, gen |-> a.gen], {a})
  /\ UNCHANGED <<newest, green, unjudged, flipped>>

Children(n) == LET i == machine.inst[n]
               IN i.draining \cup IF i.serving = None THEN {} ELSE {i.serving.gen}

\* The exit of a child that serves, or that was demoted meanwhile.
ServingExited(n, g) ==
  /\ Step(n, [type |-> "ServingExited", gen |-> g], {})
  /\ UNCHANGED <<newest, green, unjudged, flipped>>

DrainComplete(n, g) ==
  /\ n \in Names /\ g \in machine.inst[n].draining
  /\ Step(n, [type |-> "DrainComplete", gen |-> g], {})
  /\ UNCHANGED <<newest, green, unjudged, flipped>>

\* At boot or when added, before anything else happened to the instance.
Recover(n, sha) ==
  /\ n \in Names /\ machine.inst[n] = NewInstance /\ newest[n] = None
  /\ Step(n, [type |-> "RecoverFromPointer", sha |-> sha], {})
  /\ green' = [green EXCEPT ![n] = @ \cup {sha}]
  /\ UNCHANGED <<newest, unjudged, flipped>>

Forget(n) == /\ newest' = [newest EXCEPT ![n] = None]
             /\ green' = [green EXCEPT ![n] = {}]
             /\ red' = [red EXCEPT ![n] = {}]
             /\ unjudged' = [unjudged EXCEPT ![n] = 0]
             /\ flipped' = [flipped EXCEPT ![n] = FALSE]

Add(n) == /\ n \notin Names /\ added < Len(MaxGen)
          /\ machine' = AddInstance(machine, n)
          /\ added' = added + 1
          /\ UNCHANGED <<attempts, history>>

Remove(n) == /\ n \in Names
             /\ machine' = RemoveInstance(machine, n)
             /\ Forget(n)
             /\ UNCHANGED <<attempts, added>>

MNext ==
  \/ \E n \in Name : Add(n) \/ Remove(n)
  \/ \E n \in Name, sha \in Sha : HeadAdvanced(n, sha) \/ Recover(n, sha)
  \/ \E a \in attempts : \/ \E outcome \in BuildOutcome : BuildFinished(a, outcome)
                         \/ \E type \in {"ProbeSucceeded", "ProbeFailed"} : Probed(a, type)
  \/ \E n \in Names : \E g \in Children(n) : ServingExited(n, g)
  \/ \E n \in Names : \E g \in machine.inst[n].draining : DrainComplete(n, g)

MSpec == MInit /\ [][MNext]_mvars

-----------------------------------------------------------------------------
\* The state has its type.
MTypeOK ==
  /\ machine \in [inst : {machine.inst}, queue : Seq(Name), building : SUBSET Name, gen : Nat,
              out : Seq(Order)]
  /\ \A n \in Names : n \in Name /\ machine.inst[n] \in Instance
  /\ attempts \subseteq Attempt
  /\ unjudged \in [Name -> Nat]

(* A promotion needs a green build of the commit, or its bundle from disk, *)
(* and the health of the very child it promotes; it makes the commit the   *)
(* last green, and the child that served before drains, never vanishes.    *)
PromotionIsEarned ==
  [][\A n \in Names \cap DOMAIN machine'.inst :
       LET old == machine.inst[n].serving
           now == machine'.inst[n].serving
       IN now \notin {old, None} =>
            /\ now.sha \in green[n] /\ machine'.inst[n].lastGreen = now.sha
            /\ [kind |-> "probe", name |-> n, sha |-> now.sha, gen |-> now.gen] \in attempts \ attempts'
            /\ old # None => old.gen \in machine'.inst[n].draining]_mvars

(* However the builds fail for the environment's sake (a full disk, a      *)
(* worktree that moved), and however often the head moves meanwhile, a hot *)
(* branch converges: the two streaks of on_build_finished account for all  *)
(* builds since the last verdict.  As both are capped, at most five in a   *)
(* row end without one.                                                    *)
BuildsConverge ==
  \A n \in Name :
    unjudged[n] <= IF n \notin Names THEN 0
                   ELSE (IndeterminateCap + 1) * machine.inst[n].enospc + machine.inst[n].indeterminate

(* The newest head is never forgotten: an instance with nothing in hand    *)
(* serves it, or has recorded it red.  The exception is a head that comes  *)
(* back, while busy, to the commit in hand: on_head ignores it and leaves   *)
(* an older pending commit in place, which is then built and served.       *)
Judged(n) == LET i == machine.inst[n]
             IN i.pipe = Idle => \/ newest[n] \in red[n] \cup {None}
                                 \/ Serves(i, newest[n])
NewestIsJudged == \A n \in Names : flipped[n] \/ Judged(n)

(* No step but a removal leaves a build slot idle beside a waiting         *)
(* instance, unless it found it so.                                        *)
Stalled(s) == s.queue # <<>> /\ Cardinality(s.building) < MaxConcurrent
SlotsAreUsed ==
  [][Stalled(machine') => Stalled(machine) \/ \E n \in Name : Remove(n)]_mvars
=============================================================================
