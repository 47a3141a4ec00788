------------------------------ MODULE LaneHost ------------------------------
(***************************************************************************)
(* The build lane as the daemon runs it: lanehost.rs and the driver of     *)
(* lanedrv.rs around the policy of Lane.                                   *)
(*                                                                         *)
(* Request threads (Client) append events to a channel and keep two read-  *)
(* side sets, accepted and tombs.  One worker takes an event from the      *)
(* channel and pumps it: it steps the lane, executes the actions of the    *)
(* step in order (a build and a land block it), and steps the events they  *)
(* produce.  A ticker advances the clock.  The candidate tree, the build   *)
(* legs and the lander are the environment: they answer in every way the   *)
(* code distinguishes, whatever the trunk does meanwhile.  The trunk is no *)
(* variable: others move it too, not every lander merges, and the check    *)
(* for members already in it need not answer.                              *)
(***************************************************************************)
EXTENDS Lane

CONSTANTS Client,          \* request threads
          MaxEagerSteps,   \* MAX_EAGER_STEPS of the pump
          MaxCalls,        \* BOUND: calls of the request threads
          MaxTick,         \* BOUND: readings of the clock
          MaxRefusals,     \* BOUND: failed lands
          Watched          \* BOUND: the ids readers of GET /lane look for

ASSUME HostAssumption ==
  /\ MaxEagerSteps \in Nat \ {0} /\ {MaxCalls, MaxTick, MaxRefusals} \subseteq Nat
  /\ Watched \subseteq Id

VARIABLES
  lane, withdrawn,         \* the machine of LaneMachine
  chan,                    \* events sent and not yet received
  accepted,                \* members sent and not yet seen by the lane
  tombs,                   \* pending_withdrawals
  clock,                   \* the last tick the host was given
  call,                    \* what each client is in the middle of
  pumping,                 \* the worker is inside pump_observed
  pending,                 \* the pump's events
  todo,                    \* blocking actions of the last step, not yet done
  busy,                    \* the worker is inside the first of them
  steps,                   \* events this pump has stepped
  clearing                 \* the tombstone to lift when the pump ends

VARIABLES                  \* history, read by no action
  calls, refusals,         \* counters of the bounds
  owed,                    \* ids enqueued, neither withdrawn nor landed since
  ack,                     \* the last answer each id got from withdraw
  compiled,                \* the last candidate, its verdict, whether it was landed
  retryFrom,               \* when a member's failure asks it to wait until
  excused                  \* readers who may find what they look for

client == <<call, calls, ack, excused>>
worker == <<pumping, pending, todo, busy, steps, clearing>>
history == <<refusals, compiled, retryFrom>>
vars == <<lane, withdrawn, chan, accepted, tombs, clock, client, worker, owed, history>>

-----------------------------------------------------------------------------
EnqueueEvent(m) == [type |-> "Enqueue", member |-> m]
WithdrawEvent(id) == [type |-> "Withdraw", id |-> id]
ReadmitEvent(id) == [type |-> "ForceReadmit", id |-> id]
TickEvent(t) == [type |-> "Tick", now |-> t]
LandFailedEvent == [type |-> "LandFailed"]
FinishedEvent(g, o) == [type |-> "BuildFinished", generation |-> g, outcome |-> o]

IsEnqueue(ev, id) == ev.type = "Enqueue" /\ ev.member.id = id

Ready == [op |-> "ready"]

Init ==
  /\ lane = NewLane /\ withdrawn = {}
  /\ chan = <<>> /\ accepted = <<>> /\ tombs = {} /\ clock = 0
  /\ call = [c \in Client |-> Ready]
  /\ pumping = FALSE /\ pending = <<>> /\ todo = <<>> /\ busy = FALSE
  /\ steps = 0 /\ clearing = {} /\ excused = {}
  /\ calls = 0 /\ refusals = 0 /\ owed = {}
  /\ ack = [id \in Id |-> "none"]
  /\ compiled = [members |-> <<>>, verdict |-> "none", landed |-> FALSE]
  /\ retryFrom = [id \in Id |-> 0]

-----------------------------------------------------------------------------
(* The view the worker publishes after every step and around every          *)
(* blocking action (LaneSnapshot::of the lane and of the activity).  Only   *)
(* the worker sees its lane between two publications, so the last one is a  *)
(* function of the state.                                                   *)

Landing == IF busy /\ todo[1].act = "land" THEN Ids(todo[1].members) ELSE {}
Published == Ids(lane.queue) \cup Ids(lane.inFlight) \cup Landing \cup {e.id : e \in lane.ejected}

-----------------------------------------------------------------------------
(* Request threads.  Each call takes its locks one after the other, so it  *)
(* is two or three steps.                                                  *)

Readers(id) == {c \in Client : call[c].op \in {"view", "accepted"} /\ call[c].id = id}

\* No withdrawal of this id is half way.
Quiet(id) == \A c \in Client : call[c].op # "forget" \/ call[c].id # id

Remember(m) == IF m.id \in Ids(accepted)
               THEN [k \in DOMAIN accepted |-> IF accepted[k].id = m.id THEN m ELSE accepted[k]]
               ELSE Append(accepted, m)

Begins(c, what) ==
  /\ call[c] = Ready /\ calls < MaxCalls
  /\ call' = [call EXCEPT ![c] = what] /\ calls' = calls + 1

EnqueueBegin(c, m) ==
  /\ Begins(c, [op |-> "enqueue", member |-> m])
  /\ accepted' = Remember(m)
  /\ ack' = [ack EXCEPT ![m.id] = "none"] /\ excused' = excused \cup Readers(m.id)
  /\ UNCHANGED <<lane, withdrawn, chan, tombs, clock, worker, owed, history>>

EnqueueSend(c) ==
  /\ call[c].op = "enqueue"
  /\ LET m == call[c].member
     IN /\ chan' = Append(chan, EnqueueEvent(m))
        /\ owed' = owed \cup {m.id}
        /\ ack' = [ack EXCEPT ![m.id] = "none"] /\ excused' = excused \cup Readers(m.id)
  /\ call' = [call EXCEPT ![c] = Ready]
  /\ UNCHANGED <<lane, withdrawn, accepted, tombs, clock, calls, worker, history>>

\* The event is sent only if no withdrawal of this id is pending.
WithdrawBegin(c, id) ==
  /\ Begins(c, [op |-> "forget", id |-> id])
  /\ tombs' = tombs \cup {id}
  /\ chan' = IF id \in tombs THEN chan ELSE Append(chan, WithdrawEvent(id))
  /\ ack' = [ack EXCEPT ![id] = IF id \notin tombs THEN "sent"
                                ELSE IF @ = "none" THEN "already pending" ELSE @]
  /\ owed' = owed \ {id}
  /\ UNCHANGED <<lane, withdrawn, accepted, clock, excused, worker, history>>

WithdrawForget_bug(c) ==
  /\ call[c].op = "forget" /\ call' = [call EXCEPT ![c] = Ready]
  /\ UNCHANGED <<lane, withdrawn, chan, accepted, tombs, clock, calls, ack, excused, worker,
                 owed, history>>

WithdrawForget(c) ==
  /\ call[c].op = "forget"
  /\ accepted' = Without(accepted, call[c].id)
  /\ call' = [call EXCEPT ![c] = Ready]
  /\ UNCHANGED <<lane, withdrawn, chan, tombs, clock, calls, ack, excused, worker, owed, history>>

\* GET /lane, of which one client is interested in one id: it clones the
\* published view, then the accepted set, then the tombstones.  It is excused
\* if the id's withdrawal is not answered when it begins.
ReadView(c, id) ==
  /\ Begins(c, [op |-> "view", id |-> id, listed |-> id \in Published])
  /\ excused' = IF ack[id] = "sent" /\ Quiet(id) THEN excused ELSE excused \cup {c}
  /\ UNCHANGED <<lane, withdrawn, chan, accepted, tombs, clock, ack, worker, owed, history>>

ReadAccepted(c) ==
  /\ call[c].op = "view"
  /\ call' = [call EXCEPT ![c] = [op |-> "accepted", id |-> call[c].id,
                                  listed |-> call[c].listed,
                                  waiting |-> call[c].id \in Ids(accepted)]]
  /\ UNCHANGED <<lane, withdrawn, chan, accepted, tombs, clock, calls, ack, excused, worker,
                 owed, history>>

\* What the answer says, once the tombstones are read:
\* without_pending_withdrawals, then with_accepted.
Lists(c) == (call[c].listed /\ call[c].id \notin tombs) \/ call[c].waiting

ReadTombs(c) ==
  /\ call[c].op = "accepted" /\ call' = [call EXCEPT ![c] = Ready]
  /\ excused' = excused \ {c}
  /\ UNCHANGED <<lane, withdrawn, chan, accepted, tombs, clock, calls, ack, worker, owed, history>>

\* Refused unless the snapshot shows the ejection; it too reads the view first.
ReadmitBegin(c, id) ==
  /\ HeldFor(lane, id) # {}
  /\ Begins(c, [op |-> "readmit", id |-> id])
  /\ UNCHANGED <<lane, withdrawn, chan, accepted, tombs, clock, ack, excused, worker, owed,
                 history>>

ReadmitCheck(c) ==
  /\ call[c].op = "readmit"
  /\ call' = [call EXCEPT ![c] = IF call[c].id \in tombs THEN Ready
                                 ELSE [op |-> "send", id |-> call[c].id]]
  /\ UNCHANGED <<lane, withdrawn, chan, accepted, tombs, clock, calls, ack, excused, worker,
                 owed, history>>

ReadmitSend(c) ==
  /\ call[c].op = "send"
  /\ chan' = Append(chan, ReadmitEvent(call[c].id))
  /\ call' = [call EXCEPT ![c] = Ready]
  /\ UNCHANGED <<lane, withdrawn, accepted, tombs, clock, calls, ack, excused, worker, owed,
                 history>>

\* Once the bound is reached the same reading repeats, one tick at a time.
Tick ==
  /\ clock < MaxTick \/ \A k \in DOMAIN chan : chan[k].type # "Tick"
  /\ clock' = IF clock < MaxTick THEN clock + 1 ELSE clock
  /\ chan' = Append(chan, TickEvent(clock'))
  /\ UNCHANGED <<lane, withdrawn, accepted, tombs, client, worker, owed, history>>

-----------------------------------------------------------------------------
(* The worker.                                                             *)

\* The accepted entry of an id goes when an Enqueue of it is received.
Receive ==
  /\ ~pumping /\ chan # <<>>
  /\ LET ev == Head(chan)
     IN /\ pending' = <<ev>>
        /\ accepted' = IF ev.type = "Enqueue" THEN Without(accepted, ev.member.id) ELSE accepted
        /\ clearing' = IF ev.type = "Withdraw" THEN {ev.id} ELSE {}
  /\ chan' = Tail(chan) /\ pumping' = TRUE /\ steps' = 0
  /\ UNCHANGED <<lane, withdrawn, tombs, clock, client, todo, busy, owed, history>>

Apply(s, ev) ==
  CASE ev.type = "Enqueue" -> OnEnqueue(s, ev.member)
    [] ev.type = "Withdraw" -> OnWithdraw(s, ev.id)
    [] ev.type = "ForceReadmit" -> OnForceReadmit(s, ev.id)
    [] ev.type = "LandFailed" -> OnLandFailed(s)
    [] ev.type = "BuildFinished" -> OnBuildFinished(s, ev.generation, ev.outcome)
    [] ev.type = "Tick" -> OnTick(s, ev.now)

ActionsOf_bug(s, ev, t) ==
  LET lands == ev.type = "BuildFinished" /\ Current(s, ev.generation) /\ ev.outcome.kind = "Green"
  IN (IF t.generation # s.generation
      THEN <<[act |-> "build", members |-> t.inFlight, generation |-> t.generation]>> ELSE <<>>)
     \o (IF lands THEN <<[act |-> "land", members |-> s.inFlight]>> ELSE <<>>)

ActionsOf_bug_drops(s, ev, t) ==
  LET lands == ev.type = "BuildFinished" /\ Current(s, ev.generation) /\ ev.outcome.kind = "Green"
  IN IF t.generation # s.generation
     THEN <<[act |-> "build", members |-> t.inFlight, generation |-> t.generation]>>
     ELSE IF lands THEN <<[act |-> "land", members |-> s.inFlight]>> ELSE <<>>

\* LandAndPublish comes before the StartBuild of the same step.
ActionsOf(s, ev, t) ==
  LET lands == ev.type = "BuildFinished" /\ Current(s, ev.generation) /\ ev.outcome.kind = "Green"
  IN (IF lands THEN <<[act |-> "land", members |-> s.inFlight]>> ELSE <<>>)
     \o (IF t.generation # s.generation
         THEN <<[act |-> "build", members |-> t.inFlight, generation |-> t.generation]>>
         ELSE <<>>)

\* Ids another Enqueue of which is on its way.
Coming == {id \in Id : \E k \in DOMAIN chan : IsEnqueue(chan[k], id)}

\* From the MaxEagerSteps-th event of a pump on, no build is started.
StepLane ==
  /\ pumping /\ todo = <<>> /\ pending # <<>>
  /\ pending' = Tail(pending)
  /\ steps' = IF steps < MaxEagerSteps THEN steps + 1 ELSE steps
  /\ UNCHANGED <<chan, accepted, tombs, clock, client, pumping, busy, clearing,
                 refusals, compiled>>
  /\ LET ev == Head(pending)
         s == Apply(lane, ev)
         t == IF steps + 1 < MaxEagerSteps THEN MaybeStart(s) ELSE s
         held == {e.id : e \in t.ejected}
         out == IF ev.type = "Withdraw" THEN {ev.id} ELSE {}
     IN /\ lane' = t
        /\ todo' = ActionsOf(lane, ev, t)
        /\ withdrawn' = IF ev.type = "Enqueue" THEN withdrawn \ {ev.member.id}
                        ELSE withdrawn \cup out
        /\ retryFrom' = [id \in Id |-> IF id \in held THEN 0 ELSE retryFrom[id]]
        /\ owed' = IF ev.type = "BuildFinished" /\ ev.outcome.kind = "RosterStale"
                   THEN owed \ ({ev.outcome.id} \ Coming) ELSE owed

BeginAction ==
  /\ todo # <<>> /\ ~busy /\ busy' = TRUE
  /\ compiled' = IF todo[1].act = "build"
                 THEN [members |-> todo[1].members, verdict |-> "none", landed |-> FALSE]
                 ELSE compiled
  /\ UNCHANGED <<lane, withdrawn, chan, accepted, tombs, clock, client, owed,
                 pumping, pending, todo, steps, clearing,
                 refusals, retryFrom>>

EndAction_bug(events) ==
  /\ busy /\ busy' = FALSE
  /\ todo' = Tail(todo) /\ pending' = pending \o events
  /\ UNCHANGED <<lane, withdrawn, chan, accepted, tombs, clock, client, pumping, steps, clearing>>

\* After a blocking action the lane's clock is re-synced, the events follow.
EndAction(events) ==
  /\ busy /\ busy' = FALSE
  /\ todo' = Tail(todo)
  /\ pending' = pending \o events
  /\ lane' = AdvanceClock(lane, clock)
  /\ UNCHANGED <<withdrawn, chan, accepted, tombs, clock, client, pumping, steps, clearing>>

\* Materializing merges the members in order.  One whose head is an ancestor
\* of the candidate so far stops it as stale, unless git cannot tell; a
\* conflict names the first member that fails.
MergeVerdicts(ms) ==
  {[kind |-> "Infra"]} \cup [kind : {"Stale"}, id : Ids(ms)]
  \cup UNION {[kind : {"Conflict"}, id : {m.id}, files : SUBSET Changes[m]] : m \in Members(ms)}

\* Legs that are red without a diagnostic, cannot run, or name a stale member
\* that is not in the roster are Infra; errors may be in any file, or none.
LegVerdicts_bug(ms) == [kind : {"Green", "UnattributedRed", "Infra"}]
                       \cup [kind : {"Red"}, files : SUBSET File]
                       \cup [kind : {"RosterStale"}, id : Id]
LegVerdicts(ms) == [kind : {"Green", "UnattributedRed", "Infra"}]
                   \cup [kind : {"Red"}, files : SUBSET File]
                   \cup [kind : {"RosterStale"}, id : Ids(ms)]

OutcomesOf(ms) == MergeVerdicts(ms) \cup LegVerdicts(ms)

FinishBuild(o) ==
  /\ busy /\ todo[1].act = "build"
  /\ EndAction(<<FinishedEvent(todo[1].generation, o)>>)
  /\ o \in OutcomesOf(todo[1].members)
  /\ LET ids == Ids(todo[1].members)
     IN retryFrom' = [id \in Id |-> IF o.kind = "Infra" /\ id \in ids
                                    THEN clock + InfraBackoff ELSE retryFrom[id]]
  /\ compiled' = [compiled EXCEPT !.verdict = o.kind]
  /\ UNCHANGED <<owed, refusals>>

LandSucceeds ==
  /\ busy /\ todo[1].act = "land"
  /\ EndAction(<<>>)
  /\ owed' = owed \ (Ids(todo[1].members) \ Coming)
  /\ compiled' = [compiled EXCEPT !.landed = TRUE]
  /\ UNCHANGED <<refusals, retryFrom>>

\* The lander refuses (the trunk has moved under the candidate), fails or does
\* not answer in time, when the land may have happened all the same.
LandFails ==
  /\ busy /\ todo[1].act = "land"
  /\ refusals < MaxRefusals /\ refusals' = refusals + 1
  /\ LET ms == todo[1].members
     IN EndAction(<<LandFailedEvent>> \o [k \in DOMAIN ms |-> EnqueueEvent(ms[k])])
  /\ compiled' = [compiled EXCEPT !.landed = TRUE]
  /\ UNCHANGED <<owed, retryFrom>>

\* The terminal view is out before the tombstone is lifted.
PumpEnds ==
  /\ pumping /\ todo = <<>> /\ pending = <<>>
  /\ pumping' = FALSE /\ steps' = 0
  /\ tombs' = tombs \ clearing /\ clearing' = {}
  /\ excused' = excused \cup UNION {Readers(id) : id \in clearing}
  /\ UNCHANGED <<lane, withdrawn, chan, accepted, clock, call, calls, ack, pending, todo, busy,
                 owed, history>>

Calls(c) ==
  \/ \E m \in Member : EnqueueBegin(c, m)
  \/ \E id \in Id : WithdrawBegin(c, id) \/ ReadmitBegin(c, id)
  \/ \E id \in Watched : ReadView(c, id)
Returns(c) ==
  \/ EnqueueSend(c) \/ WithdrawForget(c)
  \/ ReadmitCheck(c) \/ ReadmitSend(c)
  \/ ReadAccepted(c) \/ ReadTombs(c)

Worker ==
  \/ Receive \/ StepLane \/ BeginAction
  \/ \E o \in Outcome : FinishBuild(o)
  \/ LandSucceeds \/ LandFails
  \/ PumpEnds

Next == (\E c \in Client : Calls(c) \/ Returns(c)) \/ Tick \/ Worker

Spec == Init /\ [][Next]_vars

(* The worker thread is scheduled, every build and land ends (both run     *)
(* under a budget), the heartbeat keeps ticking, a begun call returns.     *)
Fairness == WF_vars(Worker) /\ WF_vars(Tick) /\ \A c \in Client : WF_vars(Returns(c))
FairSpec == Spec /\ Fairness

-----------------------------------------------------------------------------
Event == [type : {"Enqueue"}, member : Member]
         \cup [type : {"Withdraw", "ForceReadmit"}, id : Id]
         \cup [type : {"LandFailed"}]
         \cup [type : {"BuildFinished"}, generation : Nat, outcome : Outcome]
         \cup [type : {"Tick"}, now : Nat]
Action == [act : {"land"}, members : Seq(Member)]
          \cup [act : {"build"}, members : Seq(Member), generation : Nat]
Call == [op : {"ready"}] \cup [op : {"enqueue"}, member : Member]
        \cup [op : {"forget", "readmit", "send"}, id : Id]
        \cup [op : {"view"}, id : Id, listed : BOOLEAN]
        \cup [op : {"accepted"}, id : Id, listed : BOOLEAN, waiting : BOOLEAN]
Verdict == {o.kind : o \in Outcome} \cup {"none"}

\* The state has its type, the counters their bounds.
TypeOK ==
  /\ lane \in LaneState /\ withdrawn \subseteq Id
  /\ chan \in Seq(Event) /\ pending \in Seq(Event) /\ todo \in Seq(Action)
  /\ accepted \in Seq(Member) /\ tombs \subseteq Id /\ clearing \subseteq Id
  /\ clock \in 0..MaxTick /\ call \in [Client -> Call]
  /\ pumping \in BOOLEAN /\ busy \in BOOLEAN /\ steps \in 0..MaxEagerSteps
  /\ busy => todo # <<>>
  /\ calls \in 0..MaxCalls /\ refusals \in 0..MaxRefusals
  /\ owed \subseteq Id /\ excused \subseteq Client
  /\ ack \in [Id -> {"none", "sent", "already pending"}] /\ retryFrom \in [Id -> Nat]
  /\ compiled \in [members : Seq(Member), verdict : Verdict, landed : BOOLEAN]

Enqueued(q) == {q[k].member.id : k \in {j \in DOMAIN q : q[j].type = "Enqueue"}}
Held == {e.id : e \in lane.ejected}
Actions(act) == {todo[k] : k \in {j \in DOMAIN todo : todo[j].act = act}}
InHand == UNION {Ids(a.members) : a \in Actions("land")}

(* No member is lost: an id whose enqueue was acknowledged, which was not  *)
(* withdrawn and has not landed since, is in the channel, in the pump, in  *)
(* the queue, in the running build, landing or held by an ejection that    *)
(* lapses.  (Lapsed members were once dropped, as was the completion a     *)
(* pump had no budget for: lane.rs expire_ejections, lanedrv.rs pump.)     *)
NoMemberLost ==
  owed \subseteq Enqueued(chan) \cup Enqueued(pending) \cup Ids(lane.queue)
                 \cup Ids(lane.inFlight) \cup Held \cup InHand

(* A lane that says Building is being built: the worker still owes it the  *)
(* completion of that very generation, so it can never wait for a build    *)
(* that is over.                                                           *)
BuildingIsBeingBuilt ==
  /\ lane.phase = "Building" =>
       \/ \E a \in Actions("build") : a.generation = lane.generation
       \/ \E k \in DOMAIN pending :
            pending[k].type = "BuildFinished" /\ pending[k].generation = lane.generation
  /\ ~pumping => lane.phase = "Idle"

(* What ships is exactly what compiled: a roster about to land is, member  *)
(* by member and head by head, that of the last candidate, whose verdict   *)
(* was green, whatever was withdrawn, enqueued or built since.             *)
ShipsWhatCompiled ==
  \A a \in Actions("land") : compiled.members = a.members /\ compiled.verdict = "Green"

(* The lander is called only for a green build, and exactly once for each  *)
(* (LaneLander): a green candidate is on its way to the lander, once, as   *)
(* its completion or as the land itself, or it has been there; a land that *)
(* failed comes back as a candidate to be compiled again, and no other     *)
(* candidate is begun before the lander was called.                        *)
Untold == {k \in DOMAIN pending : pending[k].type = "BuildFinished"
                                   /\ pending[k].outcome.kind = "Green"}
LandsEachGreenOnce ==
  Cardinality(Untold) + Cardinality({k \in DOMAIN todo : todo[k].act = "land"})
    = (IF compiled.verdict = "Green" /\ ~compiled.landed THEN 1 ELSE 0)

(* The backoff is measured from the failure, not from the start of the     *)
(* build: a member whose candidate failed for infrastructure is in no new  *)
(* candidate until InfraBackoff ticks after that, unless it was ejected.   *)
InfraRetryPaced ==
  \A a \in Actions("build") : \A id \in Ids(a.members) : retryFrom[id] <= clock

(* Read your withdrawal: a GET /lane that begins after a withdraw that     *)
(* sent its event was answered does not list the id, whatever the worker   *)
(* is blocked in, unless the id is enqueued meanwhile, or the worker lifts *)
(* the tombstone during this very read.  (Then the reader may hold a view  *)
(* from before: the one stale answer, and the next read does not give it.) *)
WithdrawnIsHidden ==
  \A c \in Client \ excused : call[c].op = "accepted" => ~Lists(c)

\* The host is a driver that keeps the rules of LaneMachine.
Machine == INSTANCE LaneMachine WITH state <- lane, gone <- withdrawn, TickValue <- 0..MaxTick
MachineSpec == Machine!MInit /\ [][Machine!MNext]_<<lane, withdrawn>>

(* Nothing is ejected forever: an ejection that lapses within the explored *)
(* time ends.                                                              *)
EjectionsLapse ==
  \A id \in Id : []<>(\A e \in HeldFor(lane, id) : e.expires > MaxTick)

\* A queue that only waits for time within the bound is built from.
Due(t) == t <= MaxTick
Runnable ==
  /\ lane.phase = "Idle" /\ lane.queue # <<>> /\ Due(lane.infraRetryAfter)
  /\ Len(lane.queue) >= MaxMembers \/ lane.queuedSince = None
     \/ Due(lane.queuedSince + CaptureWindow)
(* No wakeup is lost: a queue whose backoff and window end within the      *)
(* explored time does not wait forever, also after a pump that yielded.    *)
QueueServed == []<>~Runnable
=============================================================================
