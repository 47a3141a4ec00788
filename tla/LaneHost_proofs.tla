-------------------------- MODULE LaneHost_proofs --------------------------
(***************************************************************************)
(* LaneHost keeps its safety properties, and implements LaneMachine, for   *)
(* every number of clients and members, every configuration of the lane    *)
(* and every bound.  The inductive invariant says where the worker is: the *)
(* event it has just received, or the follow-ups of the last step, whose   *)
(* members are nowhere else; what it still owes the lane; and for every id *)
(* what a withdrawal, an enqueue and a failed build have left in the queues*)
(* between the threads.                                                    *)
(***************************************************************************)
EXTENDS LaneHost, LaneMachine, Lane_proofs

-----------------------------------------------------------------------------
(* The inductive invariant.                                                *)

\* What a client or the ticker sends, and what the worker sends itself.
ChanEvent == [type : {"Enqueue"}, member : Member]
             \cup [type : {"Withdraw", "ForceReadmit"}, id : Id]
             \cup [type : {"Tick"}, now : 0..MaxTick]
FollowUp == [type : {"Enqueue"}, member : Member]
            \cup [type : {"LandFailed"}]
            \cup [type : {"BuildFinished"}, generation : Nat, outcome : Outcome]

Typed ==
  /\ Sound(lane) /\ withdrawn \in SUBSET Id
  /\ chan \in Seq(ChanEvent) /\ pending \in Seq(Event) /\ todo \in Seq(Action)
  /\ accepted \in Seq(Member) /\ tombs \in SUBSET Id /\ clearing \in SUBSET Id
  /\ clock \in 0..MaxTick /\ call \in [Client -> Call]
  /\ pumping \in BOOLEAN /\ busy \in BOOLEAN /\ steps \in 0..MaxEagerSteps
  /\ owed \in SUBSET Id /\ ack \in [Id -> {"none", "sent", "already pending"}]
  /\ retryFrom \in [Id -> Nat]

\* The blocking actions of a step are at most a land and then a build.
Shape ==
  /\ Len(todo) <= 2
  /\ \A k \in DOMAIN todo : /\ todo[k].act = "land" => k = 1
                            /\ todo[k].act = "build" => k = Len(todo)
  /\ busy => todo # <<>>
  /\ ~pumping => pending = <<>> /\ todo = <<>>

\* The pump has one event from the channel, and no build is running.
Fresh == /\ Len(pending) = 1 /\ pending[1] \in ChanEvent
         /\ todo = <<>> /\ lane.phase = "Idle"

\* Every pending event is a follow-up, and a member on its way back to the
\* queue, or landing, is in one place only and not in the lane.
Homeless ==
  /\ \A k \in DOMAIN pending : pending[k] \in FollowUp
  /\ \A j, k \in DOMAIN pending :
       pending[j].type = "Enqueue" /\ pending[k].type = "Enqueue"
         /\ pending[j].member.id = pending[k].member.id => j = k
  /\ \A k \in DOMAIN pending :
       pending[k].type = "Enqueue" => pending[k].member.id \notin Where(lane)
  /\ \A k \in DOMAIN todo : todo[k].act = "land" =>
       /\ Distinct(todo[k].members)
       /\ Ids(todo[k].members) \cap (Where(lane) \cup Enqueued(pending)) = {}

\* A lane that builds is owed exactly one completion, of this very build.
Completing ==
  /\ \A j, k \in DOMAIN pending :
       pending[j].type = "BuildFinished" /\ pending[k].type = "BuildFinished" => j = k
  /\ lane.phase = "Building" => \/ \E k \in DOMAIN todo : todo[k].act = "build"
                                \/ \E k \in DOMAIN pending : pending[k].type = "BuildFinished"
  /\ \A k \in DOMAIN todo : todo[k].act = "build" =>
       /\ lane.phase = "Building"
       /\ todo[k].members = lane.inFlight /\ todo[k].generation = lane.generation
  /\ \A k \in DOMAIN pending : pending[k].type = "BuildFinished" =>
       /\ lane.phase = "Building" /\ todo = <<>>
       /\ pending[k].generation = lane.generation
       /\ pending[k].outcome.kind \in {"Conflict", "Stale", "RosterStale"}
            => pending[k].outcome.id \in Ids(lane.inFlight)

\* The last candidate is the roster being built, or about to land; a green
\* one is on its way to the lander until it has been there.
Candidate(ms, verdict) == [members |-> ms, verdict |-> verdict, landed |-> FALSE]
Ended(ev) == ev.type = "BuildFinished"
Compiling ==
  /\ \A k \in DOMAIN todo : todo[k].act = "land" => compiled = Candidate(todo[k].members, "Green")
  /\ busy /\ todo[1].act = "build" => compiled = Candidate(todo[1].members, "none")
  /\ \A k \in DOMAIN pending :
       Ended(pending[k]) => compiled = Candidate(lane.inFlight, pending[k].outcome.kind)
  /\ compiled.verdict = "Green" /\ ~compiled.landed =>
       \/ \E k \in DOMAIN todo : todo[k].act = "land"
       \/ \E k \in DOMAIN pending : Ended(pending[k])

\* A member waiting out a failed build is not yet in the next: its failure is
\* still to be told to the lane, or the lane is backing off until then.
InfraTold(id) ==
  \/ /\ id \in Ids(lane.inFlight) /\ retryFrom[id] <= lane.now + InfraBackoff
     /\ \E k \in DOMAIN pending :
          pending[k].type = "BuildFinished" /\ pending[k].outcome.kind = "Infra"
  \/ lane.phase = "Idle" /\ lane.infraRetryAfter # None /\ retryFrom[id] <= lane.infraRetryAfter
Paced ==
  /\ lane.now <= clock
  /\ \A k \in DOMAIN chan : chan[k].type = "Tick" => chan[k].now <= clock
  /\ \A k \in DOMAIN pending : pending[k].type = "Tick" => pending[k].now <= clock
  /\ \A id \in Id : retryFrom[id] <= lane.now \/ InfraTold(id)

\* An id owed to somebody while its withdrawal waits was enqueued after it.
Later(id, k) == \E j \in DOMAIN chan : j > k /\ IsEnqueue(chan[j], id)
Leaving ==
  /\ \A k \in DOMAIN chan :
       chan[k].type = "Withdraw" /\ chan[k].id \in owed => Later(chan[k].id, k)
  /\ \A k \in DOMAIN pending :
       pending[k].type = "Withdraw" /\ pending[k].id \in owed => pending[k].id \in Enqueued(chan)

\* A tombstone stands for one withdrawal that waits or is being pumped.
Leaves(ev, id) == ev.type = "Withdraw" /\ ev.id = id
Tombs ==
  /\ pumping \/ clearing = {}
  /\ clearing \subseteq tombs
  /\ \A j, k \in DOMAIN chan : chan[j].type = "Withdraw" /\ Leaves(chan[k], chan[j].id) => j = k
  /\ \A k \in DOMAIN chan : chan[k].type = "Withdraw" => chan[k].id \in tombs \ clearing
  /\ \A id \in tombs \ clearing : \E k \in DOMAIN chan : Leaves(chan[k], id)
  /\ \A k \in DOMAIN pending : pending[k].type = "Withdraw" => clearing = {pending[k].id}

\* A withdrawal that was sent waits, is being pumped, or has been obeyed.
Out(id) == id \notin Where(lane) \cup Enqueued(pending) \cup InHand
Obeyed(id) ==
  \/ \E k \in DOMAIN chan : Leaves(chan[k], id) /\ ~Later(id, k)
  \/ id \notin Enqueued(chan) /\ \E k \in DOMAIN pending : Leaves(pending[k], id)
  \/ id \notin Enqueued(chan) /\ Out(id)
Hidden ==
  \A id \in Id : ack[id] = "sent" => Obeyed(id) /\ (Quiet(id) => id \notin Ids(accepted))

Kept == owed \subseteq Enqueued(chan) \cup Enqueued(pending) \cup Where(lane) \cup InHand

IInv == /\ Typed /\ Shape /\ (Fresh \/ Homeless) /\ Completing /\ Compiling
        /\ Kept /\ Leaving /\ Paced /\ Tombs /\ Hidden

-----------------------------------------------------------------------------
(* Sequences.                                                              *)

LEMMA Positions ==
  ASSUME NEW S, NEW q \in Seq(S)
  PROVE  /\ Len(q) \in Nat /\ DOMAIN q = 1..Len(q)
         /\ \A k \in DOMAIN q : k \in Nat /\ k >= 1 /\ k <= Len(q) /\ q[k] \in S
         /\ q = <<>> <=> Len(q) = 0
         /\ q # <<>> <=> 1 \in DOMAIN q
<1>1. Len(q) \in Nat /\ DOMAIN q = 1..Len(q)
  BY LenProperties
<1>2. q = <<>> <=> Len(q) = 0
  BY EmptySeq
<1> QED  BY <1>1, <1>2, ElementOfSeq

LEMMA TailPositions ==
  ASSUME NEW S, NEW q \in Seq(S), q # <<>>
  PROVE  /\ Tail(q) \in Seq(S) /\ Len(Tail(q)) = Len(q) - 1 /\ Head(q) = q[1] /\ q[1] \in S
         /\ 1 \in DOMAIN q
         /\ \A k \in DOMAIN Tail(q) : k \in Nat /\ k + 1 \in DOMAIN q /\ Tail(q)[k] = q[k + 1]
         /\ \A k \in DOMAIN q : k # 1 => k - 1 \in DOMAIN Tail(q) /\ Tail(q)[k - 1] = q[k]
<1>1. /\ Tail(q) \in Seq(S) /\ Len(Tail(q)) = Len(q) - 1
      /\ \A k \in 1..Len(Tail(q)) : Tail(q)[k] = q[k + 1]
  BY HeadTailProperties
<1>2. /\ Len(q) \in Nat /\ DOMAIN q = 1..Len(q) /\ 1 \in DOMAIN q /\ q[1] \in S
      /\ DOMAIN Tail(q) = 1..Len(Tail(q)) /\ Len(Tail(q)) \in Nat
  BY <1>1, Positions
<1>3. Head(q) = q[1]
  OBVIOUS
<1>4. \A k \in DOMAIN Tail(q) : k \in Nat /\ k + 1 \in DOMAIN q /\ Tail(q)[k] = q[k + 1]
  BY <1>1, <1>2
<1>5. \A k \in DOMAIN q : k # 1 => k - 1 \in DOMAIN Tail(q) /\ (k - 1) + 1 = k
  BY <1>1, <1>2
<1>6. \A k \in DOMAIN q : k # 1 => Tail(q)[k - 1] = q[k]
  BY <1>4, <1>5
<1> QED  BY <1>1, <1>2, <1>3, <1>4, <1>5, <1>6

LEMMA ConcatPositions ==
  ASSUME NEW S, NEW p \in Seq(S), NEW q \in Seq(S)
  PROVE  /\ p \o q \in Seq(S) /\ Len(p \o q) = Len(p) + Len(q)
         /\ \A k \in DOMAIN p : k \in DOMAIN (p \o q) /\ (p \o q)[k] = p[k]
         /\ \A k \in DOMAIN q : /\ k + Len(p) \in DOMAIN (p \o q)
                                /\ (p \o q)[k + Len(p)] = q[k]
         /\ \A k \in DOMAIN (p \o q) : /\ k \in Nat
                                       /\ k \in DOMAIN p \/ k - Len(p) \in DOMAIN q
<1>1. /\ p \o q \in Seq(S) /\ Len(p \o q) = Len(p) + Len(q)
      /\ \A i \in 1..Len(p) + Len(q) :
           (p \o q)[i] = IF i <= Len(p) THEN p[i] ELSE q[i - Len(p)]
  BY ConcatProperties
<1>2. /\ Len(p) \in Nat /\ Len(q) \in Nat /\ DOMAIN p = 1..Len(p) /\ DOMAIN q = 1..Len(q)
      /\ DOMAIN (p \o q) = 1..Len(p) + Len(q)
  BY <1>1, LenProperties
<1>3. \A k \in DOMAIN p : k \in DOMAIN (p \o q) /\ (p \o q)[k] = p[k]
  BY <1>1, <1>2
<1>4. \A k \in DOMAIN q : /\ k + Len(p) \in 1..Len(p) + Len(q) /\ ~(k + Len(p) <= Len(p))
                          /\ (k + Len(p)) - Len(p) = k
  BY <1>2
<1>5. \A k \in DOMAIN q : (p \o q)[k + Len(p)] = q[k]
  BY <1>1, <1>4
<1>6. \A k \in DOMAIN (p \o q) : k \in Nat /\ (k \in DOMAIN p \/ k - Len(p) \in DOMAIN q)
  BY <1>2
<1> QED  BY <1>1, <1>2, <1>3, <1>4, <1>5, <1>6

LEMMA PairPositions ==
  ASSUME NEW S, NEW x \in S, NEW y \in S
  PROVE  LET q == <<x>> \o <<y>> IN q \in Seq(S) /\ Len(q) = 2 /\ q[1] = x /\ q[2] = y
<1>1. <<x>> \in Seq(S) /\ <<y>> \in Seq(S) /\ Len(<<x>>) = 1 /\ <<x>>[1] = x /\ <<y>>[1] = y
  OBVIOUS
<1>2. ASSUME NEW p \in Seq(S), NEW r \in Seq(S), Len(p) = 1, Len(r) = 1
      PROVE  LET q == p \o r IN q \in Seq(S) /\ Len(q) = 2 /\ q[1] = p[1] /\ q[2] = r[1]
  <2> DEFINE q == p \o r
  <2>1. /\ q \in Seq(S) /\ Len(q) = 2
        /\ \A i \in 1..2 : q[i] = IF i <= 1 THEN p[i] ELSE r[i - 1]
    BY <1>2, ConcatProperties
  <2> HIDE DEF q
  <2>2. q[1] = p[1] /\ q[2] = r[2 - 1]
    BY <2>1
  <2> QED  BY <2>1, <2>2 DEF q
<1>3. Len(<<y>>) = 1
  OBVIOUS
<1> QED  BY <1>1, <1>2, <1>3

LEMMA AppendPositions ==
  ASSUME NEW S, NEW q \in Seq(S), NEW e \in S
  PROVE  /\ Append(q, e) \in Seq(S) /\ Append(q, e) # <<>>
         /\ Len(q) + 1 \in DOMAIN Append(q, e) /\ Append(q, e)[Len(q) + 1] = e
         /\ \A k \in DOMAIN q : /\ k \in Nat /\ k < Len(q) + 1 /\ k \in DOMAIN Append(q, e)
                                /\ Append(q, e)[k] = q[k]
         /\ \A k \in DOMAIN Append(q, e) : /\ k \in Nat /\ k <= Len(q) + 1
                                           /\ k \in DOMAIN q \/ k = Len(q) + 1
<1>1. /\ Append(q, e) \in Seq(S) /\ Append(q, e) # <<>> /\ Len(Append(q, e)) = Len(q) + 1
      /\ \A i \in 1..Len(q) : Append(q, e)[i] = q[i]
      /\ Append(q, e)[Len(q) + 1] = e
  BY AppendProperties
<1>2. Len(q) \in Nat /\ DOMAIN q = 1..Len(q) /\ DOMAIN Append(q, e) = 1..Len(q) + 1
  BY <1>1, LenProperties
<1> QED  BY <1>1, <1>2

\* The ids enqueued by a channel or a pump.
LEMMA EnqueuedIs ==
  \A q, id : id \in Enqueued(q) <=> \E k \in DOMAIN q : IsEnqueue(q[k], id)
BY DEF Enqueued, IsEnqueue

LEMMA TailEnqueued ==
  ASSUME NEW S, NEW q \in Seq(S), q # <<>>
  PROVE  \A id : id \in Enqueued(q) <=> id \in Enqueued(Tail(q)) \/ IsEnqueue(q[1], id)
<1>1. /\ 1 \in DOMAIN q
      /\ \A k \in DOMAIN Tail(q) : k \in Nat /\ k + 1 \in DOMAIN q /\ Tail(q)[k] = q[k + 1]
      /\ \A k \in DOMAIN q : k # 1 => k - 1 \in DOMAIN Tail(q) /\ Tail(q)[k - 1] = q[k]
  BY TailPositions
<1> DEFINE p == Tail(q)
<1> HIDE DEF p
<1>2. /\ \A k \in DOMAIN p : k + 1 \in DOMAIN q /\ p[k] = q[k + 1]
      /\ \A k \in DOMAIN q : k # 1 => k - 1 \in DOMAIN p /\ p[k - 1] = q[k]
  BY <1>1 DEF p
<1>3. \A id : id \in Enqueued(q) <=> id \in Enqueued(p) \/ IsEnqueue(q[1], id)
  BY <1>1, <1>2, EnqueuedIs
<1> QED  BY <1>3 DEF p

LEMMA AppendEnqueued ==
  ASSUME NEW S, NEW q \in Seq(S), NEW e \in S
  PROVE  \A id : id \in Enqueued(Append(q, e)) <=> id \in Enqueued(q) \/ IsEnqueue(e, id)
<1> DEFINE p == Append(q, e)
<1>1. /\ Len(q) + 1 \in DOMAIN p /\ p[Len(q) + 1] = e
      /\ \A k \in DOMAIN q : k \in DOMAIN p /\ p[k] = q[k]
      /\ \A k \in DOMAIN p : k \in DOMAIN q \/ k = Len(q) + 1
  BY AppendPositions
<1> HIDE DEF p
<1>2. \A id : id \in Enqueued(p) <=> id \in Enqueued(q) \/ IsEnqueue(e, id)
  BY <1>1, EnqueuedIs
<1> QED  BY <1>2 DEF p

-----------------------------------------------------------------------------
(* What an event does to the lane, and the decision that follows it.       *)

LEMMA EventFields ==
  /\ ChanEvent \subseteq Event /\ FollowUp \subseteq Event
  /\ \A ev \in Event :
       /\ ev.type = "Enqueue" => ev.member \in Member /\ ev.member.id \in Id
       /\ ev.type \in {"Withdraw", "ForceReadmit"} => ev.id \in Id
       /\ ev.type = "BuildFinished" => ev.generation \in Nat /\ ev.outcome \in Outcome
       /\ ev.type = "Tick" => ev.now \in Nat
  /\ \A ev \in ChanEvent : /\ ev.type \in {"Enqueue", "Withdraw", "ForceReadmit", "Tick"}
                           /\ ev.type = "Tick" => ev.now \in 0..MaxTick
  /\ \A ev \in FollowUp : ev.type \in {"Enqueue", "LandFailed", "BuildFinished"}
<1>1. MaxTick \in Nat
  BY HostAssumption
<1>2. ChanEvent \subseteq Event
  BY <1>1 DEF ChanEvent, Event
<1>3. FollowUp \subseteq Event
  BY DEF FollowUp, Event
<1>4. \A ev \in Event : ev.type = "Enqueue" => ev.member \in Member /\ ev.member.id \in Id
  BY MemberFields DEF Event
<1>5. \A ev \in Event :
       /\ ev.type \in {"Withdraw", "ForceReadmit"} => ev.id \in Id
       /\ ev.type = "BuildFinished" => ev.generation \in Nat /\ ev.outcome \in Outcome
       /\ ev.type = "Tick" => ev.now \in Nat
  BY DEF Event
<1>6. \A ev \in ChanEvent : /\ ev.type \in {"Enqueue", "Withdraw", "ForceReadmit", "Tick"}
                            /\ ev.type = "Tick" => ev.now \in 0..MaxTick
  BY DEF ChanEvent
<1>7. \A ev \in FollowUp : ev.type \in {"Enqueue", "LandFailed", "BuildFinished"}
  BY DEF FollowUp
<1> QED  BY <1>2, <1>3, <1>4, <1>5, <1>6, <1>7

LEMMA ApplyIs ==
  ASSUME NEW s, NEW ev
  PROVE  /\ ev.type = "Enqueue" => Apply(s, ev) = OnEnqueue(s, ev.member)
         /\ ev.type = "Withdraw" => Apply(s, ev) = OnWithdraw(s, ev.id)
         /\ ev.type = "ForceReadmit" => Apply(s, ev) = OnForceReadmit(s, ev.id)
         /\ ev.type = "LandFailed" => Apply(s, ev) = OnLandFailed(s)
         /\ ev.type = "BuildFinished" => Apply(s, ev) = OnBuildFinished(s, ev.generation, ev.outcome)
         /\ ev.type = "Tick" => Apply(s, ev) = OnTick(s, ev.now)
BY DEF Apply

\* Everything but a completion leaves a running build alone.
Handled(s, ev, t) ==
  /\ Sound(t) /\ t.phase = s.phase /\ t.generation = s.generation /\ t.inFlight = s.inFlight
  /\ Where(t) = CASE ev.type = "Enqueue" -> Where(s) \cup {ev.member.id}
                  [] ev.type = "Withdraw" -> Where(s) \ {ev.id}
                  [] OTHER -> Where(s)
  /\ t.now = IF ev.type = "Tick" /\ ev.now > s.now THEN ev.now ELSE s.now
  /\ t.infraRetryAfter = IF ev.type = "LandFailed" THEN s.now + InfraBackoff
                         ELSE s.infraRetryAfter

LEMMA ApplyHandles ==
  ASSUME NEW s, Sound(s), NEW ev \in Event, ev.type # "BuildFinished",
         ev.type = "Enqueue" => ev.member.id \notin Ids(s.inFlight),
         ev.type = "Withdraw" => s.phase = "Idle"
  PROVE  Handled(s, ev, Apply(s, ev))
<1>0. s \in LaneState
  BY DEF Sound
<1>1. CASE ev.type = "Enqueue"
  <2> DEFINE t == OnEnqueue(s, ev.member)
  <2>1. Sound(t) /\ Where(t) = Where(s) \cup {ev.member.id} /\ Keeps(s, t)
    BY <1>0, <1>1, EventFields, EnqueueSound, EnqueueKeeps
  <2>2. Apply(s, ev) = t
    BY <1>1, ApplyIs
  <2> HIDE DEF t
  <2> QED  BY <1>1, <2>1, <2>2 DEF Handled, Keeps
<1>2. CASE ev.type = "Withdraw"
  <2> DEFINE t == OnWithdraw(s, ev.id)
  <2>1. Sound(t) /\ Where(t) = Where(s) \ {ev.id}
    BY <1>2, EventFields, WithdrawSound
  <2>2. /\ t.phase = s.phase /\ t.generation = s.generation
        /\ t.now = s.now /\ t.infraRetryAfter = s.infraRetryAfter
    BY <1>0, WithdrawKeeps
  <2>3. Apply(s, ev) = t
    BY <1>2, ApplyIs
  <2> HIDE DEF t
  <2>4. t.inFlight = s.inFlight
    BY <1>2, <2>1, <2>2 DEF Sound, Roster
  <2> QED  BY <1>2, <2>1, <2>2, <2>3, <2>4 DEF Handled
<1>3. CASE ev.type = "ForceReadmit"
  <2> DEFINE t == OnForceReadmit(s, ev.id)
  <2>1. Sound(t) /\ Where(t) = Where(s) /\ Keeps(s, t)
    BY <1>0, <1>3, EventFields, ForceReadmitSound, ForceReadmitKeeps
  <2>2. Apply(s, ev) = t
    BY <1>3, ApplyIs
  <2> HIDE DEF t
  <2> QED  BY <1>3, <2>1, <2>2 DEF Handled, Keeps
<1>4. CASE ev.type = "LandFailed"
  <2> DEFINE t == OnLandFailed(s)
  <2>1. Sound(t) /\ Where(t) = Where(s)
    BY LandFailedSound
  <2>2. /\ t.phase = s.phase /\ t.generation = s.generation /\ t.inFlight = s.inFlight
        /\ t.now = s.now /\ t.infraRetryAfter = s.now + InfraBackoff
    BY <1>0, LandFailedKeeps
  <2>3. Apply(s, ev) = t
    BY <1>4, ApplyIs
  <2> HIDE DEF t
  <2> QED  BY <1>4, <2>1, <2>2, <2>3 DEF Handled
<1>5. CASE ev.type = "Tick"
  <2> DEFINE t == OnTick(s, ev.now)
  <2>1. Sound(t) /\ Where(t) = Where(s)
    BY <1>5, EventFields, TickSound
  <2>2. /\ t.phase = s.phase /\ t.generation = s.generation /\ t.inFlight = s.inFlight
        /\ t.infraRetryAfter = s.infraRetryAfter
        /\ t.now = (IF ev.now > s.now THEN ev.now ELSE s.now)
    BY <1>0, TimeKeeps
  <2>3. Apply(s, ev) = t
    BY <1>5, ApplyIs
  <2> HIDE DEF t
  <2> QED  BY <1>5, <2>1, <2>2, <2>3 DEF Handled
<1>6. ev.type \in {"Enqueue", "Withdraw", "ForceReadmit", "LandFailed", "Tick"}
  BY DEF Event
<1> QED  BY <1>1, <1>2, <1>3, <1>4, <1>5, <1>6

LEMMA LaneNumbers ==
  ASSUME NEW s, Sound(s)
  PROVE  /\ s.now \in Nat /\ s.infraRetryAfter \in Int /\ s.infraRetryAfter >= None
         /\ InfraBackoff \in Nat /\ s.infraRetryAfter <= s.now + InfraBackoff
<1>1. s.now \in Nat /\ s.infraRetryAfter \in MaybeTick
  BY DEF Sound, LaneState
<1>2. s.infraRetryAfter <= s.now + InfraBackoff
  BY DEF Sound, Deadlines
<1> QED  BY <1>1, <1>2, ConfigAssumption DEF MaybeTick, None

LEMMA ClockType == ASSUME Typed PROVE clock \in Nat /\ clock \in 0..MaxTick
<1>1. MaxTick \in Nat
  BY HostAssumption
<1>2. clock \in 0..MaxTick
  BY DEF Typed
<1> QED  BY <1>1, <1>2

\* A step ends with the decision to start a build, or to leave it to later.
Starts(s, t) == /\ s.phase = "Idle" /\ ~BackingOff(s)
                /\ t.phase = "Building" /\ t.generation = s.generation + 1
Waits(s, t) == /\ t.phase = s.phase /\ t.generation = s.generation /\ t.inFlight = s.inFlight
               /\ \/ t.infraRetryAfter = s.infraRetryAfter
                  \/ s.phase = "Idle" /\ ~BackingOff(s)
Decided(s, t) == /\ Sound(t) /\ Where(t) = Where(s) /\ t.now = s.now /\ t.ejected = s.ejected
                 /\ Starts(s, t) \/ Waits(s, t)

LEMMA DecisionSound ==
  ASSUME NEW s, Sound(s), NEW t \in {s, MaybeStart(s)}
  PROVE  Decided(s, t)
<1>1. s \in LaneState
  BY DEF Sound
<1>2. CASE t = s
  BY <1>2 DEF Decided, Waits
<1>3. CASE t = MaybeStart(s)
  <2>1. Sound(t) /\ Where(t) = Where(s)
    BY <1>3, MaybeStartSound
  <2>2. /\ t.now = s.now /\ t.ejected = s.ejected
        /\ Starts(s, t) \/ Waits(s, t)
    BY <1>1, <1>3, MaybeStartKeeps DEF Starts, Waits
  <2> QED  BY <2>1, <2>2 DEF Decided
<1> QED  BY <1>2, <1>3

Lands(s, ev) == /\ ev.type = "BuildFinished" /\ Current(s, ev.generation)
                /\ ev.outcome.kind = "Green"
LandOf(s) == [act |-> "land", members |-> s.inFlight]
BuildOf(t) == [act |-> "build", members |-> t.inFlight, generation |-> t.generation]

LEMMA ActionsOfStep ==
  ASSUME NEW s \in LaneState, NEW ev, NEW t \in LaneState
  PROVE  LET q == ActionsOf(s, ev, t)
         IN  /\ q \in Seq(Action) /\ Len(q) <= 2
             /\ \A k \in DOMAIN q : \/ k = 1 /\ q[k] = LandOf(s) /\ Lands(s, ev)
                                    \/ k = Len(q) /\ q[k] = BuildOf(t) /\ t.generation # s.generation
             /\ Lands(s, ev) => 1 \in DOMAIN q /\ q[1] = LandOf(s)
             /\ t.generation # s.generation => \E k \in DOMAIN q : q[k] = BuildOf(t)
<1> DEFINE a == IF Lands(s, ev) THEN <<LandOf(s)>> ELSE <<>>
           b == IF t.generation # s.generation THEN <<BuildOf(t)>> ELSE <<>>
<1>1. LandOf(s) \in Action /\ BuildOf(t) \in Action
  BY DEF LandOf, BuildOf, Action, LaneState
<1>2. ActionsOf(s, ev, t) = a \o b
  BY DEF ActionsOf, Lands, LandOf, BuildOf
<1> HIDE DEF LandOf, BuildOf, Lands
<1>3. CASE Lands(s, ev) /\ t.generation # s.generation
  <2>1. ActionsOf(s, ev, t) = <<LandOf(s)>> \o <<BuildOf(t)>>
    BY <1>2, <1>3
  <2> DEFINE q == ActionsOf(s, ev, t)
  <2>2. q \in Seq(Action) /\ Len(q) = 2 /\ q[1] = LandOf(s) /\ q[2] = BuildOf(t)
    BY <1>1, <2>1, PairPositions
  <2> HIDE DEF q
  <2>3. DOMAIN q = 1..2
    BY <2>2, LenProperties
  <2> QED  BY <1>3, <2>2, <2>3 DEF q
<1>4. CASE Lands(s, ev) /\ ~(t.generation # s.generation)
  <2>1. ActionsOf(s, ev, t) = <<LandOf(s)>>
    BY <1>1, <1>2, <1>4
  <2> QED  BY <1>1, <1>4, <2>1
<1>5. CASE ~Lands(s, ev) /\ t.generation # s.generation
  <2>1. ActionsOf(s, ev, t) = <<BuildOf(t)>>
    BY <1>1, <1>2, <1>5
  <2> QED  BY <1>1, <1>5, <2>1
<1>6. CASE ~Lands(s, ev) /\ ~(t.generation # s.generation)
  <2>1. ActionsOf(s, ev, t) = <<>>
    BY <1>2, <1>6
  <2> QED  BY <1>6, <2>1
<1> QED  BY <1>3, <1>4, <1>5, <1>6
-----------------------------------------------------------------------------
(* StepLane: the worker steps the lane with its next event.                *)

Next1 == pending[1]
Acted == Apply(lane, Next1)

LEMMA StepLaneIs ==
  ASSUME Typed, Shape, StepLane
  PROVE  /\ Next1 \in Event /\ pumping /\ todo = <<>> /\ pending # <<>> /\ busy = FALSE
         /\ lane' \in {Acted, MaybeStart(Acted)} /\ todo' = ActionsOf(lane, Next1, lane')
         /\ withdrawn' = (IF Next1.type = "Enqueue" THEN withdrawn \ {Next1.member.id}
                          ELSE withdrawn \cup (IF Next1.type = "Withdraw" THEN {Next1.id} ELSE {}))
         /\ retryFrom' = [id \in Id |-> IF id \in HeldIds(lane') THEN 0 ELSE retryFrom[id]]
         /\ owed' = (IF Next1.type = "BuildFinished" /\ Next1.outcome.kind = "RosterStale"
                     THEN owed \ ({Next1.outcome.id} \ Coming) ELSE owed)
         /\ pending' = Tail(pending)
         /\ steps' = (IF steps < MaxEagerSteps THEN steps + 1 ELSE steps)
         /\ UNCHANGED <<chan, accepted, tombs, clock, call, calls, ack, pumping, busy,
                        clearing, refusals, compiled>>
<1>1. pending \in Seq(Event) /\ pending # <<>> /\ todo = <<>> /\ busy \in BOOLEAN
  BY DEF Typed, StepLane
<1>2. Head(pending) = Next1 /\ Next1 \in Event
  BY <1>1, TailPositions DEF Next1
<1>3. busy = FALSE
  BY <1>1 DEF Shape
<1>4. {e.id : e \in lane'.ejected} = HeldIds(lane')
  BY DEF HeldIds
<1>5. lane' \in {Acted, MaybeStart(Acted)}
  BY <1>2 DEF StepLane, Acted
<1>6. todo' = ActionsOf(lane, Next1, lane')
  BY <1>2 DEF StepLane
<1>7. retryFrom' = [id \in Id |-> IF id \in HeldIds(lane') THEN 0 ELSE retryFrom[id]]
  BY <1>2, <1>4 DEF StepLane
<1>8. UNCHANGED <<chan, accepted, tombs, clock, call, calls, ack, pumping, busy,
                  clearing, refusals, compiled>>
  BY DEF StepLane, client
<1> QED  BY <1>1, <1>2, <1>3, <1>5, <1>6, <1>7, <1>8 DEF StepLane

\* An event that is no completion leaves a running build alone.
LEMMA StepHandles ==
  ASSUME Typed, Shape, Fresh \/ Homeless, StepLane, Next1.type # "BuildFinished"
  PROVE  Handled(lane, Next1, Acted) /\ Decided(Acted, lane')
<1>1. Next1 \in Event /\ pending # <<>> /\ Sound(lane) /\ pending \in Seq(Event)
  BY StepLaneIs DEF Typed
<1>2. 1 \in DOMAIN pending
  BY <1>1, Positions
<1>3. Next1.type = "Enqueue" => Next1.member.id \notin Ids(lane.inFlight)
  <2>1. CASE Fresh
    BY <1>1, <2>1, EmptyRoster DEF Fresh, Sound, Roster
  <2>2. CASE Homeless
    BY <1>2, <2>2 DEF Homeless, Next1, Where
  <2> QED  BY <2>1, <2>2
<1>4. Next1.type = "Withdraw" => lane.phase = "Idle"
  <2>1. CASE Fresh
    BY <2>1 DEF Fresh
  <2>2. CASE Homeless
    BY <1>2, <2>2, EventFields DEF Homeless, Next1
  <2> QED  BY <2>1, <2>2
<1>5. Handled(lane, Next1, Acted)
  BY <1>1, <1>3, <1>4, ApplyHandles DEF Acted
<1>6. Sound(Acted)
  BY <1>5 DEF Handled
<1>7. lane' \in {Acted, MaybeStart(Acted)}
  BY StepLaneIs
<1> HIDE DEF Acted
<1> QED  BY <1>5, <1>6, <1>7, DecisionSound

\* A completion is the one the lane waits for: it ends the build.
Judged(o) ==
  /\ Sound(Acted) /\ Acted.phase = "Idle" /\ Acted.generation = lane.generation
  /\ Acted.now = lane.now /\ Where(Acted) \subseteq Where(lane)
  /\ o.kind # "Green" =>
       Where(lane) \subseteq Where(Acted) \cup (IF o.kind = "RosterStale" THEN {o.id} ELSE {})
  /\ Where(lane) \subseteq Where(Acted) \cup Ids(lane.inFlight)
  /\ o.kind = "Green" => Where(Acted) \cap Ids(lane.inFlight) = {}
  /\ o.kind = "Infra" => \/ Acted.infraRetryAfter = lane.now + InfraBackoff
                         \/ Ids(lane.inFlight) \subseteq HeldIds(Acted)

LEMMA StepJudges ==
  ASSUME Typed, Shape, Fresh \/ Homeless, Completing, StepLane, Next1.type = "BuildFinished"
  PROVE  /\ Homeless /\ Current(lane, Next1.generation) /\ Next1.outcome \in Outcome
         /\ Judged(Next1.outcome) /\ Decided(Acted, lane')
<1>1. Next1 \in Event /\ pending # <<>> /\ Sound(lane) /\ pending \in Seq(Event)
  BY StepLaneIs DEF Typed
<1>2. 1 \in DOMAIN pending /\ lane \in LaneState
  BY <1>1, Positions DEF Sound
<1>3. Homeless
  BY EventFields DEF Fresh, Next1
<1>4. Current(lane, Next1.generation)
  BY <1>2 DEF Completing, Current, Next1
<1> DEFINE g == Next1.generation
           o == Next1.outcome
           s == OnBuildFinished(lane, g, o)
<1>5. o \in Outcome
  BY <1>1, EventFields
<1>6. Acted = s
  BY ApplyIs DEF Acted
<1>7. lane' \in {Acted, MaybeStart(Acted)}
  BY StepLaneIs
<1> HIDE DEF g, o
<1>8. Current(lane, g)
  BY <1>4 DEF g
<1>9. s.phase = "Idle" /\ s.generation = lane.generation /\ s.now = lane.now
  BY <1>2, <1>5, <1>8, BuildFinishedKeeps
<1>10. /\ Sound(s) /\ Where(s) \subseteq Where(lane)
       /\ o.kind # "Green" =>
            Where(lane) \subseteq Where(s) \cup (IF o.kind = "RosterStale" THEN {o.id} ELSE {})
       /\ Where(lane) \subseteq Where(s) \cup Ids(lane.inFlight)
       /\ o.kind = "Green" => Where(s) \cap Ids(lane.inFlight) = {}
       /\ o.kind = "Infra" => \/ s.infraRetryAfter = lane.now + InfraBackoff
                              \/ Ids(lane.inFlight) \subseteq HeldIds(s)
  BY <1>1, <1>5, <1>8, BuildFinishedSound
<1> HIDE DEF s
<1>11. Judged(o)
  BY <1>6, <1>9, <1>10 DEF Judged
<1>12. Decided(Acted, lane')
  BY <1>6, <1>7, <1>10, DecisionSound
<1> QED  BY <1>3, <1>4, <1>5, <1>11, <1>12 DEF o

\* What both have in common.
LEMMA StepSound ==
  ASSUME Typed, Shape, Fresh \/ Homeless, Completing, StepLane
  PROVE  /\ Decided(Acted, lane') /\ Acted.generation = lane.generation
         /\ Where(lane') \subseteq Where(lane)
              \cup (IF Next1.type = "Enqueue" THEN {Next1.member.id} ELSE {})
<1>1. CASE Next1.type = "BuildFinished"
  BY <1>1, StepJudges DEF Judged, Decided
<1>2. CASE Next1.type # "BuildFinished"
  BY <1>2, StepHandles DEF Handled, Decided
<1> QED  BY <1>1, <1>2

LEMMA StepTodo ==
  ASSUME Typed, Shape, Fresh \/ Homeless, Completing, StepLane
  PROVE  /\ todo' \in Seq(Action) /\ Len(todo') <= 2
         /\ \A k \in DOMAIN todo' :
              \/ k = 1 /\ todo'[k] = LandOf(lane) /\ Lands(lane, Next1)
              \/ k = Len(todo') /\ todo'[k] = BuildOf(lane') /\ Starts(Acted, lane')
         /\ Lands(lane, Next1) => 1 \in DOMAIN todo' /\ todo'[1] = LandOf(lane)
         /\ Starts(Acted, lane') => \E k \in DOMAIN todo' : todo'[k] = BuildOf(lane')
<1>1. lane \in LaneState /\ lane' \in LaneState /\ todo' = ActionsOf(lane, Next1, lane')
  BY StepLaneIs, StepSound DEF Typed, Sound, Decided
<1>2. lane.generation \in Nat /\ Acted.generation = lane.generation
  BY <1>1, StepSound DEF LaneState
<1>3. lane'.generation # lane.generation <=> Starts(Acted, lane')
  BY <1>2, StepSound DEF Decided, Starts, Waits
<1> QED  BY <1>1, <1>3, ActionsOfStep

LEMMA StepTyped ==
  ASSUME Typed, Shape, Fresh \/ Homeless, Completing, StepLane
  PROVE  Typed' /\ Shape'
<1>1. Sound(lane') /\ todo' \in Seq(Action)
  BY StepSound, StepTodo DEF Decided
<1>2. Next1 \in Event /\ pending # <<>> /\ pending \in Seq(Event) /\ withdrawn \in SUBSET Id
  BY StepLaneIs DEF Typed
<1>3. pending' \in Seq(Event)
  BY <1>2, TailPositions, StepLaneIs
<1>4. withdrawn' \in SUBSET Id
  <2>1. Next1.type = "Withdraw" => Next1.id \in Id
    BY <1>2, EventFields
  <2> QED  BY <1>2, <2>1, StepLaneIs
<1>5. steps' \in 0..MaxEagerSteps
  <2>1. steps' = IF steps < MaxEagerSteps THEN steps + 1 ELSE steps
    BY StepLaneIs
  <2>2. steps \in 0..MaxEagerSteps /\ MaxEagerSteps \in Nat
    BY HostAssumption DEF Typed
  <2> QED  BY <2>1, <2>2
<1>6. owed' \in SUBSET Id
  BY StepLaneIs DEF Typed
<1>7. retryFrom' \in [Id -> Nat]
  <2>1. retryFrom' = [id \in Id |-> IF id \in HeldIds(lane') THEN 0 ELSE retryFrom[id]]
    BY StepLaneIs
  <2>2. \A id \in Id : retryFrom[id] \in Nat
    BY DEF Typed
  <2> QED  BY <2>1, <2>2
<1>8. Typed'
  BY <1>1, <1>3, <1>4, <1>5, <1>6, <1>7, StepLaneIs DEF Typed
<1>9. \A k \in DOMAIN todo' : /\ todo'[k].act = "land" => k = 1
                              /\ todo'[k].act = "build" => k = Len(todo')
  BY StepTodo DEF LandOf, BuildOf
<1>10. Len(todo') <= 2 /\ busy' = FALSE /\ pumping'
  BY StepTodo, StepLaneIs
<1>11. Shape'
  BY <1>9, <1>10 DEF Shape
<1> QED  BY <1>8, <1>11

LEMMA StepHomeless ==
  ASSUME Typed, Shape, Fresh \/ Homeless, Completing, StepLane
  PROVE  Homeless'
<1>1. /\ pending \in Seq(Event) /\ pending # <<>> /\ pending' = Tail(pending) /\ Next1 \in Event
      /\ Sound(lane)
  BY StepLaneIs DEF Typed
<1>2. /\ \A k \in DOMAIN pending' : k \in Nat /\ k + 1 \in DOMAIN pending
                                    /\ pending'[k] = pending[k + 1]
      /\ 1 \in DOMAIN pending /\ Len(pending') = Len(pending) - 1
  BY <1>1, TailPositions
<1>3. CASE Fresh
  <2>1. pending' \in Seq(Event) /\ Len(pending') = 0
    BY <1>1, <1>2, <1>3, TailPositions DEF Fresh
  <2>2. DOMAIN pending' = {}
    BY <2>1, Positions
  <2>3. ~Lands(lane, Next1)
    BY <1>3, EventFields DEF Lands, Fresh, Next1
  <2>4. \A k \in DOMAIN todo' : todo'[k].act # "land"
    BY <2>3, StepTodo DEF BuildOf
  <2> QED  BY <2>2, <2>4 DEF Homeless
<1>4. CASE Homeless
  <2>1. \A k \in DOMAIN pending' : k + 1 # 1
    BY <1>2
  <2>2. \A k \in DOMAIN pending' : pending'[k] \in FollowUp
    BY <1>2, <1>4 DEF Homeless
  <2>3. \A j, k \in DOMAIN pending' :
          pending'[j].type = "Enqueue" /\ pending'[k].type = "Enqueue"
            /\ pending'[j].member.id = pending'[k].member.id => j = k
    <3>1. \A j, k \in DOMAIN pending' :
            pending'[j].type = "Enqueue" /\ pending'[k].type = "Enqueue"
              /\ pending'[j].member.id = pending'[k].member.id => j + 1 = k + 1
      BY <1>2, <1>4 DEF Homeless
    <3> QED  BY <1>2, <3>1
  <2>4. \A k \in DOMAIN pending' : pending'[k].type = "Enqueue" =>
          /\ pending'[k].member.id \notin Where(lane)
          /\ Next1.type = "Enqueue" => pending'[k].member.id # Next1.member.id
    BY <1>2, <1>4, <2>1 DEF Homeless, Next1
  <2>5. \A k \in DOMAIN pending' :
          pending'[k].type = "Enqueue" => pending'[k].member.id \notin Where(lane')
    BY <2>4, StepSound
  <2>6. ASSUME NEW k \in DOMAIN todo', todo'[k].act = "land"
        PROVE  /\ Distinct(todo'[k].members)
               /\ Ids(todo'[k].members) \cap (Where(lane') \cup Enqueued(pending')) = {}
    <3>1. todo'[k] = LandOf(lane) /\ Lands(lane, Next1)
      BY <2>6, StepTodo DEF BuildOf
    <3>2. Distinct(lane.inFlight) /\ Ids(lane.inFlight) \subseteq Where(lane)
      BY <1>1 DEF Sound, OnePlace, Where
    <3>3. Where(lane') \cap Ids(lane.inFlight) = {}
      BY <3>1, StepJudges DEF Lands, Judged, Decided
    <3>4. Enqueued(pending') \cap Where(lane) = {}
      BY <2>4 DEF Enqueued
    <3> QED  BY <3>1, <3>2, <3>3, <3>4 DEF LandOf
  <2> QED  BY <2>2, <2>3, <2>5, <2>6 DEF Homeless
<1> QED  BY <1>3, <1>4
LEMMA StepCompleting ==
  ASSUME Typed, Shape, Fresh \/ Homeless, Completing, StepLane
  PROVE  Completing'
<1>1. /\ pending \in Seq(Event) /\ pending # <<>> /\ pending' = Tail(pending) /\ todo = <<>>
      /\ lane \in LaneState
  BY StepLaneIs DEF Typed, Sound
<1>2. /\ \A k \in DOMAIN pending' : /\ k \in Nat /\ k + 1 \in DOMAIN pending /\ k + 1 # 1
                                    /\ pending'[k] = pending[k + 1]
      /\ \A k \in DOMAIN pending : k # 1 => k - 1 \in DOMAIN pending' /\ pending'[k - 1] = pending[k]
      /\ 1 \in DOMAIN pending
  BY <1>1, TailPositions
<1>3. \A k \in DOMAIN todo' : todo'[k].act = "build" =>
        todo'[k] = BuildOf(lane') /\ Starts(Acted, lane')
  BY StepTodo DEF LandOf
<1>4. \A k \in DOMAIN todo' : todo'[k].act = "build" =>
        /\ lane'.phase = "Building"
        /\ todo'[k].members = lane'.inFlight /\ todo'[k].generation = lane'.generation
  BY <1>3 DEF BuildOf, Starts
<1>5. Starts(Acted, lane') => \E k \in DOMAIN todo' : todo'[k].act = "build"
  BY StepTodo DEF BuildOf
<1>6. CASE Next1.type = "BuildFinished"
  <2>1. Acted.phase = "Idle" /\ (Starts(Acted, lane') \/ Waits(Acted, lane'))
    BY <1>6, StepJudges DEF Judged, Decided
  <2>2. \A k \in DOMAIN pending' : pending'[k].type # "BuildFinished"
    BY <1>2, <1>6 DEF Completing, Next1
  <2>3. lane'.phase = "Building" => \E k \in DOMAIN todo' : todo'[k].act = "build"
    BY <1>5, <2>1 DEF Waits
  <2> QED  BY <1>4, <2>2, <2>3 DEF Completing
<1>7. CASE Next1.type # "BuildFinished"
  <2>1. /\ Acted.phase = lane.phase /\ Acted.generation = lane.generation
        /\ Acted.inFlight = lane.inFlight
        /\ Starts(Acted, lane') \/ Waits(Acted, lane')
    BY <1>7, StepHandles DEF Handled, Decided
  <2>2. CASE \E k \in DOMAIN pending : pending[k].type = "BuildFinished"
    <3>1. lane.phase = "Building"
      BY <2>2 DEF Completing
    <3>2. /\ lane'.phase = "Building" /\ lane'.generation = lane.generation
          /\ lane'.inFlight = lane.inFlight /\ ~Starts(Acted, lane')
      BY <2>1, <3>1 DEF Starts, Waits
    <3>3. ~Lands(lane, Next1)
      BY <1>7 DEF Lands
    <3>4. todo' = <<>>
      <4>1. todo' \in Seq(Action) /\ DOMAIN todo' = {}
        BY <3>2, <3>3, StepTodo
      <4> QED  BY <4>1, Positions
    <3>5. \A j, k \in DOMAIN pending' :
            pending'[j].type = "BuildFinished" /\ pending'[k].type = "BuildFinished" => j = k
      <4>1. \A j, k \in DOMAIN pending' :
              pending'[j].type = "BuildFinished" /\ pending'[k].type = "BuildFinished"
                => j + 1 = k + 1
        BY <1>2 DEF Completing
      <4> QED  BY <1>2, <4>1
    <3>6. \A k \in DOMAIN pending' : pending'[k].type = "BuildFinished" =>
            /\ pending'[k].generation = lane'.generation
            /\ pending'[k].outcome.kind \in {"Conflict", "Stale", "RosterStale"}
                 => pending'[k].outcome.id \in Ids(lane'.inFlight)
      BY <1>2, <3>2 DEF Completing
    <3>7. \E k \in DOMAIN pending' : pending'[k].type = "BuildFinished"
      BY <1>2, <1>7, <2>2 DEF Next1
    <3> QED  BY <1>4, <3>2, <3>4, <3>5, <3>6, <3>7 DEF Completing
  <2>3. CASE ~\E k \in DOMAIN pending : pending[k].type = "BuildFinished"
    <3>1. \A k \in DOMAIN pending' : pending'[k].type # "BuildFinished"
      BY <1>2, <2>3
    <3>2. DOMAIN todo = {}
      BY <1>1, EmptySeq
    <3>3. lane.phase # "Building"
      BY <2>3, <3>2 DEF Completing
    <3>4. lane'.phase = "Building" => \E k \in DOMAIN todo' : todo'[k].act = "build"
      BY <1>5, <2>1, <3>3 DEF Waits
    <3> QED  BY <1>4, <3>1, <3>4 DEF Completing
  <2> QED  BY <2>2, <2>3
<1> QED  BY <1>6, <1>7

LEMMA StepCompiling ==
  ASSUME Typed, Shape, Fresh \/ Homeless, Completing, Compiling, StepLane
  PROVE  Compiling'
<1>1. /\ pending \in Seq(Event) /\ pending # <<>> /\ pending' = Tail(pending)
      /\ busy' = FALSE /\ compiled' = compiled /\ todo = <<>>
  BY StepLaneIs DEF Typed
<1>2. /\ \A k \in DOMAIN pending' : /\ k \in Nat /\ k + 1 \in DOMAIN pending /\ k + 1 # 1
                                    /\ pending'[k] = pending[k + 1]
      /\ \A k \in DOMAIN pending : k # 1 => k - 1 \in DOMAIN pending' /\ pending'[k - 1] = pending[k]
      /\ 1 \in DOMAIN pending
  BY <1>1, TailPositions
<1>3. ASSUME NEW k \in DOMAIN todo', todo'[k].act = "land"
      PROVE  compiled = Candidate(todo'[k].members, "Green")
  <2>1. todo'[k] = LandOf(lane) /\ Lands(lane, Next1)
    BY <1>3, StepTodo DEF BuildOf
  <2>2. compiled = Candidate(lane.inFlight, "Green")
    BY <1>2, <2>1 DEF Compiling, Lands, Next1, Ended
  <2> QED  BY <2>1, <2>2 DEF LandOf
<1>4. ASSUME NEW k \in DOMAIN pending', Ended(pending'[k])
      PROVE  compiled = Candidate(lane'.inFlight, pending'[k].outcome.kind)
  <2>1. compiled = Candidate(lane.inFlight, pending'[k].outcome.kind)
    BY <1>2, <1>4 DEF Compiling
  <2>2. lane.phase = "Building" /\ Next1.type # "BuildFinished"
    BY <1>2, <1>4 DEF Completing, Next1, Ended
  <2>3. lane'.inFlight = lane.inFlight
    BY <2>2, StepHandles DEF Handled, Decided, Starts, Waits
  <2> QED  BY <2>1, <2>3
<1>5. ASSUME compiled.verdict = "Green", ~compiled.landed
      PROVE  \/ \E k \in DOMAIN todo' : todo'[k].act = "land"
             \/ \E k \in DOMAIN pending' : Ended(pending'[k])
  <2>1. DOMAIN todo = {}
    BY <1>1, EmptySeq
  <2>2. PICK k \in DOMAIN pending : Ended(pending[k])
    BY <1>5, <2>1 DEF Compiling
  <2>3. pending[k].outcome.kind = "Green"
    BY <1>5, <2>2 DEF Compiling, Candidate
  <2>4. CASE k = 1
    <3>1. Next1.type = "BuildFinished" /\ Next1.outcome.kind = "Green"
      BY <2>2, <2>3, <2>4 DEF Next1, Ended
    <3>2. Lands(lane, Next1)
      BY <3>1, StepJudges DEF Lands
    <3> QED  BY <3>2, StepTodo DEF LandOf
  <2>5. CASE k # 1
    BY <1>2, <2>2, <2>5
  <2> QED  BY <2>4, <2>5
<1> QED  BY <1>1, <1>3, <1>4, <1>5 DEF Compiling

\* The members in hand are those about to land; also after a step.
LEMMA InHandIs ==
  /\ \A id : id \in InHand <=>
       \E k \in DOMAIN todo : todo[k].act = "land" /\ id \in Ids(todo[k].members)
  /\ \A id : id \in InHand' <=>
       \E k \in DOMAIN todo' : todo'[k].act = "land" /\ id \in Ids(todo'[k].members)
BY DEF InHand, Actions

LEMMA ComingEnqueued == Coming \subseteq Enqueued(chan)
BY EnqueuedIs DEF Coming

LEMMA StepKept ==
  ASSUME Typed, Shape, Fresh \/ Homeless, Completing, Kept, Leaving, StepLane
  PROVE  Kept'
<1>1. /\ pending \in Seq(Event) /\ pending # <<>> /\ pending' = Tail(pending)
      /\ todo = <<>> /\ chan' = chan /\ 1 \in DOMAIN pending
      /\ owed' = (IF Next1.type = "BuildFinished" /\ Next1.outcome.kind = "RosterStale"
                  THEN owed \ ({Next1.outcome.id} \ Coming) ELSE owed)
  BY StepLaneIs, Positions, ZenonT(60) DEF Typed
<1> SUFFICES ASSUME NEW id \in owed'
             PROVE  id \in Enqueued(chan') \cup Enqueued(pending') \cup Where(lane') \cup InHand'
  BY DEF Kept
<1>2. id \in owed
  BY <1>1
<1>3. id \notin InHand
  BY <1>1, InHandIs, EmptySeq
<1>4. CASE id \in Enqueued(chan)
  BY <1>1, <1>4
<1>5. CASE id \in Enqueued(pending)
  <2>1. CASE IsEnqueue(Next1, id)
    <3>1. Where(lane') = Where(lane) \cup {id}
      BY <2>1, StepHandles DEF IsEnqueue, Handled, Decided
    <3> QED  BY <3>1
  <2>2. CASE id \in Enqueued(pending')
    BY <2>2
  <2> QED  BY <1>1, <1>5, <2>1, <2>2, TailEnqueued DEF Next1
<1>6. CASE id \in Where(lane) /\ id \notin Enqueued(chan)
  <2>1. CASE Next1.type = "BuildFinished"
    <3> DEFINE o == Next1.outcome
    <3>1. Judged(o) /\ Where(lane') = Where(Acted) /\ Current(lane, Next1.generation)
      BY <2>1, StepJudges DEF Decided
    <3>2. CASE o.kind = "Green"
      <4>1. id \in Where(lane') \/ id \in Ids(lane.inFlight)
        BY <1>6, <3>1 DEF Judged
      <4>2. 1 \in DOMAIN todo' /\ todo'[1] = LandOf(lane)
        BY <2>1, <3>1, <3>2, StepTodo DEF Lands
      <4>3. Ids(lane.inFlight) \subseteq InHand'
        BY <4>2, InHandIs DEF LandOf
      <4> QED  BY <4>1, <4>3
    <3>3. CASE o.kind = "RosterStale"
      <4>1. id # o.id
        BY <1>1, <1>6, <2>1, <3>3, ComingEnqueued
      <4>2. Where(lane) \subseteq Where(Acted) \cup {o.id}
        BY <3>1, <3>3 DEF Judged
      <4> QED  BY <1>6, <3>1, <4>1, <4>2
    <3>4. CASE o.kind # "Green" /\ o.kind # "RosterStale"
      <4>1. Where(lane) \subseteq Where(Acted)
        BY <3>1, <3>4 DEF Judged
      <4> QED  BY <1>6, <3>1, <4>1
    <3> QED  BY <3>2, <3>3, <3>4
  <2>2. CASE Next1.type = "Withdraw"
    <3>1. Where(lane') = Where(lane) \ {Next1.id}
      BY <2>2, StepHandles DEF Handled, Decided
    <3>2. id # Next1.id
      BY <1>1, <1>2, <1>6, <2>2 DEF Leaving, Next1
    <3> QED  BY <1>6, <3>1, <3>2
  <2>3. CASE Next1.type # "Withdraw" /\ Next1.type # "BuildFinished"
    <3>1. Where(lane) \subseteq Where(lane')
      BY <2>3, StepHandles DEF Handled, Decided
    <3> QED  BY <1>6, <3>1
  <2> QED  BY <2>1, <2>2, <2>3
<1> QED  BY <1>2, <1>3, <1>4, <1>5, <1>6 DEF Kept

LEMMA StepQueues ==
  ASSUME Typed, Shape, Fresh \/ Homeless, Completing, Leaving, Tombs, StepLane
  PROVE  Leaving' /\ Tombs'
<1>1. chan' = chan /\ owed' \subseteq owed /\ clearing' = clearing /\ tombs' = tombs /\ pumping'
  BY StepLaneIs
<1>2. \A k \in DOMAIN pending' : pending'[k].type \notin {"Withdraw", "Tick"}
  BY StepHomeless, EventFields DEF Homeless
<1>3. Leaving'
  BY <1>1, <1>2 DEF Leaving, Later
<1>4. Tombs'
  BY <1>1, <1>2 DEF Tombs
<1> QED  BY <1>3, <1>4

\* A lane that backs off goes on doing so, or the wait is over.
LEMMA StepWaits ==
  ASSUME Typed, Shape, Fresh \/ Homeless, Completing, StepLane, Acted.phase = "Idle",
         NEW n \in Nat, n <= Acted.infraRetryAfter, Acted.infraRetryAfter # None
  PROVE  \/ n <= lane'.now
         \/ lane'.phase = "Idle" /\ lane'.infraRetryAfter # None /\ n <= lane'.infraRetryAfter
<1>1. Decided(Acted, lane')
  BY StepSound
<1>2. lane' \in LaneState
  BY <1>1 DEF Decided, Sound
<1>3. lane'.now \in Nat /\ lane'.now = Acted.now
  BY <1>1, <1>2 DEF Decided, LaneState
<1>4. CASE BackingOff(Acted)
  BY <1>1, <1>4 DEF Decided, Starts, Waits
<1>5. CASE ~BackingOff(Acted)
  <2>1. Acted.infraRetryAfter \in Nat
    <3>1. Acted \in LaneState
      <4>1. CASE Next1.type = "BuildFinished"
        BY <4>1, StepJudges DEF Judged, Sound
      <4>2. CASE Next1.type # "BuildFinished"
        BY <4>2, StepHandles DEF Handled, Sound
      <4> QED  BY <4>1, <4>2
    <3> QED  BY <3>1 DEF LaneState, MaybeTick
  <2> QED  BY <1>3, <1>5, <2>1 DEF BackingOff
<1> QED  BY <1>4, <1>5

LEMMA StepPaced ==
  ASSUME Typed, Shape, Fresh \/ Homeless, Completing, Paced, StepLane
  PROVE  Paced'
<1>1. /\ pending \in Seq(Event) /\ pending # <<>> /\ pending' = Tail(pending) /\ Next1 \in Event
      /\ chan' = chan /\ clock' = clock /\ clock \in Nat
      /\ Sound(lane) /\ Sound(lane')
  BY StepLaneIs, StepSound, ClockType DEF Typed, Decided
<1>2. /\ lane.now \in Nat /\ lane'.now \in Nat /\ lane.infraRetryAfter \in Int
      /\ lane.infraRetryAfter <= lane.now + InfraBackoff /\ InfraBackoff \in Nat
  BY <1>1, LaneNumbers
<1>3. 1 \in DOMAIN pending
  BY <1>1, Positions
<1>4. lane'.now <= clock /\ lane.now <= lane'.now
  <2>1. CASE Next1.type = "BuildFinished"
    BY <2>1, <1>2, StepJudges DEF Judged, Decided, Paced
  <2>2. CASE Next1.type # "BuildFinished"
    <3>1. lane'.now = IF Next1.type = "Tick" /\ Next1.now > lane.now THEN Next1.now ELSE lane.now
      BY <2>2, StepHandles DEF Handled, Decided
    <3>2. Next1.type = "Tick" => Next1.now <= clock /\ Next1.now \in Nat
      BY <1>1, <1>3, EventFields DEF Paced, Next1
    <3>3. lane.now <= clock
      BY DEF Paced
    <3> QED  BY <1>1, <1>2, <3>1, <3>2, <3>3
  <2> QED  BY <2>1, <2>2
<1>5. \A k \in DOMAIN pending' : pending'[k].type # "Tick"
  BY StepHomeless, EventFields DEF Homeless
<1>6. ASSUME NEW id \in Id PROVE (retryFrom[id] <= lane.now \/ InfraTold(id))'
  <2> DEFINE n == retryFrom[id]
  <2>1. n \in Nat
    BY DEF Typed
  <2>2. retryFrom'[id] = IF id \in HeldIds(lane') THEN 0 ELSE n
    BY StepLaneIs
  <2>3. CASE id \in HeldIds(lane')
    BY <1>2, <2>2, <2>3
  <2>4. CASE id \notin HeldIds(lane') /\ n <= lane.now
    BY <1>2, <1>4, <2>1, <2>2, <2>4
  <2>5. ASSUME id \notin HeldIds(lane'), Acted.phase = "Idle", n <= Acted.infraRetryAfter,
               Acted.infraRetryAfter # None
        PROVE  (retryFrom[id] <= lane.now \/ InfraTold(id))'
    BY <2>1, <2>2, <2>5, StepWaits DEF InfraTold
  <2>6. ASSUME NEW k \in DOMAIN pending, pending[k].type = "BuildFinished",
               pending[k].outcome.kind = "Infra", id \in Ids(lane.inFlight),
               n <= lane.now + InfraBackoff, id \notin HeldIds(lane')
        PROVE  (retryFrom[id] <= lane.now \/ InfraTold(id))'
    <3>1. lane.phase = "Building"
      BY <2>6 DEF Completing
    <3>2. CASE Next1.type = "BuildFinished"
      <4>1. k = 1
        BY <1>3, <2>6, <3>2 DEF Completing, Next1
      <4>2. Next1.outcome.kind = "Infra"
        BY <2>6, <4>1 DEF Next1
      <4>3. Judged(Next1.outcome) /\ Decided(Acted, lane')
        BY <3>2, StepJudges
      <4>4. HeldIds(Acted) = HeldIds(lane')
        BY <4>3 DEF Decided, HeldIds
      <4>5. Acted.infraRetryAfter = lane.now + InfraBackoff
        BY <2>6, <4>2, <4>3, <4>4 DEF Judged
      <4>6. Acted.infraRetryAfter # None
        BY <1>1, <1>2, <4>5 DEF None
      <4> QED  BY <2>5, <2>6, <4>3, <4>5, <4>6 DEF Judged
    <3>3. CASE Next1.type # "BuildFinished"
      <4>1. lane'.inFlight = lane.inFlight
        BY <3>1, <3>3, StepHandles DEF Handled, Decided, Starts, Waits
      <4>2. k - 1 \in DOMAIN pending' /\ pending'[k - 1] = pending[k]
        BY <1>1, <2>6, <3>3, TailPositions DEF Next1
      <4>3. n <= lane'.now + InfraBackoff
        BY <1>1, <1>2, <1>4, <2>1, <2>6
      <4>4. retryFrom'[id] = n
        BY <2>2, <2>6
      <4> HIDE DEF n
      <4>5. InfraTold(id)'
        BY <2>6, <4>1, <4>2, <4>3, <4>4 DEF InfraTold
      <4> QED  BY <4>5
    <3> QED  BY <3>2, <3>3
  <2>7. ASSUME lane.phase = "Idle", lane.infraRetryAfter # None, n <= lane.infraRetryAfter,
               id \notin HeldIds(lane')
        PROVE  (retryFrom[id] <= lane.now \/ InfraTold(id))'
    <3>1. Next1.type # "BuildFinished"
      BY <1>3, <2>7 DEF Completing, Next1
    <3>2. /\ Acted.phase = "Idle"
          /\ Acted.infraRetryAfter = IF Next1.type = "LandFailed" THEN lane.now + InfraBackoff
                                     ELSE lane.infraRetryAfter
      BY <2>7, <3>1, StepHandles DEF Handled
    <3>3. n <= Acted.infraRetryAfter /\ Acted.infraRetryAfter # None
      BY <1>1, <1>2, <2>1, <2>7, <3>2 DEF None
    <3> QED  BY <2>5, <2>7, <3>2, <3>3
  <2>8. n <= lane.now \/ InfraTold(id)
    BY DEF Paced
  <2> QED  BY <2>3, <2>4, <2>6, <2>7, <2>8 DEF InfraTold
<1> QED  BY <1>1, <1>4, <1>5, <1>6 DEF Paced

LEMMA StepHidden ==
  ASSUME Typed, Shape, Fresh \/ Homeless, Completing, Hidden, StepLane
  PROVE  Hidden'
<1>1. /\ pending \in Seq(Event) /\ pending # <<>> /\ pending' = Tail(pending) /\ todo = <<>>
      /\ chan' = chan /\ ack' = ack /\ call' = call /\ accepted' = accepted
      /\ 1 \in DOMAIN pending /\ Len(pending) \in Nat /\ DOMAIN pending = 1..Len(pending)
  <2>1. /\ pending # <<>> /\ pending' = Tail(pending) /\ todo = <<>>
        /\ chan' = chan /\ ack' = ack /\ call' = call /\ accepted' = accepted
    BY StepLaneIs
  <2>2. pending \in Seq(Event)
    BY DEF Typed
  <2> QED  BY <2>1, <2>2, Positions
<1>2. \A i : i \in Enqueued(pending) <=> i \in Enqueued(pending') \/ IsEnqueue(Next1, i)
  BY <1>1, TailEnqueued DEF Next1
<1>3. InHand' \subseteq Ids(lane.inFlight) /\ (Next1.type # "BuildFinished" => InHand' = {})
  <2>1. \A k \in DOMAIN todo' : todo'[k].act = "land" =>
          todo'[k].members = lane.inFlight /\ Next1.type = "BuildFinished"
    BY StepTodo DEF LandOf, BuildOf, Lands
  <2> QED  BY <2>1, InHandIs
<1>4. ASSUME NEW id \in Id, Obeyed(id) PROVE Obeyed(id)'
  <2>1. CASE \E k \in DOMAIN chan : Leaves(chan[k], id) /\ ~Later(id, k)
    BY <1>1, <2>1 DEF Obeyed, Later
  <2>2. ASSUME id \notin Enqueued(chan), NEW k \in DOMAIN pending, Leaves(pending[k], id)
        PROVE  Obeyed(id)'
    <3>1. Fresh
      BY <2>2, EventFields DEF Homeless, Leaves
    <3>2. k = 1
      BY <1>1, <2>2, <3>1 DEF Fresh
    <3>3. Next1.type = "Withdraw" /\ Next1.id = id
      BY <2>2, <3>2 DEF Leaves, Next1
    <3>4. id \notin Where(lane')
      BY <3>3, StepHandles DEF Handled, Decided
    <3>5. Len(pending') = 0 /\ pending' \in Seq(Event)
      BY <1>1, <3>1, TailPositions DEF Fresh
    <3>6. DOMAIN pending' = {}
      BY <3>5, Positions
    <3>7. id \notin Enqueued(pending')
      BY <3>6, EnqueuedIs
    <3>8. Out(id)'
      BY <1>3, <3>3, <3>4, <3>7 DEF Out
    <3> QED  BY <1>1, <2>2, <3>8 DEF Obeyed
  <2>3. CASE id \notin Enqueued(chan) /\ Out(id)
    <3>1. id \notin Where(lane) /\ id \notin Enqueued(pending')  /\ ~IsEnqueue(Next1, id)
      BY <1>2, <2>3 DEF Out
    <3>2. id \notin Where(lane')
      BY <3>1, StepSound DEF IsEnqueue
    <3>3. id \notin InHand'
      BY <1>3, <3>1 DEF Where
    <3>4. Out(id)'
      BY <3>1, <3>2, <3>3 DEF Out
    <3> QED  BY <1>1, <2>3, <3>4 DEF Obeyed
  <2> QED  BY <1>4, <2>1, <2>2, <2>3 DEF Obeyed
<1> QED  BY <1>1, <1>4 DEF Hidden, Quiet

LEMMA StepInv == ASSUME IInv, StepLane PROVE IInv'
<1>1. /\ Typed /\ Shape /\ (Fresh \/ Homeless) /\ Completing /\ Compiling
      /\ Kept /\ Leaving /\ Paced /\ Tombs /\ Hidden
  BY DEF IInv
<1>2. Typed' /\ Shape' /\ Homeless' /\ Completing' /\ Compiling'
  BY <1>1, StepTyped, StepHomeless, StepCompleting, StepCompiling
<1>3. Kept' /\ Leaving' /\ Paced' /\ Tombs' /\ Hidden'
  BY <1>1, StepKept, StepQueues, StepPaced, StepHidden
<1> QED  BY <1>2, <1>3 DEF IInv

-----------------------------------------------------------------------------
(* What a step that leaves some variables alone keeps.                     *)

LEMMA WorkKept ==
  ASSUME UNCHANGED <<lane, pending, todo>>
  PROVE  /\ Fresh \/ Homeless => (Fresh \/ Homeless)'
         /\ Completing => Completing'
<1>1. Fresh => Fresh'
  BY DEF Fresh
<1>2. Homeless => Homeless'
  BY DEF Homeless
<1>3. Completing => Completing'
  BY DEF Completing
<1> QED  BY <1>1, <1>2, <1>3

LEMMA ShapeKept ==
  ASSUME UNCHANGED <<pending, todo, busy, pumping>> PROVE Shape => Shape'
BY DEF Shape

LEMMA CompilingKept ==
  ASSUME UNCHANGED <<lane, pending, todo, busy, compiled>>
  PROVE  Compiling => Compiling'
BY DEF Compiling

LEMMA KeptKept ==
  ASSUME UNCHANGED <<lane, pending, todo>>, owed' \subseteq owed,
         Enqueued(chan) \subseteq Enqueued(chan')
  PROVE  Kept => Kept'
<1>1. InHand' = InHand
  BY DEF InHand, Actions
<1> QED  BY <1>1 DEF Kept

LEMMA LeavingKept ==
  ASSUME UNCHANGED <<chan, pending>>, owed' \subseteq owed PROVE Leaving => Leaving'
BY DEF Leaving, Later

LEMMA PacedKept ==
  ASSUME UNCHANGED <<lane, clock, chan, pending, retryFrom>> PROVE Paced => Paced'
<1>1. \A id : InfraTold(id)' <=> InfraTold(id)
  BY DEF InfraTold
<1> QED  BY <1>1 DEF Paced

LEMMA TombsKept ==
  ASSUME UNCHANGED <<pumping, clearing, tombs, chan, pending>> PROVE Tombs => Tombs'
BY DEF Tombs

LEMMA ObeyedKept ==
  ASSUME UNCHANGED <<lane, chan, pending, todo>>
  PROVE  \A id : Obeyed(id) => Obeyed(id)'
<1>1. InHand' = InHand
  BY DEF InHand, Actions
<1>2. \A id : Out(id)' <=> Out(id)
  BY <1>1 DEF Out
<1>3. \A id, k : Later(id, k)' <=> Later(id, k)
  BY DEF Later
<1> QED  BY <1>2, <1>3 DEF Obeyed

LEMMA HiddenKept ==
  ASSUME UNCHANGED <<lane, chan, pending, todo, ack, call, accepted>>
  PROVE  Hidden => Hidden'
<1>1. \A id : Obeyed(id) => Obeyed(id)'
  BY ObeyedKept
<1>2. \A id : Quiet(id)' <=> Quiet(id)
  BY DEF Quiet
<1> QED  BY <1>1, <1>2 DEF Hidden

LEMMA StutterInv == ASSUME IInv, UNCHANGED vars PROVE IInv'
<1>1. UNCHANGED <<lane, withdrawn, chan, accepted, tombs, clock, call, calls, ack,
                  pumping, pending, todo, busy, steps, clearing, owed,
                  refusals, compiled, retryFrom>>
  BY DEF vars, client, worker, history
<1>2. Typed'
  BY <1>1 DEF IInv, Typed
<1>3. Enqueued(chan) \subseteq Enqueued(chan') /\ owed' \subseteq owed
  BY <1>1
<1>4. /\ Shape' /\ (Fresh \/ Homeless)' /\ Completing' /\ Compiling' /\ Kept'
      /\ Leaving' /\ Paced' /\ Tombs' /\ Hidden'
  BY <1>1, <1>3, WorkKept, ShapeKept, CompilingKept, KeptKept, LeavingKept, PacedKept,
     TombsKept, HiddenKept DEF IInv
<1> QED  BY <1>2, <1>4 DEF IInv

-----------------------------------------------------------------------------
(* The rest of the worker: taking an event, blocking actions, the end.     *)

LEMMA TodoFirst ==
  ASSUME Typed, todo # <<>>
  PROVE  /\ 1 \in DOMAIN todo /\ todo[1] \in Action
         /\ todo[1].act \in {"land", "build"} /\ todo[1].members \in Seq(Member)
         /\ todo[1].act = "build" => todo[1].generation \in Nat
<1>1. 1 \in DOMAIN todo /\ todo[1] \in Action
  BY TailPositions DEF Typed
<1> QED  BY <1>1 DEF Action

LEMMA BeginInv == ASSUME IInv, BeginAction PROVE IInv'
<1>1. /\ todo # <<>> /\ ~busy /\ busy' = TRUE
      /\ compiled' = IF todo[1].act = "build"
                     THEN Candidate(todo[1].members, "none") ELSE compiled
      /\ UNCHANGED <<lane, withdrawn, chan, accepted, tombs, clock, call, calls, ack, owed,
                     pumping, pending, todo, steps, clearing, refusals, retryFrom>>
  BY DEF BeginAction, client, Candidate
<1>2. Typed'
  BY <1>1 DEF IInv, Typed
<1>3. Shape'
  BY <1>1 DEF IInv, Shape
<1>4. Compiling'
  <2>1. 1 \in DOMAIN todo /\ todo[1].act \in {"land", "build"}
    BY <1>1, TodoFirst DEF IInv
  <2>2. CASE todo[1].act = "build"
    <3>1. Len(todo) = 1
      BY <2>1, <2>2 DEF IInv, Shape
    <3>2. \A k \in DOMAIN todo : todo[k].act # "land"
      BY <2>2 DEF IInv, Shape
    <3>3. \A k \in DOMAIN pending : pending[k].type # "BuildFinished"
      BY <1>1 DEF IInv, Completing
    <3>4. compiled'.verdict # "Green"
      BY <1>1, <2>2 DEF Candidate
    <3> QED  BY <1>1, <2>2, <3>2, <3>3, <3>4 DEF Compiling, Ended
  <2>3. CASE todo[1].act # "build"
    BY <1>1, <2>3 DEF IInv, Compiling
  <2> QED  BY <2>2, <2>3
<1>5. Enqueued(chan) \subseteq Enqueued(chan') /\ owed' \subseteq owed
  BY <1>1
<1>6. /\ (Fresh \/ Homeless)' /\ Completing' /\ Kept'
      /\ Leaving' /\ Paced' /\ Tombs' /\ Hidden'
  BY <1>1, <1>5, WorkKept, KeptKept, LeavingKept, PacedKept, TombsKept, HiddenKept DEF IInv
<1> QED  BY <1>2, <1>3, <1>4, <1>6 DEF IInv

LEMMA PumpEndsInv == ASSUME IInv, PumpEnds PROVE IInv'
<1>1. /\ pumping /\ todo = <<>> /\ pending = <<>> /\ pumping' = FALSE /\ steps' = 0
      /\ tombs' = tombs \ clearing /\ clearing' = {}
      /\ UNCHANGED <<lane, withdrawn, chan, accepted, clock, call, calls, ack, pending, todo,
                     busy, owed, refusals, compiled, retryFrom>>
  BY DEF PumpEnds, client, history
<1>2. 0 \in 0..MaxEagerSteps
  BY HostAssumption
<1>3. Typed'
  BY <1>1, <1>2 DEF IInv, Typed
<1>4. Shape'
  BY <1>1 DEF IInv, Shape
<1>5. Tombs'
  <2>1. DOMAIN pending = {}
    BY <1>1, EmptySeq
  <2> QED  BY <1>1, <2>1 DEF IInv, Tombs
<1>6. Enqueued(chan) \subseteq Enqueued(chan') /\ owed' \subseteq owed
  BY <1>1
<1>7. /\ (Fresh \/ Homeless)' /\ Completing' /\ Compiling' /\ Kept'
      /\ Leaving' /\ Paced' /\ Hidden'
  BY <1>1, <1>6, WorkKept, CompilingKept, KeptKept, LeavingKept, PacedKept, HiddenKept DEF IInv
<1> QED  BY <1>3, <1>4, <1>5, <1>7 DEF IInv

LEMMA ReceiveInv == ASSUME IInv, Receive PROVE IInv'
<1> DEFINE ev == chan[1]
<1>1. /\ ~pumping /\ chan # <<>> /\ chan \in Seq(ChanEvent)
      /\ pending = <<>> /\ todo = <<>> /\ clearing = {}
  BY DEF Receive, IInv, Typed, Shape, Tombs
<1>2. /\ 1 \in DOMAIN chan /\ ev \in ChanEvent /\ Head(chan) = ev /\ Tail(chan) \in Seq(ChanEvent)
      /\ \A k \in DOMAIN Tail(chan) : k \in Nat /\ k + 1 \in DOMAIN chan
                                      /\ Tail(chan)[k] = chan[k + 1]
      /\ \A k \in DOMAIN chan : k # 1 => k - 1 \in DOMAIN Tail(chan)
                                         /\ Tail(chan)[k - 1] = chan[k]
      /\ \A id : id \in Enqueued(chan) <=> id \in Enqueued(Tail(chan)) \/ IsEnqueue(ev, id)
  BY <1>1, TailPositions, TailEnqueued
<1> DEFINE rest == chan'
<1>3. /\ pending' = <<ev>> /\ chan' = Tail(chan) /\ pumping' = TRUE /\ steps' = 0
      /\ accepted' = (IF ev.type = "Enqueue" THEN Without(accepted, ev.member.id) ELSE accepted)
      /\ clearing' = (IF ev.type = "Withdraw" THEN {ev.id} ELSE {})
      /\ UNCHANGED <<lane, withdrawn, tombs, clock, call, calls, ack, todo, busy,
                     owed, refusals, compiled, retryFrom>>
  BY <1>2 DEF Receive, client, history
<1>4. /\ \A k \in DOMAIN chan' : k \in Nat /\ k + 1 \in DOMAIN chan /\ k + 1 # 1
                                 /\ chan'[k] = chan[k + 1]
      /\ \A k \in DOMAIN chan : k \in Nat /\ (k # 1 => k - 1 \in DOMAIN chan' /\ chan'[k - 1] = chan[k])
      /\ \A id : id \in Enqueued(chan) <=> id \in Enqueued(chan') \/ IsEnqueue(ev, id)
      /\ chan' \in Seq(ChanEvent)
  BY <1>1, <1>2, <1>3, Positions
<1>5. ev \in Event /\ pending' \in Seq(Event) /\ DOMAIN pending' = {1} /\ pending'[1] = ev
      /\ Len(pending') = 1
  BY <1>2, <1>3, EventFields
<1>6. \A k \in DOMAIN pending' : pending'[k] = ev
  BY <1>5
<1>7. lane.phase = "Idle"
  <2>1. DOMAIN todo = {} /\ DOMAIN pending = {}
    BY <1>1, EmptySeq
  <2>2. lane.phase \in {"Idle", "Building"}
    BY DEF IInv, Typed, Sound, LaneState
  <2> QED  BY <2>1, <2>2 DEF IInv, Completing
<1>8. Typed'
  <2>1. accepted' \in Seq(Member)
    BY <1>3, WithoutRoster DEF IInv, Typed
  <2>2. clearing' \in SUBSET Id
    BY <1>2, <1>3 DEF ChanEvent
  <2>3. 0 \in 0..MaxEagerSteps
    BY HostAssumption
  <2> QED  BY <1>3, <1>4, <1>5, <2>1, <2>2, <2>3 DEF IInv, Typed
<1>9. Shape'
  BY <1>1, <1>3 DEF IInv, Shape
<1>10. Fresh'
  BY <1>1, <1>2, <1>3, <1>5, <1>7 DEF Fresh
<1>11. ev.type \in {"Enqueue", "Withdraw", "ForceReadmit", "Tick"}
  BY <1>2, EventFields
<1>12. \A k \in DOMAIN todo : FALSE
  BY <1>1, EmptySeq
<1>13. Completing' /\ Compiling'
  <2>1. Completing'
    BY <1>3, <1>6, <1>7, <1>11, <1>12 DEF Completing
  <2>2. \A k \in DOMAIN pending' : ~ Ended(pending'[k])
    BY <1>6, <1>11 DEF Ended
  <2>3. ~busy' /\ compiled' = compiled /\ todo' = todo
    BY <1>1, <1>3 DEF IInv, Shape
  <2>4. ~ (compiled.verdict = "Green" /\ ~compiled.landed)
    BY <1>1, <1>12, EmptySeq DEF IInv, Compiling
  <2>5. Compiling'
    BY <1>12, <2>2, <2>3, <2>4 DEF Compiling
  <2> QED  BY <2>1, <2>5
<1>14. \A id : id \in Enqueued(pending') <=> IsEnqueue(ev, id)
  BY <1>5, EnqueuedIs
<1>15. InHand = {} /\ InHand' = {} /\ \A id : id \notin Enqueued(pending)
  BY <1>1, <1>3, <1>12, EmptySeq, InHandIs, EnqueuedIs
<1>16. Kept'
  BY <1>3, <1>4, <1>14, <1>15 DEF IInv, Kept
<1>17. \A id : \A k \in DOMAIN chan : Later(id, k) /\ ~IsEnqueue(chan[k], id)
                                       => (k # 1 => Later(id, k - 1)')
  BY <1>4 DEF Later
<1>18. \A id : Later(id, 1) => id \in Enqueued(chan')
  BY <1>4, EnqueuedIs DEF Later
<1>19. \A id : \A k \in DOMAIN chan' : Later(id, k)' => Later(id, k + 1)
  BY <1>4 DEF Later
<1>20. Leaving'
  <2>1. ASSUME NEW k \in DOMAIN chan', chan'[k].type = "Withdraw", chan'[k].id \in owed'
        PROVE  Later(chan[k].id, k)'
    <3>1. Later(chan[k + 1].id, k + 1)
      BY <1>3, <1>4, <2>1 DEF IInv, Leaving
    <3>2. PICK j \in DOMAIN chan : j > k + 1 /\ IsEnqueue(chan[j], chan'[k].id)
      BY <1>4, <3>1 DEF Later
    <3>3. j - 1 \in DOMAIN chan' /\ j - 1 > k /\ chan'[j - 1] = chan[j]
      BY <1>4, <3>2
    <3> QED  BY <3>2, <3>3 DEF Later
  <2>2. ASSUME ev.type = "Withdraw", ev.id \in owed'
        PROVE  ev.id \in Enqueued(chan')
    BY <1>2, <1>3, <1>18, <2>2 DEF IInv, Leaving
  <2> QED  BY <1>6, <2>1, <2>2 DEF Leaving
<1>21. Paced'
  <2>1. \A k \in DOMAIN chan' : chan'[k].type = "Tick" => chan'[k].now <= clock
    BY <1>4 DEF IInv, Paced
  <2>2. ev.type = "Tick" => ev.now <= clock
    BY <1>2 DEF IInv, Paced
  <2>3. \A id \in Id : InfraTold(id) => InfraTold(id)'
    BY <1>1, <1>3, EmptySeq DEF InfraTold
  <2> QED  BY <1>3, <1>6, <2>1, <2>2, <2>3 DEF IInv, Paced
<1>22. Tombs'
  <2>0. Tombs
    BY DEF IInv
  <2>1. \A j, k \in DOMAIN chan' :
          chan'[j].type = "Withdraw" /\ Leaves(chan'[k], chan'[j].id) => j = k
    <3>1. \A j, k \in DOMAIN chan' :
            chan'[j].type = "Withdraw" /\ Leaves(chan'[k], chan'[j].id) => j + 1 = k + 1
      BY <1>4, <2>0 DEF Tombs
    <3> QED  BY <1>4, <3>1
  <2>2. ASSUME NEW k \in DOMAIN chan', chan'[k].type = "Withdraw"
        PROVE  chan'[k].id \in tombs' \ clearing'
    <3>1. chan[k + 1].type = "Withdraw" /\ chan[k + 1].id \in tombs
      BY <1>4, <2>0, <2>2 DEF Tombs
    <3>2. ~Leaves(ev, chan[k + 1].id)
      BY <1>2, <1>4, <2>0, <3>1 DEF Tombs
    <3> QED  BY <1>3, <1>4, <2>2, <3>1, <3>2 DEF Leaves
  <2>3. ASSUME NEW id \in tombs' \ clearing'
        PROVE  \E k \in DOMAIN chan' : Leaves(chan'[k], id)
    <3>1. PICK k \in DOMAIN chan : Leaves(chan[k], id)
      BY <1>1, <1>3, <2>0, <2>3 DEF Tombs
    <3>2. k # 1
      BY <1>3, <2>3, <3>1 DEF Leaves
    <3> QED  BY <1>4, <3>1, <3>2
  <2>4. clearing' \subseteq tombs'
    BY <1>2, <1>3, <2>0 DEF Tombs
  <2>5. \A k \in DOMAIN pending' : pending'[k].type = "Withdraw" => clearing' = {pending'[k].id}
    BY <1>3, <1>6
  <2> QED  BY <1>3, <2>1, <2>2, <2>3, <2>4, <2>5 DEF Tombs
<1>23. Hidden'
  <2> SUFFICES ASSUME NEW id \in Id, ack[id] = "sent"
               PROVE  Obeyed(id)' /\ (Quiet(id) => id \notin Ids(accepted'))
    BY <1>3 DEF Hidden, Quiet
  <2>1. Obeyed(id) /\ (Quiet(id) => id \notin Ids(accepted))
    BY DEF IInv, Hidden
  <2>2. Quiet(id) => id \notin Ids(accepted')
    <3>1. ev.type = "Enqueue" => Ids(accepted') \subseteq Ids(accepted)
      BY <1>3, WithoutRoster DEF IInv, Typed
    <3> QED  BY <1>3, <2>1, <3>1
  <2>3. ASSUME NEW k \in DOMAIN chan, Leaves(chan[k], id), ~Later(id, k)
        PROVE  Obeyed(id)'
    <3>1. CASE k = 1
      <4>1. id \notin Enqueued(chan')
        <5>1. ASSUME id \in Enqueued(chan') PROVE FALSE
          <6>1. PICK j \in DOMAIN chan' : IsEnqueue(chan'[j], id)
            BY <5>1, EnqueuedIs
          <6>2. j + 1 \in DOMAIN chan /\ j + 1 > 1 /\ IsEnqueue(chan[j + 1], id)
            BY <1>4, <6>1
          <6> QED  BY <2>3, <3>1, <6>2 DEF Later
        <5> QED  BY <5>1
      <4> QED  BY <1>5, <2>3, <3>1, <4>1 DEF Obeyed
    <3>2. CASE k # 1
      <4>1. k - 1 \in DOMAIN chan' /\ Leaves(chan'[k - 1], id) /\ k - 1 + 1 = k
        BY <1>4, <2>3, <3>2
      <4>2. ~Later(id, k - 1)'
        BY <1>19, <2>3, <4>1
      <4> QED  BY <4>1, <4>2 DEF Obeyed
    <3> QED  BY <3>1, <3>2
  <2>4. ASSUME id \notin Enqueued(chan), Out(id) PROVE Obeyed(id)'
    <3>1. id \notin Enqueued(chan') /\ id \notin Enqueued(pending')
      BY <1>4, <1>14, <2>4
    <3>2. Out(id)'
      BY <1>3, <1>15, <2>4, <3>1 DEF Out
    <3> QED  BY <3>1, <3>2 DEF Obeyed
  <2>5. \A k \in DOMAIN pending : FALSE
    BY <1>1, EmptySeq
  <2> QED  BY <2>1, <2>2, <2>3, <2>4, <2>5 DEF Obeyed
<1> QED  BY <1>8, <1>9, <1>10, <1>13, <1>16, <1>20, <1>21, <1>22, <1>23 DEF IInv

\* The end of a blocking action: the lane's clock catches up, nothing moves.
LEMMA SyncIs ==
  ASSUME IInv, NEW events, EndAction(events)
  PROVE  /\ Sound(lane') /\ Where(lane') = Where(lane) /\ lane'.phase = lane.phase
         /\ lane'.generation = lane.generation /\ lane'.inFlight = lane.inFlight
         /\ lane'.infraRetryAfter = lane.infraRetryAfter
         /\ lane'.now = clock /\ lane.now <= clock /\ lane.now \in Nat /\ clock \in Nat
<1>1. Sound(lane) /\ lane \in LaneState /\ clock \in Nat /\ lane' = AdvanceClock(lane, clock)
  BY ClockType DEF IInv, Typed, Sound, EndAction
<1>2. lane.now \in Nat /\ lane.now <= clock
  BY <1>1, LaneNumbers DEF IInv, Paced
<1>3. Sound(lane') /\ Where(lane') = Where(lane)
  BY <1>1, AdvanceSound
<1>4. /\ lane'.phase = lane.phase /\ lane'.generation = lane.generation
      /\ lane'.inFlight = lane.inFlight /\ lane'.infraRetryAfter = lane.infraRetryAfter
      /\ lane'.now = IF clock > lane.now THEN clock ELSE lane.now
  BY <1>1, TimeKeeps
<1> QED  BY <1>1, <1>2, <1>3, <1>4

LEMMA EndActionIs ==
  ASSUME IInv, NEW events \in Seq(Event), EndAction(events)
  PROVE  /\ busy /\ busy' = FALSE /\ pumping /\ Homeless /\ todo # <<>>
         /\ todo' \in Seq(Action) /\ Len(todo') = Len(todo) - 1 /\ Len(todo) \in Nat
         /\ \A k \in DOMAIN todo' : /\ k \in Nat /\ k + 1 \in DOMAIN todo
                                    /\ todo'[k] = todo[k + 1] /\ todo'[k].act # "land"
         /\ InHand' = {}
         /\ pending' = pending \o events /\ pending' \in Seq(Event)
         /\ UNCHANGED <<withdrawn, chan, accepted, tombs, clock, call, calls, ack,
                        pumping, steps, clearing>>
<1>1. /\ busy /\ busy' = FALSE /\ todo' = Tail(todo) /\ pending' = pending \o events
      /\ UNCHANGED <<withdrawn, chan, accepted, tombs, clock, call, calls, ack,
                     pumping, steps, clearing>>
  BY DEF EndAction, client
<1>2. /\ todo # <<>> /\ todo \in Seq(Action) /\ pending \in Seq(Event) /\ pumping
  BY <1>1 DEF IInv, Typed, Shape
<1>3. Homeless
  BY <1>2 DEF IInv, Fresh
<1>4. /\ todo' \in Seq(Action) /\ Len(todo') = Len(todo) - 1 /\ Len(todo) \in Nat
      /\ \A k \in DOMAIN todo' : k \in Nat /\ k + 1 \in DOMAIN todo /\ todo'[k] = todo[k + 1]
  BY <1>1, <1>2, TailPositions, Positions
<1>5. \A k \in DOMAIN todo' : k \in Nat /\ k # 0
  BY <1>4, Positions
<1>6. \A k \in DOMAIN todo' : todo'[k].act # "land"
  <2>1. \A k \in DOMAIN todo' : k + 1 # 1
    BY <1>5
  <2> QED  BY <1>4, <2>1 DEF IInv, Shape
<1>7. InHand' = {}
  BY <1>6, InHandIs
<1>8. pending' \in Seq(Event)
  BY <1>1, <1>2, ConcatProperties
<1> QED  BY <1>1, <1>2, <1>3, <1>4, <1>6, <1>7, <1>8

LEMMA EndTyped ==
  ASSUME IInv, NEW events \in Seq(Event), EndAction(events),
         owed' \in SUBSET Id, retryFrom' \in [Id -> Nat]
  PROVE  Typed' /\ Shape'
<1>0. /\ todo' \in Seq(Action) /\ Len(todo') = Len(todo) - 1 /\ Len(todo) \in Nat
      /\ \A k \in DOMAIN todo' : k \in Nat /\ k + 1 \in DOMAIN todo /\ todo'[k] = todo[k + 1]
      /\ busy' = FALSE /\ pumping /\ pumping' = pumping /\ pending' \in Seq(Event)
      /\ UNCHANGED <<withdrawn, chan, accepted, tombs, clock, call, calls, ack, steps, clearing>>
  BY EndActionIs
<1>1. Typed'
  <2>1. Sound(lane')
    BY SyncIs
  <2> QED  BY <1>0, <2>1 DEF IInv, Typed
<1>2. Len(todo') <= 2
  BY <1>0 DEF IInv, Shape
<1>3. \A k \in DOMAIN todo' : todo'[k].act = "build" => k = Len(todo')
  <2>1. \A k \in DOMAIN todo' : todo'[k].act = "build" => k + 1 = Len(todo)
    BY <1>0 DEF IInv, Shape
  <2> QED  BY <1>0, <2>1
<1>4. \A k \in DOMAIN todo' : todo'[k].act # "land"
  BY EndActionIs
<1>5. Shape'
  BY <1>0, <1>2, <1>3, <1>4 DEF Shape
<1> QED  BY <1>1, <1>5

LEMMA EndQueues ==
  ASSUME IInv, NEW events \in Seq(Event), EndAction(events), Homeless', owed' \subseteq owed
  PROVE  Leaving' /\ Tombs'
<1>1. chan' = chan /\ clearing' = clearing /\ tombs' = tombs /\ pumping /\ pumping' = pumping
  BY EndActionIs
<1>2. \A k \in DOMAIN pending' : pending'[k].type # "Withdraw"
  BY EventFields DEF Homeless
<1>3. Leaving'
  BY <1>1, <1>2 DEF IInv, Leaving, Later
<1>4. Tombs'
  BY <1>1, <1>2 DEF IInv, Tombs
<1> QED  BY <1>3, <1>4

LEMMA EndHidden ==
  ASSUME IInv, NEW events \in Seq(Event), EndAction(events),
         Enqueued(pending') \subseteq Enqueued(pending) \cup InHand
  PROVE  Hidden'
<1>1. chan' = chan /\ ack' = ack /\ call' = call /\ accepted' = accepted /\ InHand' = {}
      /\ Where(lane') = Where(lane) /\ Homeless
  BY EndActionIs, SyncIs
<1>2. \A k \in DOMAIN pending : pending[k].type # "Withdraw"
  BY <1>1, EventFields DEF Homeless
<1>3. \A id : Out(id) => Out(id)'
  BY <1>1 DEF Out
<1>4. \A id : Obeyed(id) => Obeyed(id)'
  BY <1>1, <1>2, <1>3 DEF Obeyed, Later, Leaves
<1>5. \A id : Quiet(id)' <=> Quiet(id)
  BY <1>1 DEF Quiet
<1> QED  BY <1>1, <1>4, <1>5 DEF IInv, Hidden

\* What a build may report of a roster.
LEMMA OutcomesNamed ==
  ASSUME NEW ms, NEW o \in OutcomesOf(ms)
  PROVE  o.kind \in {"Conflict", "Stale", "RosterStale"} => o.id \in Ids(ms)
<1> DEFINE stale == [kind : {"Stale"}, id : Ids(ms)]
           conflict(m) == [kind : {"Conflict"}, id : {m.id}, files : SUBSET Changes[m]]
<1>1. \A v \in MergeVerdicts(ms) : /\ v.kind \in {"Infra", "Stale", "Conflict"}
                                   /\ v.kind # "Infra" => v.id \in Ids(ms)
  <2>1. \A v \in stale : v.kind = "Stale" /\ v.id \in Ids(ms)
    OBVIOUS
  <2>2. \A m \in Members(ms) : m.id \in Ids(ms)
    BY DEF Members, Ids
  <2>3. \A m : \A v \in conflict(m) : v.kind = "Conflict" /\ v.id = m.id
    OBVIOUS
  <2>4. ASSUME NEW v \in MergeVerdicts(ms)
        PROVE  \/ v = [kind |-> "Infra"] \/ v \in stale
               \/ \E m \in Members(ms) : v \in conflict(m)
    BY <2>4 DEF MergeVerdicts
  <2> QED  BY <2>1, <2>2, <2>3, <2>4
<1>2. \A v \in LegVerdicts(ms) :
        v.kind \in {"Conflict", "Stale", "RosterStale"} => v.id \in Ids(ms)
  BY DEF LegVerdicts
<1> QED  BY <1>1, <1>2 DEF OutcomesOf

LEMMA FinishBuildInv == ASSUME IInv, NEW o \in Outcome, FinishBuild(o) PROVE IInv'
<1> DEFINE ms == todo[1].members
           ev == FinishedEvent(todo[1].generation, o)
<1>1. /\ busy /\ todo[1].act = "build" /\ o \in OutcomesOf(ms) /\ EndAction(<<ev>>)
      /\ retryFrom' = [id \in Id |-> IF o.kind = "Infra" /\ id \in Ids(ms)
                                     THEN clock + InfraBackoff ELSE retryFrom[id]]
      /\ owed' = owed /\ compiled' = [compiled EXCEPT !.verdict = o.kind]
  BY DEF FinishBuild
<1>2. /\ todo # <<>> /\ 1 \in DOMAIN todo /\ todo[1].generation \in Nat /\ pending \in Seq(Event)
      /\ Sound(lane)
  BY <1>1, TodoFirst DEF IInv, Shape, Typed
<1>3. ev \in FollowUp /\ ev.type = "BuildFinished" /\ ev.outcome = o
      /\ ev.generation = todo[1].generation
  BY <1>2 DEF FinishedEvent, FollowUp
<1>4. ev \in Event /\ <<ev>> \in Seq(Event)
  BY <1>3, EventFields
<1> HIDE DEF ev
<1>5. /\ todo' = <<>> /\ Homeless /\ UNCHANGED <<chan, clock>> /\ pending' = pending \o <<ev>>
      /\ InHand' = {} /\ busy' = FALSE
  <2>1. Len(todo) = 1
    BY <1>1, <1>2 DEF IInv, Shape
  <2>2. /\ todo' \in Seq(Action) /\ Len(todo') = Len(todo) - 1
        /\ Homeless /\ UNCHANGED <<chan, clock>> /\ pending' = pending \o <<ev>>
        /\ InHand' = {} /\ busy' = FALSE
    BY <1>1, <1>4, EndActionIs
  <2>3. todo' = <<>>
    BY <2>1, <2>2, EmptySeq
  <2> QED  BY <2>2, <2>3
<1>6. pending' = Append(pending, ev)
  BY <1>2, <1>4, <1>5, AppendIsConcat
<1>7. /\ Len(pending) + 1 \in DOMAIN pending' /\ pending'[Len(pending) + 1] = ev
      /\ \A k \in DOMAIN pending' :
           \/ k \in DOMAIN pending /\ pending'[k] = pending[k]
           \/ k = Len(pending) + 1 /\ pending'[k] = ev
  <2>1. /\ Len(pending) + 1 \in DOMAIN Append(pending, ev)
        /\ Append(pending, ev)[Len(pending) + 1] = ev
        /\ \A k \in DOMAIN pending : Append(pending, ev)[k] = pending[k]
        /\ \A k \in DOMAIN Append(pending, ev) : k \in DOMAIN pending \/ k = Len(pending) + 1
    BY <1>2, <1>4, AppendPositions
  <2> QED  BY <1>6, <2>1
<1>8. \A id : id \in Enqueued(pending') <=> id \in Enqueued(pending)
  BY <1>2, <1>3, <1>4, <1>6, AppendEnqueued DEF IsEnqueue
<1>9. /\ lane.phase = "Building" /\ ms = lane.inFlight /\ todo[1].generation = lane.generation
      /\ \A k \in DOMAIN pending : pending[k].type # "BuildFinished"
  BY <1>1, <1>2 DEF IInv, Completing
<1>10. /\ Where(lane') = Where(lane) /\ lane'.phase = lane.phase
       /\ lane'.generation = lane.generation /\ lane'.inFlight = lane.inFlight
       /\ lane'.now = clock /\ lane.now <= clock /\ lane.now \in Nat /\ clock \in Nat
  BY <1>1, SyncIs
<1>11. DOMAIN todo' = {}
  BY <1>5, EmptySeq
<1>12. InHand = {}
  <2>1. \A k \in DOMAIN todo : todo[k].act # "land"
    BY <1>1 DEF IInv, Shape
  <2> QED  BY <2>1, InHandIs
<1>13. Typed' /\ Shape'
  <2>1. clock + InfraBackoff \in Nat
    BY <1>10, ConfigAssumption
  <2>2. \A id \in Id : retryFrom[id] \in Nat
    BY DEF IInv, Typed
  <2>3. retryFrom' \in [Id -> Nat]
    BY <1>1, <2>1, <2>2
  <2>4. owed' \in SUBSET Id
    BY <1>1 DEF IInv, Typed
  <2> QED  BY <1>1, <1>4, <2>3, <2>4, EndTyped
<1>14. Homeless'
  <2>1. \A k \in DOMAIN pending' : pending'[k] \in FollowUp
    BY <1>3, <1>5, <1>7 DEF Homeless
  <2>2. \A k \in DOMAIN pending' : pending'[k].type = "Enqueue" =>
          k \in DOMAIN pending /\ pending'[k] = pending[k]
    BY <1>3, <1>7
  <2>3. \A j, k \in DOMAIN pending' :
          pending'[j].type = "Enqueue" /\ pending'[k].type = "Enqueue"
            /\ pending'[j].member.id = pending'[k].member.id => j = k
    BY <1>5, <2>2 DEF Homeless
  <2>4. \A k \in DOMAIN pending' :
          pending'[k].type = "Enqueue" => pending'[k].member.id \notin Where(lane')
    BY <1>5, <1>10, <2>2 DEF Homeless
  <2> QED  BY <1>11, <2>1, <2>3, <2>4 DEF Homeless
<1>15. Completing'
  <2>1. \A k \in DOMAIN pending' :
          pending'[k].type = "BuildFinished" => pending'[k] = ev /\ k = Len(pending) + 1
    BY <1>7, <1>9
  <2>2. ev.outcome.kind \in {"Conflict", "Stale", "RosterStale"} =>
          ev.outcome.id \in Ids(lane'.inFlight)
    BY <1>1, <1>3, <1>9, <1>10, OutcomesNamed
  <2>3. ev.generation = lane'.generation /\ lane'.phase = "Building"
    BY <1>3, <1>9, <1>10
  <2>4. \E k \in DOMAIN pending' : pending'[k].type = "BuildFinished"
    BY <1>3, <1>7
  <2> QED  BY <1>5, <1>11, <2>1, <2>2, <2>3, <2>4 DEF Completing
<1>16. Compiling'
  <2>1. \A k \in DOMAIN pending' : Ended(pending'[k]) => pending'[k] = ev
    BY <1>7, <1>9 DEF Ended
  <2>2. compiled = Candidate(lane'.inFlight, "none")
    BY <1>1, <1>9, <1>10 DEF IInv, Compiling
  <2>3. compiled' = Candidate(lane'.inFlight, o.kind)
    BY <1>1, <2>2 DEF Candidate
  <2>4. \E k \in DOMAIN pending' : Ended(pending'[k])
    BY <1>3, <1>7 DEF Ended
  <2> QED  BY <1>3, <1>5, <1>11, <2>1, <2>3, <2>4 DEF Compiling
<1>17. Kept'
  BY <1>1, <1>5, <1>8, <1>10, <1>12 DEF IInv, Kept
<1>18. Leaving' /\ Tombs'
  <2>1. owed' \subseteq owed
    BY <1>1
  <2> QED  BY <1>1, <1>4, <1>14, <2>1, EndQueues
<1>19. Paced'
  <2>1. \A k \in DOMAIN pending' : pending'[k].type # "Tick"
    BY <1>14, EventFields DEF Homeless
  <2>2. ASSUME NEW id \in Id PROVE (retryFrom[id] <= lane.now \/ InfraTold(id))'
    <3>1. retryFrom[id] <= lane.now /\ retryFrom[id] \in Nat
      BY <1>9 DEF IInv, Paced, InfraTold, Typed
    <3>2. CASE o.kind = "Infra" /\ id \in Ids(ms)
      <4>1. retryFrom'[id] = clock + InfraBackoff
        BY <1>1, <3>2
      <4>2. retryFrom'[id] <= lane'.now + InfraBackoff
        BY <1>10, <4>1, ConfigAssumption
      <4>3. id \in Ids(lane'.inFlight)
        BY <1>9, <1>10, <3>2
      <4> QED  BY <1>3, <1>7, <3>2, <4>2, <4>3 DEF InfraTold
    <3>3. CASE ~(o.kind = "Infra" /\ id \in Ids(ms))
      <4>1. retryFrom'[id] = retryFrom[id]
        BY <1>1, <3>3
      <4> QED  BY <1>10, <3>1, <4>1
    <3> QED  BY <3>2, <3>3
  <2>3. \A k \in DOMAIN chan : chan[k].type = "Tick" => chan[k].now <= clock
    BY DEF IInv, Paced
  <2> QED  BY <1>5, <1>10, <2>1, <2>2, <2>3 DEF Paced
<1>20. Hidden'
  <2>1. Enqueued(pending') \subseteq Enqueued(pending) \cup InHand
    BY <1>8
  <2> QED  BY <1>1, <1>4, <2>1, EndHidden
<1> QED  BY <1>13, <1>14, <1>15, <1>16, <1>17, <1>18, <1>19, <1>20 DEF IInv

\* The roster being landed: the only one in hand, and nowhere else.
LEMMA LandingIs ==
  ASSUME IInv, busy, todo[1].act = "land"
  PROVE  LET ms == todo[1].members
         IN /\ ms \in Seq(Member) /\ Distinct(ms) /\ InHand = Ids(ms)
            /\ \A id \in Ids(ms) : id \notin Where(lane) /\ id \notin Enqueued(pending)
            /\ \A k \in DOMAIN pending : pending[k] \in FollowUp /\ pending[k].type # "BuildFinished"
<1>1. todo # <<>> /\ pumping
  BY DEF IInv, Shape
<1>2. 1 \in DOMAIN todo /\ todo[1].members \in Seq(Member)
  BY <1>1, TodoFirst DEF IInv
<1>3. Homeless
  BY <1>1 DEF IInv, Fresh
<1>4. /\ Distinct(todo[1].members)
      /\ Ids(todo[1].members) \cap (Where(lane) \cup Enqueued(pending)) = {}
      /\ \A k \in DOMAIN pending : pending[k] \in FollowUp
  BY <1>2, <1>3 DEF Homeless
<1>5. \A k \in DOMAIN pending : pending[k].type # "BuildFinished"
  BY <1>1 DEF IInv, Completing
<1>6. \A k \in DOMAIN todo : todo[k].act = "land" => k = 1
  BY DEF IInv, Shape
<1>7. InHand = Ids(todo[1].members)
  BY <1>2, <1>6, InHandIs
<1> QED  BY <1>2, <1>4, <1>5, <1>7

\* What every end of a land keeps.
LEMMA LandEnds ==
  ASSUME IInv, NEW events \in Seq(Event), EndAction(events), todo[1].act = "land",
         \A k \in DOMAIN events : events[k].type \in {"LandFailed", "Enqueue"},
         retryFrom' = retryFrom, compiled' = [compiled EXCEPT !.landed = TRUE]
  PROVE  Completing' /\ Compiling' /\ Paced'
<1>1. /\ busy /\ busy' = FALSE /\ todo # <<>> /\ chan' = chan /\ clock' = clock
      /\ \A k \in DOMAIN todo' : /\ k \in Nat /\ k + 1 \in DOMAIN todo
                                 /\ todo'[k] = todo[k + 1] /\ todo'[k].act # "land"
      /\ pending' = pending \o events
  BY EndActionIs
<1>2. /\ lane'.phase = lane.phase /\ lane'.generation = lane.generation
      /\ lane'.inFlight = lane.inFlight /\ lane'.infraRetryAfter = lane.infraRetryAfter
      /\ lane'.now = clock /\ lane.now <= clock /\ lane.now \in Nat /\ clock \in Nat
  BY SyncIs
<1>3. \A k \in DOMAIN pending : pending[k] \in FollowUp /\ pending[k].type # "BuildFinished"
  BY <1>1, LandingIs
<1>4. \A k \in DOMAIN pending' : pending'[k].type \in {"LandFailed", "Enqueue"}
  <2>1. pending \in Seq(Event)
    BY DEF IInv, Typed
  <2>2. \A k \in DOMAIN pending : pending[k].type \in {"LandFailed", "Enqueue"}
    BY <1>3, EventFields
  <2>3. /\ \A k \in DOMAIN pending : pending'[k] = pending[k]
        /\ \A k \in DOMAIN events : pending'[k + Len(pending)] = events[k]
        /\ \A k \in DOMAIN pending' : /\ k \in Nat /\ Len(pending) \in Nat
                                      /\ k \in DOMAIN pending \/ k - Len(pending) \in DOMAIN events
    BY <1>1, <2>1, ConcatPositions, Positions
  <2>4. \A k \in DOMAIN pending' : (k - Len(pending)) + Len(pending) = k
    BY <2>3
  <2> QED  BY <2>2, <2>3, <2>4
<1>5. Completing'
  <2>1. ASSUME lane.phase = "Building" PROVE \E k \in DOMAIN todo' : todo'[k].act = "build"
    <3>1. PICK k \in DOMAIN todo : todo[k].act = "build"
      BY <1>3, <2>1 DEF IInv, Completing
    <3>2. k # 1
      BY <3>1
    <3>3. todo \in Seq(Action) /\ todo' = Tail(todo)
      BY DEF IInv, Typed, EndAction
    <3>4. k - 1 \in DOMAIN todo' /\ todo'[k - 1] = todo[k]
      BY <1>1, <3>2, <3>3, TailPositions
    <3> QED  BY <3>1, <3>4
  <2>2. \A k \in DOMAIN todo' : todo'[k].act = "build" =>
          /\ lane.phase = "Building"
          /\ todo'[k].members = lane.inFlight /\ todo'[k].generation = lane.generation
    BY <1>1 DEF IInv, Completing
  <2>3. \A k \in DOMAIN pending' : pending'[k].type # "BuildFinished"
    BY <1>4
  <2> QED  BY <1>2, <2>1, <2>2, <2>3 DEF Completing
<1>6. Compiling'
  <2>1. \A k \in DOMAIN pending' : ~ Ended(pending'[k])
    BY <1>4 DEF Ended
  <2>2. 1 \in DOMAIN todo
    BY <1>1, TodoFirst DEF IInv
  <2>3. compiled = Candidate(todo[1].members, "Green")
    BY <2>2 DEF IInv, Compiling
  <2>4. compiled'.landed
    BY <2>3 DEF Candidate
  <2> QED  BY <1>1, <2>1, <2>4 DEF Compiling
<1>7. Paced'
  <2>1. ASSUME NEW id \in Id PROVE (retryFrom[id] <= lane.now \/ InfraTold(id))'
    <3>1. retryFrom[id] \in Nat /\ (retryFrom[id] <= lane.now \/ InfraTold(id))
      BY DEF IInv, Typed, Paced
    <3>2. CASE retryFrom[id] <= lane.now
      BY <1>2, <3>1, <3>2
    <3>3. CASE InfraTold(id)
      <4>1. /\ lane.phase = "Idle" /\ lane.infraRetryAfter # None
            /\ retryFrom[id] <= lane.infraRetryAfter
        BY <1>3, <3>3 DEF InfraTold
      <4> QED  BY <1>2, <4>1 DEF InfraTold
    <3> QED  BY <3>1, <3>2, <3>3
  <2>2. \A k \in DOMAIN chan : chan[k].type = "Tick" => chan[k].now <= clock
    BY DEF IInv, Paced
  <2>3. \A k \in DOMAIN pending' : pending'[k].type # "Tick"
    BY <1>4
  <2>4. lane'.now <= clock'
    BY <1>1, <1>2
  <2> QED  BY <1>1, <2>1, <2>2, <2>3, <2>4 DEF Paced
<1> QED  BY <1>5, <1>6, <1>7

LEMMA LandSucceedsInv == ASSUME IInv, LandSucceeds PROVE IInv'
<1> DEFINE ms == todo[1].members
<1>1. /\ busy /\ todo[1].act = "land" /\ EndAction(<<>>)
      /\ owed' = owed \ (Ids(ms) \ Coming)
      /\ retryFrom' = retryFrom /\ compiled' = [compiled EXCEPT !.landed = TRUE]
  BY DEF LandSucceeds, history
<1>2. <<>> \in Seq(Event) /\ DOMAIN <<>> = {}
  BY EmptySeq
<1>3. ms \in Seq(Member) /\ InHand = Ids(ms)
  BY <1>1, LandingIs
<1>4. /\ Homeless /\ InHand' = {} /\ chan' = chan /\ pending' = pending \o <<>>
      /\ \A k \in DOMAIN todo' : todo'[k].act # "land"
  BY <1>1, <1>2, EndActionIs
<1>5. pending' = pending
  <2>1. pending \in Seq(Event)
    BY DEF IInv, Typed
  <2> QED  BY <1>4, <2>1, ConcatEmptySeq
<1>6. Where(lane') = Where(lane)
  BY <1>1, SyncIs
<1>7. Typed' /\ Shape'
  <2>1. owed \in SUBSET Id /\ retryFrom \in [Id -> Nat]
    BY DEF IInv, Typed
  <2>2. owed' \in SUBSET Id /\ retryFrom' \in [Id -> Nat]
    BY <1>1, <2>1
  <2> QED  BY <1>1, <1>2, <2>2, EndTyped
<1>8. Homeless'
  BY <1>4, <1>5, <1>6 DEF Homeless
<1>9. Completing' /\ Compiling' /\ Paced'
  BY <1>1, <1>2, LandEnds
<1>10. Kept'
  <2>1. \A id \in owed' : id \in owed /\ (id \in Ids(ms) => id \in Enqueued(chan))
    BY <1>1, ComingEnqueued
  <2>2. Enqueued(chan') = Enqueued(chan) /\ Enqueued(pending') = Enqueued(pending)
    BY <1>4, <1>5
  <2> QED  BY <1>3, <1>6, <2>1, <2>2 DEF IInv, Kept
<1>11. Leaving' /\ Tombs'
  <2>1. owed' \subseteq owed
    BY <1>1
  <2> QED  BY <1>1, <1>2, <1>8, <2>1, EndQueues
<1>12. Hidden'
  <2>1. Enqueued(pending') \subseteq Enqueued(pending) \cup InHand
    BY <1>5
  <2> QED  BY <1>1, <1>2, <2>1, EndHidden
<1> QED  BY <1>7, <1>8, <1>9, <1>10, <1>11, <1>12 DEF IInv

\* A failed land sends its members back to the queue, one event each.
LEMMA FailureEvents ==
  ASSUME NEW ms \in Seq(Member)
  PROVE  LET q == <<LandFailedEvent>> \o [k \in DOMAIN ms |-> EnqueueEvent(ms[k])]
         IN /\ q \in Seq(Event)
            /\ \A k \in DOMAIN q : /\ q[k] \in FollowUp /\ k \in Nat
                                   /\ \/ q[k] = LandFailedEvent
                                      \/ k - 1 \in DOMAIN ms /\ q[k] = EnqueueEvent(ms[k - 1])
            /\ \A k \in DOMAIN ms : k + 1 \in DOMAIN q /\ q[k + 1] = EnqueueEvent(ms[k])
<1> DEFINE back == [k \in DOMAIN ms |-> EnqueueEvent(ms[k])]
           q == <<LandFailedEvent>> \o back
<1>1. /\ \A k \in DOMAIN ms : EnqueueEvent(ms[k]) \in FollowUp
      /\ LandFailedEvent \in FollowUp
  BY Positions DEF EnqueueEvent, LandFailedEvent, FollowUp
<1>2. Len(ms) \in Nat /\ DOMAIN ms = 1..Len(ms)
  BY Positions
<1>3. back \in Seq(FollowUp) /\ DOMAIN back = DOMAIN ms
  BY <1>1, <1>2, IsASeq
<1>4. <<LandFailedEvent>> \in Seq(FollowUp) /\ Len(<<LandFailedEvent>>) = 1
      /\ <<LandFailedEvent>>[1] = LandFailedEvent
  BY <1>1
<1> DEFINE one == <<LandFailedEvent>>
<1> HIDE DEF back, one
<1>5. ASSUME NEW p \in Seq(FollowUp), Len(p) = 1, p[1] = LandFailedEvent
      PROVE  /\ p \o back \in Seq(FollowUp)
             /\ \A k \in DOMAIN (p \o back) :
                  /\ k \in Nat
                  /\ \/ (p \o back)[k] = LandFailedEvent
                     \/ k - 1 \in DOMAIN back /\ (p \o back)[k] = back[k - 1]
             /\ \A k \in DOMAIN back : k + 1 \in DOMAIN (p \o back) /\ (p \o back)[k + 1] = back[k]
  <2> DEFINE r == p \o back
  <2>1. /\ r \in Seq(FollowUp)
        /\ \A k \in DOMAIN p : r[k] = p[k]
        /\ \A k \in DOMAIN back : k + 1 \in DOMAIN r /\ r[k + 1] = back[k]
        /\ \A k \in DOMAIN r : k \in Nat /\ (k \in DOMAIN p \/ k - 1 \in DOMAIN back)
    BY <1>3, <1>5, ConcatPositions
  <2>2. DOMAIN p = {1}
    BY <1>5, Positions
  <2> HIDE DEF r
  <2>3. \A k \in DOMAIN r : (k - 1) + 1 = k
    BY <2>1
  <2>4. \A k \in DOMAIN r : \/ r[k] = LandFailedEvent
                            \/ k - 1 \in DOMAIN back /\ r[k] = back[k - 1]
    BY <1>5, <2>1, <2>2, <2>3
  <2> QED  BY <2>1, <2>4 DEF r
<1>6. q = one \o back
  BY DEF one
<1>7. one \in Seq(FollowUp) /\ Len(one) = 1 /\ one[1] = LandFailedEvent
  BY <1>4 DEF one
<1> HIDE DEF q
<1>8. /\ q \in Seq(FollowUp)
      /\ \A k \in DOMAIN q : /\ k \in Nat
                             /\ \/ q[k] = LandFailedEvent
                                \/ k - 1 \in DOMAIN back /\ q[k] = back[k - 1]
      /\ \A k \in DOMAIN back : k + 1 \in DOMAIN q /\ q[k + 1] = back[k]
  BY <1>5, <1>6, <1>7
<1>9. \A k \in DOMAIN back : back[k] = EnqueueEvent(ms[k])
  BY <1>3 DEF back
<1>10. q \in Seq(Event) /\ \A k \in DOMAIN q : q[k] \in FollowUp
  <2>1. \A k \in 1..Len(q) : q[k] \in Event
    BY <1>8, EventFields, Positions
  <2> QED  BY <1>8, <2>1, Positions, SeqDef
<1> QED  BY <1>3, <1>8, <1>9, <1>10 DEF q, back

LEMMA LandFailsInv == ASSUME IInv, LandFails PROVE IInv'
<1> DEFINE ms == todo[1].members
           q == <<LandFailedEvent>> \o [k \in DOMAIN ms |-> EnqueueEvent(ms[k])]
           Back(k) == k - Len(pending)
<1>1. /\ busy /\ todo[1].act = "land" /\ EndAction(q)
      /\ owed' = owed /\ retryFrom' = retryFrom
      /\ compiled' = [compiled EXCEPT !.landed = TRUE]
  BY DEF LandFails
<1>2. /\ ms \in Seq(Member) /\ Distinct(ms) /\ InHand = Ids(ms)
      /\ \A id \in Ids(ms) : id \notin Where(lane) /\ id \notin Enqueued(pending)
      /\ \A k \in DOMAIN pending : pending[k] \in FollowUp
  BY <1>1, LandingIs
<1> HIDE DEF ms
<1>3. /\ q \in Seq(Event)
      /\ \A k \in DOMAIN q : /\ q[k] \in FollowUp /\ k \in Nat
                             /\ \/ q[k] = LandFailedEvent
                                \/ k - 1 \in DOMAIN ms /\ q[k] = EnqueueEvent(ms[k - 1])
      /\ \A k \in DOMAIN ms : k + 1 \in DOMAIN q /\ q[k + 1] = EnqueueEvent(ms[k])
  BY <1>2, FailureEvents
<1> HIDE DEF q
<1>4. /\ Homeless /\ InHand' = {} /\ chan' = chan /\ pending' = pending \o q
      /\ \A k \in DOMAIN todo' : todo'[k].act # "land"
  BY <1>1, <1>3, EndActionIs
<1>5. /\ Len(pending) \in Nat
      /\ \A k \in DOMAIN pending : k \in DOMAIN pending' /\ pending'[k] = pending[k]
      /\ \A k \in DOMAIN q : k + Len(pending) \in DOMAIN pending' /\ pending'[k + Len(pending)] = q[k]
      /\ \A k \in DOMAIN pending' : k \in Nat /\ (k \in DOMAIN pending \/ Back(k) \in DOMAIN q)
  <2>1. pending \in Seq(Event)
    BY DEF IInv, Typed
  <2> QED  BY <1>3, <1>4, <2>1, ConcatPositions, Positions
<1>6. \A k \in DOMAIN pending' :
        \/ k \in DOMAIN pending /\ pending'[k] = pending[k]
        \/ Back(k) \in DOMAIN q /\ pending'[k] = q[Back(k)]
  <2>1. \A k \in DOMAIN pending' : Back(k) + Len(pending) = k
    BY <1>5
  <2> QED  BY <1>5, <2>1
<1>7. Where(lane') = Where(lane)
  BY <1>1, SyncIs
\* An enqueue in the pump is an old one, or of one member of the roster.
<1>8. ASSUME NEW k \in DOMAIN pending', pending'[k].type = "Enqueue"
      PROVE  \/ k \in DOMAIN pending /\ pending'[k] = pending[k]
             \/ /\ Back(k) - 1 \in DOMAIN ms /\ pending'[k].member = ms[Back(k) - 1]
                /\ pending'[k].member.id \in Ids(ms)
  <2>1. CASE Back(k) \in DOMAIN q /\ pending'[k] = q[Back(k)]
    <3>1. Back(k) - 1 \in DOMAIN ms /\ pending'[k] = EnqueueEvent(ms[Back(k) - 1])
      BY <1>3, <1>8, <2>1 DEF LandFailedEvent
    <3> QED  BY <3>1 DEF EnqueueEvent, Ids
  <2> QED  BY <1>6, <2>1
<1>9. \A id : id \in Enqueued(pending') <=> id \in Enqueued(pending) \/ id \in Ids(ms)
  <2>1. ASSUME NEW id, id \in Enqueued(pending') PROVE id \in Enqueued(pending) \/ id \in Ids(ms)
    BY <1>8, <2>1, EnqueuedIs DEF IsEnqueue
  <2>2. ASSUME NEW id, id \in Enqueued(pending) PROVE id \in Enqueued(pending')
    BY <1>5, <2>2, EnqueuedIs DEF IsEnqueue
  <2>3. ASSUME NEW id, id \in Ids(ms) PROVE id \in Enqueued(pending')
    <3>1. PICK k \in DOMAIN ms : ms[k].id = id
      BY <2>3 DEF Ids
    <3>2. /\ (k + 1) + Len(pending) \in DOMAIN pending'
          /\ pending'[(k + 1) + Len(pending)] = EnqueueEvent(ms[k])
      BY <1>3, <1>5
    <3> QED  BY <3>1, <3>2, EnqueuedIs DEF IsEnqueue, EnqueueEvent
  <2> QED  BY <2>1, <2>2, <2>3
<1>10. Typed' /\ Shape'
  <2>1. owed \in SUBSET Id /\ retryFrom \in [Id -> Nat]
    BY DEF IInv, Typed
  <2>2. owed' \in SUBSET Id /\ retryFrom' \in [Id -> Nat]
    BY <1>1, <2>1
  <2> QED  BY <1>1, <1>3, <2>2, EndTyped
<1>11. Homeless'
  <2>1. \A k \in DOMAIN pending' : pending'[k] \in FollowUp
    BY <1>2, <1>3, <1>6
  <2>2. ASSUME NEW j \in DOMAIN pending', NEW k \in DOMAIN pending',
               pending'[j].type = "Enqueue", pending'[k].type = "Enqueue",
               pending'[j].member.id = pending'[k].member.id
        PROVE  j = k
    <3> DEFINE Old(i) == i \in DOMAIN pending /\ pending'[i] = pending[i]
               New(i) == /\ Back(i) - 1 \in DOMAIN ms /\ pending'[i].member = ms[Back(i) - 1]
                         /\ pending'[i].member.id \in Ids(ms)
    <3>1. (Old(j) \/ New(j)) /\ (Old(k) \/ New(k))
      BY <1>8, <2>2
    <3>2. \A i \in DOMAIN pending' :
            pending'[i].type = "Enqueue" /\ Old(i) => pending'[i].member.id \in Enqueued(pending)
      BY EnqueuedIs DEF IsEnqueue
    <3>3. CASE Old(j) /\ Old(k)
      BY <1>4, <2>2, <3>3 DEF Homeless
    <3>4. CASE New(j) /\ New(k)
      <4>1. Back(j) - 1 = Back(k) - 1
        BY <1>2, <2>2, <3>4 DEF Distinct
      <4>2. j \in Nat /\ k \in Nat /\ Len(pending) \in Nat
        BY <1>5
      <4> QED  BY <4>1, <4>2
    <3>5. ~(Old(j) /\ New(k)) /\ ~(Old(k) /\ New(j))
      BY <1>2, <2>2, <3>2
    <3> QED  BY <3>1, <3>3, <3>4, <3>5
  <2>3. ASSUME NEW k \in DOMAIN pending', pending'[k].type = "Enqueue"
        PROVE  pending'[k].member.id \notin Where(lane')
    BY <1>2, <1>4, <1>7, <1>8, <2>3 DEF Homeless
  <2> QED  BY <1>4, <2>1, <2>2, <2>3 DEF Homeless
<1>12. Completing' /\ Compiling' /\ Paced'
  <2>1. \A k \in DOMAIN q : q[k].type \in {"LandFailed", "Enqueue"}
    BY <1>3 DEF LandFailedEvent, EnqueueEvent
  <2> QED  BY <1>1, <1>3, <2>1, LandEnds
<1>13. Kept'
  BY <1>1, <1>2, <1>4, <1>7, <1>9 DEF IInv, Kept
<1>14. Leaving' /\ Tombs'
  <2>1. owed' \subseteq owed
    BY <1>1
  <2> QED  BY <1>1, <1>3, <1>11, <2>1, EndQueues
<1>15. Hidden'
  <2>1. Enqueued(pending') \subseteq Enqueued(pending) \cup InHand
    BY <1>2, <1>9
  <2> QED  BY <1>1, <1>3, <2>1, EndHidden
<1> QED  BY <1>10, <1>11, <1>12, <1>13, <1>14, <1>15 DEF IInv

-----------------------------------------------------------------------------
(* The request threads and the ticker: they only append to the channel and *)
(* keep the two read-side sets.                                            *)

AtWork == UNCHANGED <<lane, withdrawn, pumping, pending, todo, busy, steps, clearing,
                      refusals, compiled, retryFrom>>

LEMMA AtWorkKeeps ==
  ASSUME IInv, AtWork
  PROVE  /\ Shape' /\ (Fresh \/ Homeless)' /\ Completing' /\ Compiling'
         /\ InHand' = InHand /\ (\A id : Out(id)' <=> Out(id))
<1>1. Shape' /\ (Fresh \/ Homeless)' /\ Completing' /\ Compiling'
  BY WorkKept, ShapeKept, CompilingKept DEF IInv, AtWork
<1>2. InHand' = InHand
  BY DEF AtWork, InHand, Actions
<1>3. \A id : Out(id)' <=> Out(id)
  BY <1>2 DEF Out, AtWork
<1> QED  BY <1>1, <1>2, <1>3

\* The channel with one event more.
LEMMA SentIs ==
  ASSUME Typed, NEW ev \in ChanEvent, chan' = Append(chan, ev)
  PROVE  /\ chan' \in Seq(ChanEvent) /\ Len(chan) \in Nat
         /\ \A k \in DOMAIN chan : /\ k \in Nat /\ k < Len(chan) + 1
                                   /\ k \in DOMAIN chan' /\ chan'[k] = chan[k]
         /\ Len(chan) + 1 \in DOMAIN chan' /\ chan'[Len(chan) + 1] = ev
         /\ \A k \in DOMAIN chan' : /\ k \in Nat /\ k <= Len(chan) + 1
                                    /\ k \in DOMAIN chan \/ k = Len(chan) + 1
         /\ \A id : id \in Enqueued(chan') <=> id \in Enqueued(chan) \/ IsEnqueue(ev, id)
         /\ \A id : \A k \in DOMAIN chan : Later(id, k)' <=> Later(id, k) \/ IsEnqueue(ev, id)
         /\ \A id : \A k \in DOMAIN chan' : k = Len(chan) + 1 => ~ Later(id, k)'
<1>1. chan \in Seq(ChanEvent)
  BY DEF Typed
<1>2. /\ chan' \in Seq(ChanEvent) /\ Len(chan) \in Nat
      /\ \A k \in DOMAIN chan : /\ k \in Nat /\ k < Len(chan) + 1
                                /\ k \in DOMAIN chan' /\ chan'[k] = chan[k]
      /\ Len(chan) + 1 \in DOMAIN chan' /\ chan'[Len(chan) + 1] = ev
      /\ \A k \in DOMAIN chan' : /\ k \in Nat /\ k <= Len(chan) + 1
                                 /\ k \in DOMAIN chan \/ k = Len(chan) + 1
  BY <1>1, AppendPositions, Positions
<1>3. \A id : id \in Enqueued(chan') <=> id \in Enqueued(chan) \/ IsEnqueue(ev, id)
  BY <1>1, AppendEnqueued
<1>4. ASSUME NEW id, NEW k \in DOMAIN chan
      PROVE  (\E j \in DOMAIN chan' : j > k /\ IsEnqueue(chan'[j], id))
               <=> Later(id, k) \/ IsEnqueue(ev, id)
  BY <1>2 DEF Later
<1>5. ASSUME NEW id, NEW k \in DOMAIN chan', k = Len(chan) + 1
      PROVE  ~ \E j \in DOMAIN chan' : j > k /\ IsEnqueue(chan'[j], id)
  <2>1. \A j \in DOMAIN chan' : j \in Nat /\ j <= Len(chan) + 1
    BY <1>2
  <2>2. \A j \in DOMAIN chan' : ~ (j > Len(chan) + 1)
    BY <1>2, <2>1
  <2> QED  BY <1>5, <2>2
<1>6. \A id : \A k \in DOMAIN chan : Later(id, k)' <=> Later(id, k) \/ IsEnqueue(ev, id)
  BY <1>4 DEF Later
<1>7. \A id : \A k \in DOMAIN chan' : k = Len(chan) + 1 => ~ Later(id, k)'
  BY <1>5 DEF Later
<1> QED  BY <1>2, <1>3, <1>6, <1>7

LEMMA SentOwed ==
  ASSUME IInv, AtWork, NEW ev \in ChanEvent, chan' = Append(chan, ev),
         \A id \in owed' : id \in owed \/ IsEnqueue(ev, id),
         ev.type = "Withdraw" => ev.id \notin owed'
  PROVE  Kept' /\ Leaving'
<1>1. /\ \A k \in DOMAIN chan : /\ k \in Nat /\ k < Len(chan) + 1
                                /\ k \in DOMAIN chan' /\ chan'[k] = chan[k]
      /\ chan'[Len(chan) + 1] = ev
      /\ \A k \in DOMAIN chan' : k \in DOMAIN chan \/ k = Len(chan) + 1
      /\ \A id : id \in Enqueued(chan') <=> id \in Enqueued(chan) \/ IsEnqueue(ev, id)
      /\ \A id : \A k \in DOMAIN chan : Later(id, k)' <=> Later(id, k) \/ IsEnqueue(ev, id)
  BY SentIs DEF IInv
<1>2. lane' = lane /\ pending' = pending /\ InHand' = InHand
  BY AtWorkKeeps DEF AtWork
<1>3. Kept'
  BY <1>1, <1>2 DEF IInv, Kept
<1>4. ASSUME NEW k \in DOMAIN chan', chan'[k].type = "Withdraw", chan'[k].id \in owed'
      PROVE  Later(chan[k].id, k)'
  <2>1. k \in DOMAIN chan /\ chan'[k] = chan[k]
    BY <1>1, <1>4
  <2>2. CASE chan[k].id \in owed
    <3>1. Later(chan[k].id, k)
      BY <1>4, <2>1, <2>2 DEF IInv, Leaving
    <3>2. \E j \in DOMAIN chan' : j > k /\ IsEnqueue(chan'[j], chan[k].id)
      BY <1>1, <3>1 DEF Later
    <3> QED  BY <2>1, <3>2 DEF Later
  <2>3. CASE IsEnqueue(ev, chan[k].id)
    <3>1. \E j \in DOMAIN chan' : j > k /\ IsEnqueue(chan'[j], chan[k].id)
      <4>1. Len(chan) + 1 \in DOMAIN chan' /\ Len(chan) + 1 > k
        BY <1>1, <2>1, SentIs DEF IInv
      <4> QED  BY <1>1, <2>3, <4>1
    <3> QED  BY <2>1, <3>1 DEF Later
  <2> QED  BY <1>4, <2>1, <2>2, <2>3
<1>5. \A k \in DOMAIN pending :
        pending[k].type = "Withdraw" /\ pending[k].id \in owed' => pending[k].id \in Enqueued(chan')
  BY <1>1 DEF IInv, Leaving
<1>6. Leaving'
  BY <1>2, <1>4, <1>5 DEF Leaving
<1> QED  BY <1>3, <1>6

LEMMA SentPaced ==
  ASSUME IInv, AtWork, NEW ev \in ChanEvent, chan' = Append(chan, ev),
         clock <= clock', clock' \in 0..MaxTick, ev.type = "Tick" => ev.now = clock'
  PROVE  Paced'
<1>1. /\ \A k \in DOMAIN chan : chan'[k] = chan[k] /\ chan[k] \in ChanEvent
      /\ chan'[Len(chan) + 1] = ev
      /\ \A k \in DOMAIN chan' : k \in DOMAIN chan \/ k = Len(chan) + 1
  BY SentIs, Positions DEF IInv, Typed
<1>2. lane' = lane /\ pending' = pending /\ retryFrom' = retryFrom
  BY DEF AtWork
<1>3. MaxTick \in Nat /\ clock \in Nat /\ lane.now \in Nat
  BY HostAssumption, ClockType, LaneNumbers DEF IInv, Typed
<1>4. clock' \in Nat
  BY <1>3
<1>5. lane.now <= clock'
  BY <1>3, <1>4 DEF IInv, Paced
<1>6. \A k \in DOMAIN chan' : chan'[k].type = "Tick" => chan'[k].now <= clock'
  <2>1. \A k \in DOMAIN chan : chan[k].type = "Tick" => chan[k].now <= clock /\ chan[k].now \in Nat
    BY <1>1, <1>3, EventFields DEF IInv, Paced
  <2> QED  BY <1>1, <1>3, <1>4, <2>1
<1>7. \A k \in DOMAIN pending : pending[k].type = "Tick" => pending[k].now <= clock'
  <2>1. \A k \in DOMAIN pending : pending[k].type = "Tick" => pending[k].now <= clock /\ pending[k].now \in Nat
    BY <1>3, EventFields, Positions DEF IInv, Paced, Typed
  <2> QED  BY <1>3, <1>4, <2>1
<1>8. \A id : InfraTold(id)' <=> InfraTold(id)
  BY <1>2 DEF InfraTold
<1>9. \A id \in Id : (retryFrom[id] <= lane.now \/ InfraTold(id))'
  BY <1>2, <1>8 DEF IInv, Paced
<1> QED  BY <1>2, <1>5, <1>6, <1>7, <1>9 DEF Paced

\* An event that is no withdrawal leaves the tombstones alone.
LEMMA SentTombs ==
  ASSUME IInv, AtWork, NEW ev \in ChanEvent, chan' = Append(chan, ev), tombs' = tombs,
         ev.type # "Withdraw"
  PROVE  Tombs'
<1>1. /\ \A k \in DOMAIN chan : k \in DOMAIN chan' /\ chan'[k] = chan[k]
      /\ \A k \in DOMAIN chan' : k \in DOMAIN chan \/ chan'[k] = ev
  BY SentIs DEF IInv
<1>2. pumping' = pumping /\ clearing' = clearing /\ pending' = pending
  BY DEF AtWork
<1>3. \A k \in DOMAIN chan' : chan'[k].type = "Withdraw" => k \in DOMAIN chan
  BY <1>1
<1> QED  BY <1>1, <1>2, <1>3 DEF IInv, Tombs, Leaves

LEMMA SentObeyed ==
  ASSUME IInv, AtWork, NEW ev \in ChanEvent, chan' = Append(chan, ev), NEW id,
         (Obeyed(id) /\ ~ IsEnqueue(ev, id)) \/ Leaves(ev, id)
  PROVE  Obeyed(id)'
<1>1. /\ \A k \in DOMAIN chan : k \in DOMAIN chan' /\ chan'[k] = chan[k]
      /\ Len(chan) + 1 \in DOMAIN chan' /\ chan'[Len(chan) + 1] = ev
      /\ id \in Enqueued(chan') <=> id \in Enqueued(chan) \/ IsEnqueue(ev, id)
      /\ \A k \in DOMAIN chan : Later(id, k)' <=> Later(id, k) \/ IsEnqueue(ev, id)
      /\ \A k \in DOMAIN chan' : k = Len(chan) + 1 => ~ Later(id, k)'
  BY SentIs DEF IInv
<1>2. pending' = pending /\ (Out(id)' <=> Out(id))
  BY AtWorkKeeps DEF AtWork
<1>3. CASE Leaves(ev, id)
  BY <1>1, <1>3 DEF Obeyed
<1>4. ASSUME ~ IsEnqueue(ev, id), NEW k \in DOMAIN chan, Leaves(chan[k], id), ~ Later(id, k)
      PROVE  Obeyed(id)'
  BY <1>1, <1>4 DEF Obeyed
<1>5. ASSUME ~ IsEnqueue(ev, id), id \notin Enqueued(chan),
             (\E k \in DOMAIN pending : Leaves(pending[k], id)) \/ Out(id)
      PROVE  Obeyed(id)'
  BY <1>1, <1>2, <1>5 DEF Obeyed
<1> QED  BY <1>3, <1>4, <1>5 DEF Obeyed

\* A client that begins or ends a call, and the withdrawals half way.
LEMMA QuietMoves ==
  ASSUME Typed, NEW c \in Client, NEW x, call' = [call EXCEPT ![c] = x], NEW id, Quiet(id)'
  PROVE  /\ x.op # "forget" \/ x.id # id
         /\ call[c].op # "forget" \/ call[c].id # id => Quiet(id)
<1>1. call'[c] = x /\ \A d \in Client : d # c => call'[d] = call[d]
  BY DEF Typed
<1> QED  BY <1>1 DEF Quiet

LEMMA EnqueueBeginInv ==
  ASSUME IInv, NEW c \in Client, NEW m \in Member, EnqueueBegin(c, m) PROVE IInv'
<1> DEFINE x == [op |-> "enqueue", member |-> m]
<1>1. /\ call' = [call EXCEPT ![c] = x] /\ call[c] = Ready
      /\ accepted' = Remember(m) /\ ack' = [ack EXCEPT ![m.id] = "none"]
      /\ UNCHANGED <<lane, withdrawn, chan, tombs, clock, pumping, pending, todo, busy, steps,
                     clearing, owed, refusals, compiled, retryFrom>>
  BY DEF EnqueueBegin, Begins, worker, history
<1>2. AtWork /\ m.id \in Id /\ x \in Call
  BY <1>1, MemberFields DEF AtWork, Call
<1>3. accepted' \in Seq(Member) /\ Ids(accepted') \subseteq Ids(accepted) \cup {m.id}
  <2>1. accepted \in Seq(Member)
    BY DEF IInv, Typed
  <2>2. CASE m.id \in Ids(accepted)
    <3> DEFINE r == [k \in DOMAIN accepted |-> IF accepted[k].id = m.id THEN m ELSE accepted[k]]
    <3>1. DOMAIN r = DOMAIN accepted /\ r = [k \in DOMAIN accepted |-> r[k]]
      OBVIOUS
    <3>2. \A k \in DOMAIN accepted : r[k] \in Member /\ r[k].id = accepted[k].id
      BY <2>1, Positions
    <3>3. accepted' = r
      BY <1>1, <2>2 DEF Remember
    <3> HIDE DEF r
    <3> QED  BY <2>1, <3>1, <3>2, <3>3, ReplaceRoster
  <2>3. CASE m.id \notin Ids(accepted)
    <3>1. accepted' = Append(accepted, m)
      BY <1>1, <2>3 DEF Remember
    <3> QED  BY <2>1, <3>1, AppendPositions DEF Ids
  <2> QED  BY <2>2, <2>3
<1>4. Typed'
  <2>1. call' \in [Client -> Call] /\ ack' \in [Id -> {"none", "sent", "already pending"}]
    BY <1>1, <1>2 DEF IInv, Typed
  <2> QED  BY <1>1, <1>3, <2>1 DEF IInv, Typed
<1>5. Enqueued(chan) \subseteq Enqueued(chan') /\ owed' \subseteq owed
  BY <1>1
<1>6. Kept' /\ Leaving' /\ Paced' /\ Tombs'
  BY <1>1, <1>5, KeptKept, LeavingKept, PacedKept, TombsKept DEF IInv
<1>7. Hidden'
  <2>1. \A id \in Id : ack'[id] = "sent" => ack[id] = "sent" /\ id # m.id
    BY <1>1, <1>2 DEF IInv, Typed
  <2>2. ASSUME NEW id \in Id, Quiet(id)' PROVE Quiet(id)
    <3>1. call[c].op # "forget"
      BY <1>1 DEF Ready
    <3> QED  BY <1>1, <2>2, <3>1, QuietMoves DEF IInv
  <2>3. \A id : Obeyed(id) => Obeyed(id)'
    BY <1>1, ObeyedKept
  <2> QED  BY <1>3, <2>1, <2>2, <2>3 DEF IInv, Hidden
<1> QED  BY <1>2, <1>4, <1>6, <1>7, AtWorkKeeps DEF IInv

LEMMA EnqueueSendInv ==
  ASSUME IInv, NEW c \in Client, EnqueueSend(c) PROVE IInv'
<1> DEFINE m == call[c].member
           ev == EnqueueEvent(m)
<1>1. /\ call[c].op = "enqueue" /\ call' = [call EXCEPT ![c] = Ready]
      /\ chan' = Append(chan, ev) /\ owed' = owed \cup {m.id}
      /\ ack' = [ack EXCEPT ![m.id] = "none"]
      /\ UNCHANGED <<lane, withdrawn, accepted, tombs, clock, pumping, pending, todo, busy, steps,
                     clearing, refusals, compiled, retryFrom>>
  BY DEF EnqueueSend, worker, history
<1>2. m \in Member
  BY <1>1 DEF IInv, Typed, Call
<1>3. AtWork /\ m.id \in Id
  BY <1>1, <1>2, MemberFields DEF AtWork
<1>4. ev \in ChanEvent /\ ev.type = "Enqueue" /\ ev.member = m
  BY <1>2 DEF EnqueueEvent, ChanEvent
<1> HIDE DEF ev, m
<1>5. Typed'
  <2>1. ack' \in [Id -> {"none", "sent", "already pending"}]
    BY <1>1, <1>3 DEF IInv, Typed
  <2>2. call' \in [Client -> Call]
    BY <1>1 DEF IInv, Typed, Call, Ready
  <2>3. owed' \in SUBSET Id /\ chan' \in Seq(ChanEvent)
    BY <1>1, <1>3, <1>4, SentIs DEF IInv, Typed
  <2> QED  BY <1>1, <2>1, <2>2, <2>3 DEF IInv, Typed
<1>6. Kept' /\ Leaving'
  <2>1. \A id \in owed' : id \in owed \/ IsEnqueue(ev, id)
    BY <1>1, <1>4 DEF IsEnqueue
  <2> QED  BY <1>1, <1>3, <1>4, <2>1, SentOwed
<1>7. Paced'
  <2>1. clock' = clock /\ clock \in Nat /\ clock \in 0..MaxTick
    BY <1>1, ClockType DEF IInv
  <2>2. clock <= clock' /\ clock' \in 0..MaxTick /\ ev.type # "Tick"
    BY <1>4, <2>1
  <2> QED  BY <1>1, <1>3, <1>4, <2>2, SentPaced
<1>8. Tombs'
  BY <1>1, <1>3, <1>4, SentTombs
<1>9. Hidden'
  <2>1. \A id \in Id : ack'[id] = "sent" => ack[id] = "sent" /\ id # m.id
    BY <1>1, <1>3 DEF IInv, Typed
  <2>2. \A id \in Id : Quiet(id)' => Quiet(id)
    BY <1>1, QuietMoves DEF IInv
  <2>3. \A id : Obeyed(id) /\ id # m.id => Obeyed(id)'
    BY <1>1, <1>3, <1>4, SentObeyed DEF IsEnqueue
  <2> QED  BY <1>1, <2>1, <2>2, <2>3 DEF IInv, Hidden
<1> QED  BY <1>3, <1>5, <1>6, <1>7, <1>8, <1>9, AtWorkKeeps DEF IInv

LEMMA WithdrawBeginInv ==
  ASSUME IInv, NEW c \in Client, NEW id \in Id, WithdrawBegin(c, id) PROVE IInv'
<1> DEFINE x == [op |-> "forget", id |-> id]
           ev == WithdrawEvent(id)
<1>1. /\ call' = [call EXCEPT ![c] = x] /\ call[c] = Ready
      /\ tombs' = tombs \cup {id}
      /\ chan' = IF id \in tombs THEN chan ELSE Append(chan, ev)
      /\ ack' = [ack EXCEPT ![id] = IF id \notin tombs THEN "sent"
                                    ELSE IF @ = "none" THEN "already pending" ELSE @]
      /\ owed' = owed \ {id}
      /\ UNCHANGED <<lane, withdrawn, accepted, clock, pumping, pending, todo, busy, steps,
                     clearing, refusals, compiled, retryFrom>>
  BY DEF WithdrawBegin, Begins, worker, history
<1>2. AtWork /\ ev \in ChanEvent /\ ev.type = "Withdraw" /\ ev.id = id
  BY <1>1 DEF AtWork, WithdrawEvent, ChanEvent
<1> HIDE DEF ev
<1>3. Typed'
  <2>1. call' \in [Client -> Call]
    BY <1>1 DEF IInv, Typed, Call
  <2>2. ack' \in [Id -> {"none", "sent", "already pending"}]
    BY <1>1 DEF IInv, Typed
  <2>3. chan' \in Seq(ChanEvent)
    BY <1>1, <1>2, SentIs DEF IInv, Typed
  <2> QED  BY <1>1, <2>1, <2>2, <2>3 DEF IInv, Typed
<1>4. \A i \in Id : i # id => (ack'[i] = "sent" => ack[i] = "sent")
  BY <1>1 DEF IInv, Typed
<1>5. ASSUME NEW i \in Id, Quiet(i)' PROVE Quiet(i) /\ i # id
  <2>0. call[c] = Ready
    BY <1>1
  <2>1. call[c].op # "forget"
    BY <2>0 DEF Ready
  <2>2. /\ x.op # "forget" \/ x.id # i
        /\ call[c].op # "forget" \/ call[c].id # i => Quiet(i)
    BY <1>1, <1>5, QuietMoves DEF IInv
  <2> QED  BY <2>1, <2>2
<1>6. CASE id \in tombs
  <2>1. chan' = chan /\ tombs' = tombs /\ owed' \subseteq owed
        /\ Enqueued(chan) \subseteq Enqueued(chan')
    BY <1>1, <1>6
  <2>2. Kept' /\ Leaving' /\ Paced' /\ Tombs'
    BY <1>1, <2>1, KeptKept, LeavingKept, PacedKept, TombsKept DEF IInv
  <2>3. ack'[id] = "sent" => ack[id] = "sent"
    BY <1>1, <1>6 DEF IInv, Typed
  <2>4. \A i : Obeyed(i) => Obeyed(i)'
    BY <1>1, <2>1, ObeyedKept
  <2>5. Hidden'
    BY <1>1, <1>4, <1>5, <2>3, <2>4 DEF IInv, Hidden
  <2> QED  BY <1>2, <1>3, <2>2, <2>5, AtWorkKeeps DEF IInv
<1>7. CASE id \notin tombs
  <2>1. chan' = Append(chan, ev)
    BY <1>1, <1>7
  <2>2. Kept' /\ Leaving'
    <3>1. \A i \in owed' : i \in owed \/ IsEnqueue(ev, i)
      BY <1>1
    <3>2. ev.id \notin owed'
      BY <1>1, <1>2
    <3> QED  BY <1>2, <2>1, <3>1, <3>2, SentOwed
  <2>3. Paced'
    <3>1. clock' = clock /\ clock \in Nat /\ clock \in 0..MaxTick
      BY <1>1, ClockType DEF IInv
    <3>2. clock <= clock' /\ clock' \in 0..MaxTick /\ ev.type # "Tick"
      BY <1>2, <3>1
    <3> QED  BY <1>2, <2>1, <3>2, SentPaced
  <2>4. Tombs'
    <3>1. /\ \A k \in DOMAIN chan : k \in DOMAIN chan' /\ chan'[k] = chan[k]
          /\ Len(chan) + 1 \in DOMAIN chan' /\ chan'[Len(chan) + 1] = ev
          /\ \A k \in DOMAIN chan' : k \in DOMAIN chan \/ k = Len(chan) + 1
      BY <1>2, <2>1, SentIs DEF IInv
    <3>2. pumping' = pumping /\ clearing' = clearing /\ pending' = pending
          /\ tombs' = tombs \cup {id}
      BY <1>1
    <3>3. id \notin clearing
      BY <1>7 DEF IInv, Tombs
    <3>4. \A k \in DOMAIN chan : chan[k].type = "Withdraw" => chan[k].id # id
      BY <1>7 DEF IInv, Tombs
    <3>5. \A j, k \in DOMAIN chan' :
            chan'[j].type = "Withdraw" /\ Leaves(chan'[k], chan'[j].id) => j = k
      BY <1>2, <3>1, <3>4 DEF IInv, Tombs, Leaves
    <3>6. \A k \in DOMAIN chan' : chan'[k].type = "Withdraw" => chan'[k].id \in tombs' \ clearing'
      BY <1>2, <3>1, <3>2, <3>3 DEF IInv, Tombs
    <3>7. \A i \in tombs' \ clearing' : \E k \in DOMAIN chan' : Leaves(chan'[k], i)
      <4>1. Leaves(chan'[Len(chan) + 1], id)
        BY <1>2, <3>1 DEF Leaves
      <4>2. \A i \in tombs \ clearing : \E k \in DOMAIN chan : Leaves(chan[k], i)
        BY DEF IInv, Tombs
      <4> QED  BY <3>1, <3>2, <4>1, <4>2
    <3> QED  BY <3>2, <3>5, <3>6, <3>7 DEF IInv, Tombs
  <2>5. Hidden'
    <3>1. Obeyed(id)'
      BY <1>2, <2>1, SentObeyed DEF Leaves
    <3>2. \A i : Obeyed(i) => Obeyed(i)'
      BY <1>2, <2>1, SentObeyed DEF IsEnqueue
    <3> QED  BY <1>1, <1>4, <1>5, <3>1, <3>2 DEF IInv, Hidden
  <2> QED  BY <1>2, <1>3, <2>2, <2>3, <2>4, <2>5, AtWorkKeeps DEF IInv
<1> QED  BY <1>6, <1>7

LEMMA WithdrawForgetInv ==
  ASSUME IInv, NEW c \in Client, WithdrawForget(c) PROVE IInv'
<1>1. /\ call[c].op = "forget" /\ call' = [call EXCEPT ![c] = Ready]
      /\ accepted' = Without(accepted, call[c].id)
      /\ UNCHANGED <<lane, withdrawn, chan, tombs, clock, ack, owed, pumping, pending, todo, busy,
                     steps, clearing, refusals, compiled, retryFrom>>
  BY DEF WithdrawForget, worker, history
<1>2. AtWork
  BY <1>1 DEF AtWork
<1>3. accepted' \in Seq(Member) /\ Ids(accepted') = Ids(accepted) \ {call[c].id}
  BY <1>1, WithoutRoster DEF IInv, Typed
<1>4. Typed'
  <2>1. call' \in [Client -> Call]
    BY <1>1 DEF IInv, Typed, Call, Ready
  <2> QED  BY <1>1, <1>3, <2>1 DEF IInv, Typed
<1>5. Enqueued(chan) \subseteq Enqueued(chan') /\ owed' \subseteq owed
  BY <1>1
<1>6. Kept' /\ Leaving' /\ Paced' /\ Tombs'
  BY <1>1, <1>5, KeptKept, LeavingKept, PacedKept, TombsKept DEF IInv
<1>7. Hidden'
  <2>1. \A id \in Id : Quiet(id)' => Quiet(id) \/ id = call[c].id
    BY <1>1, QuietMoves DEF IInv
  <2>2. \A id : Obeyed(id) => Obeyed(id)'
    BY <1>1, ObeyedKept
  <2> QED  BY <1>1, <1>3, <2>1, <2>2 DEF IInv, Hidden
<1> QED  BY <1>2, <1>4, <1>6, <1>7, AtWorkKeeps DEF IInv

\* A step of a reader, or of a readmission that sends nothing yet.
LEMMA LooksInv ==
  ASSUME IInv, NEW c \in Client, NEW x \in Call, call[c].op # "forget",
         call' = [call EXCEPT ![c] = x],
         UNCHANGED <<lane, withdrawn, chan, accepted, tombs, clock, ack, worker, owed, history>>
  PROVE  IInv'
<1>1. UNCHANGED <<lane, withdrawn, chan, accepted, tombs, clock, ack, owed, pumping, pending,
                  todo, busy, steps, clearing, refusals, compiled, retryFrom>>
  BY DEF worker, history
<1>2. AtWork
  BY <1>1 DEF AtWork
<1>3. Typed'
  <2>1. call' \in [Client -> Call]
    BY DEF IInv, Typed
  <2> QED  BY <1>1, <2>1 DEF IInv, Typed
<1>4. Enqueued(chan) \subseteq Enqueued(chan') /\ owed' \subseteq owed
  BY <1>1
<1>5. Kept' /\ Leaving' /\ Paced' /\ Tombs'
  BY <1>1, <1>4, KeptKept, LeavingKept, PacedKept, TombsKept DEF IInv
<1>6. Hidden'
  <2>1. \A i \in Id : Quiet(i)' => Quiet(i)
    BY QuietMoves DEF IInv
  <2>2. \A i : Obeyed(i) => Obeyed(i)'
    BY <1>1, ObeyedKept
  <2> QED  BY <1>1, <2>1, <2>2 DEF IInv, Hidden
<1> QED  BY <1>2, <1>3, <1>5, <1>6, AtWorkKeeps DEF IInv

\* The fields of a call that is under way.
LEMMA CallFields ==
  ASSUME call \in [Client -> Call], NEW c \in Client
  PROVE  /\ call[c].op \in {"forget", "readmit", "send", "view", "accepted"} => call[c].id \in Id
         /\ call[c].op \in {"view", "accepted"} => call[c].listed \in BOOLEAN
         /\ call[c].op = "accepted" => call[c].waiting \in BOOLEAN
<1>1. call[c] \in Call
  OBVIOUS
<1> QED  BY <1>1 DEF Call

LEMMA ReadmitBeginInv ==
  ASSUME IInv, NEW c \in Client, NEW id \in Id, ReadmitBegin(c, id) \/ ReadmitCheck(c)
  PROVE  IInv'
<1>1. CASE ReadmitBegin(c, id)
  <2> DEFINE x == [op |-> "readmit", id |-> id]
  <2>1. call[c].op # "forget" /\ call' = [call EXCEPT ![c] = x]
    BY <1>1 DEF ReadmitBegin, Begins, Ready
  <2>2. x \in Call
    BY DEF Call
  <2>3. UNCHANGED <<lane, withdrawn, chan, accepted, tombs, clock, ack, worker, owed, history>>
    BY <1>1 DEF ReadmitBegin
  <2> HIDE DEF x
  <2> QED  BY <2>1, <2>2, <2>3, LooksInv
<1>2. CASE ReadmitCheck(c)
  <2> DEFINE x == IF call[c].id \in tombs THEN Ready ELSE [op |-> "send", id |-> call[c].id]
  <2>1. call[c].op = "readmit" /\ call' = [call EXCEPT ![c] = x]
    BY <1>2 DEF ReadmitCheck
  <2>2. call[c].id \in Id
    BY <2>1, CallFields DEF IInv, Typed
  <2>3. x \in Call
    BY <2>2 DEF Call, Ready
  <2>4. UNCHANGED <<lane, withdrawn, chan, accepted, tombs, clock, ack, worker, owed, history>>
    BY <1>2 DEF ReadmitCheck
  <2> HIDE DEF x
  <2> QED  BY <2>1, <2>3, <2>4, LooksInv
<1> QED  BY <1>1, <1>2

\* A reader of GET /lane.
Looking(id) == [op |-> "view", id |-> id, listed |-> id \in Published]
Looked(c) == [op |-> "accepted", id |-> call[c].id, listed |-> call[c].listed,
              waiting |-> call[c].id \in Ids(accepted)]

\* What the two records say.
LEMMA LookingIs ==
  /\ \A id : Looking(id).op = "view" /\ Looking(id).id = id
  /\ \A id : Looking(id).listed = (id \in Published)
  /\ \A c : Looked(c).id = call[c].id /\ Looked(c).listed = call[c].listed
  /\ \A c : Looked(c).waiting = (call[c].id \in Ids(accepted))
<1>1. ASSUME NEW id, NEW b, b = (id \in Published)
      PROVE  /\ Looking(id).op = "view" /\ Looking(id).id = id
             /\ Looking(id).listed = b
  <2>1. Looking(id) = [op |-> "view", id |-> id, listed |-> b]
    BY <1>1, Zenon DEF Looking
  <2> QED  BY <2>1
<1>2. ASSUME NEW c, NEW b, b = (call[c].id \in Ids(accepted))
      PROVE  /\ Looked(c).id = call[c].id /\ Looked(c).listed = call[c].listed
             /\ Looked(c).waiting = b
  <2>1. Looked(c) = [op |-> "accepted", id |-> call[c].id, listed |-> call[c].listed,
                     waiting |-> b]
    BY <1>2, Zenon DEF Looked
  <2> QED  BY <2>1
<1>3. \A id : Looking(id).op = "view" /\ Looking(id).id = id
  BY <1>1, Zenon
<1>4. \A id : Looking(id).listed = (id \in Published)
  BY <1>1, Zenon
<1>5. \A c : Looked(c).id = call[c].id /\ Looked(c).listed = call[c].listed
  BY <1>2, Zenon
<1>6. \A c : Looked(c).waiting = (call[c].id \in Ids(accepted))
  BY <1>2, Zenon
<1> QED  BY <1>3, <1>4, <1>5, <1>6, Zenon

LEMMA LookingTyped ==
  /\ \A id \in Id : Looking(id) \in Call
  /\ \A c \in Client : call \in [Client -> Call] /\ call[c].op = "view" => Looked(c) \in Call
<1>1. \A id : (id \in Published) \in BOOLEAN
  OBVIOUS
<1>2. ASSUME NEW id \in Id PROVE Looking(id) \in Call
  BY <1>1 DEF Looking, Call
<1>3. ASSUME NEW c \in Client, call \in [Client -> Call], call[c].op = "view"
      PROVE  Looked(c) \in Call
  <2>1. call[c].id \in Id /\ call[c].listed \in BOOLEAN
    BY <1>3, CallFields
  <2>2. (call[c].id \in Ids(accepted)) \in BOOLEAN
    OBVIOUS
  <2> QED  BY <2>1, <2>2 DEF Looked, Call
<1> QED  BY <1>2, <1>3

LEMMA ReadInv ==
  ASSUME IInv, NEW c \in Client, NEW id \in Id,
         ReadView(c, id) \/ ReadAccepted(c) \/ ReadTombs(c)
  PROVE  IInv'
<1>1. CASE ReadView(c, id)
  <2>1. call[c].op # "forget" /\ call' = [call EXCEPT ![c] = Looking(id)]
    BY <1>1 DEF ReadView, Begins, Ready, Looking
  <2>2. UNCHANGED <<lane, withdrawn, chan, accepted, tombs, clock, ack, worker, owed, history>>
    BY <1>1 DEF ReadView
  <2> QED  BY <2>1, <2>2, LookingTyped, LooksInv
<1>2. CASE ReadAccepted(c)
  <2>1. call[c].op = "view" /\ call' = [call EXCEPT ![c] = Looked(c)]
    BY <1>2 DEF ReadAccepted, Looked
  <2>2. UNCHANGED <<lane, withdrawn, chan, accepted, tombs, clock, ack, worker, owed, history>>
    BY <1>2 DEF ReadAccepted
  <2>3. Looked(c) \in Call
    BY <2>1, LookingTyped DEF IInv, Typed
  <2> QED  BY <2>1, <2>2, <2>3, LooksInv
<1>3. CASE ReadTombs(c)
  <2>1. call[c].op = "accepted" /\ call' = [call EXCEPT ![c] = Ready] /\ Ready \in Call
    BY <1>3 DEF ReadTombs, Ready, Call
  <2>2. UNCHANGED <<lane, withdrawn, chan, accepted, tombs, clock, ack, worker, owed, history>>
    BY <1>3 DEF ReadTombs
  <2> QED  BY <2>1, <2>2, LooksInv
<1> QED  BY <1>1, <1>2, <1>3

\* A readmission or a tick: an event about no member's place.
LEMMA SendsInv ==
  ASSUME IInv, AtWork, NEW ev \in ChanEvent, chan' = Append(chan, ev),
         ev.type \in {"ForceReadmit", "Tick"}, ev.type = "Tick" => ev.now = clock',
         clock <= clock', clock' \in 0..MaxTick, call' \in [Client -> Call],
         \A id \in Id : Quiet(id)' => Quiet(id),
         UNCHANGED <<accepted, tombs, ack, owed>>
  PROVE  IInv'
<1>1. Typed'
  <2>1. chan' \in Seq(ChanEvent)
    BY SentIs DEF IInv
  <2> QED  BY <2>1 DEF IInv, Typed, AtWork
<1>2. Kept' /\ Leaving'
  BY SentOwed
<1>3. Paced' /\ Tombs'
  BY SentPaced, SentTombs
<1>4. Hidden'
  <2>1. \A id : Obeyed(id) => Obeyed(id)'
    BY SentObeyed DEF IsEnqueue
  <2> QED  BY <2>1 DEF IInv, Hidden
<1> QED  BY <1>1, <1>2, <1>3, <1>4, AtWorkKeeps DEF IInv

LEMMA ReadmitSendInv ==
  ASSUME IInv, NEW c \in Client, ReadmitSend(c) PROVE IInv'
<1> DEFINE ev == ReadmitEvent(call[c].id)
<1>1. /\ call[c].op = "send" /\ call' = [call EXCEPT ![c] = Ready]
      /\ chan' = Append(chan, ev)
      /\ UNCHANGED <<lane, withdrawn, accepted, tombs, clock, ack, owed, pumping, pending,
                     todo, busy, steps, clearing, refusals, compiled, retryFrom>>
  BY DEF ReadmitSend, worker, history
<1>2. call[c].id \in Id
  BY <1>1 DEF IInv, Typed, Call
<1>3. AtWork /\ ev \in ChanEvent /\ ev.type = "ForceReadmit"
  BY <1>1, <1>2 DEF AtWork, ReadmitEvent, ChanEvent
<1>4. call' \in [Client -> Call]
  BY <1>1 DEF IInv, Typed, Call, Ready
<1>5. \A id \in Id : Quiet(id)' => Quiet(id)
  BY <1>1, QuietMoves DEF IInv
<1>6. clock' = clock /\ clock \in Nat /\ clock \in 0..MaxTick
  BY <1>1, ClockType DEF IInv
<1>7. clock <= clock' /\ clock' \in 0..MaxTick
  BY <1>6
<1> HIDE DEF ev
<1> QED  BY <1>1, <1>3, <1>4, <1>5, <1>7, SendsInv

LEMMA TickInv == ASSUME IInv, Tick PROVE IInv'
<1> DEFINE ev == TickEvent(clock')
<1>1. /\ clock' = (IF clock < MaxTick THEN clock + 1 ELSE clock) /\ chan' = Append(chan, ev)
      /\ UNCHANGED <<lane, withdrawn, accepted, tombs, call, ack, owed, pumping, pending,
                     todo, busy, steps, clearing, refusals, compiled, retryFrom>>
  BY DEF Tick, client, worker, history
<1>2. clock <= clock' /\ clock' \in 0..MaxTick
  BY <1>1, ClockType, HostAssumption DEF IInv
<1>3. AtWork /\ ev \in ChanEvent /\ ev.type = "Tick" /\ ev.now = clock'
  BY <1>1, <1>2 DEF AtWork, TickEvent, ChanEvent
<1>4. call' \in [Client -> Call]
  BY <1>1 DEF IInv, Typed
<1>5. \A id \in Id : Quiet(id)' => Quiet(id)
  BY <1>1 DEF Quiet
<1> HIDE DEF ev
<1> QED  BY <1>1, <1>2, <1>3, <1>4, <1>5, SendsInv

-----------------------------------------------------------------------------
(* The invariant.                                                          *)

LEMMA InitIInv == Init => IInv
<1> SUFFICES ASSUME Init PROVE IInv
  OBVIOUS
<1>1. /\ lane = NewLane /\ withdrawn = {}
      /\ chan = <<>> /\ accepted = <<>> /\ tombs = {} /\ clock = 0
      /\ call = [c \in Client |-> Ready]
      /\ pumping = FALSE /\ pending = <<>> /\ todo = <<>> /\ busy = FALSE
      /\ steps = 0 /\ clearing = {} /\ owed = {} /\ compiled = Candidate(<<>>, "none")
      /\ ack = [id \in Id |-> "none"] /\ retryFrom = [id \in Id |-> 0]
  BY DEF Init, Candidate
<1>2. DOMAIN chan = {} /\ DOMAIN pending = {} /\ DOMAIN todo = {} /\ Len(todo) = 0
  BY <1>1, EmptySeq
<1>3. Sound(lane) /\ lane.phase = "Idle" /\ lane.now = 0
  BY <1>1, NewLaneSound DEF NewLane
<1>4. 0 \in 0..MaxTick /\ 0 \in 0..MaxEagerSteps
  BY HostAssumption
<1>5. Typed
  <2>1. call \in [Client -> Call]
    BY <1>1 DEF Call, Ready
  <2>2. ack \in [Id -> {"none", "sent", "already pending"}] /\ retryFrom \in [Id -> Nat]
    BY <1>1
  <2>3. /\ chan \in Seq(ChanEvent) /\ pending \in Seq(Event) /\ todo \in Seq(Action)
        /\ accepted \in Seq(Member)
    BY <1>1
  <2>4. /\ withdrawn \in SUBSET Id /\ tombs \in SUBSET Id /\ clearing \in SUBSET Id
        /\ owed \in SUBSET Id
        /\ pumping \in BOOLEAN /\ busy \in BOOLEAN
    BY <1>1
  <2>5. clock \in 0..MaxTick /\ steps \in 0..MaxEagerSteps
    BY <1>1, <1>4
  <2> QED  BY <1>3, <2>1, <2>2, <2>3, <2>4, <2>5 DEF Typed
<1>6. Shape /\ Homeless /\ Completing /\ Compiling
  <2>1. compiled.verdict # "Green"
    BY <1>1 DEF Candidate
  <2> QED  BY <1>1, <1>2, <1>3, <2>1 DEF Shape, Homeless, Completing, Compiling
<1>7. Kept /\ Leaving /\ Tombs
  BY <1>1, <1>2 DEF Kept, Leaving, Tombs
<1>8. Paced
  <2>1. \A id \in Id : retryFrom[id] <= lane.now
    BY <1>1, <1>3
  <2> QED  BY <1>1, <1>2, <1>3, <2>1 DEF Paced
<1>9. Hidden
  BY <1>1 DEF Hidden
<1> QED  BY <1>5, <1>6, <1>7, <1>8, <1>9 DEF IInv

LEMMA NextIInv == IInv /\ [Next]_vars => IInv'
<1> SUFFICES ASSUME IInv, [Next]_vars PROVE IInv'
  OBVIOUS
<1>1. ASSUME NEW c \in Client, Calls(c) PROVE IInv'
  <2>1. ASSUME NEW id \in Watched, ReadView(c, id) PROVE IInv'
    BY <2>1, HostAssumption, ReadInv
  <2> QED  BY <1>1, <2>1, EnqueueBeginInv, WithdrawBeginInv, ReadmitBeginInv DEF Calls
<1>2. ASSUME NEW c \in Client, Returns(c) PROVE IInv'
  <2>1. ASSUME ReadmitCheck(c) \/ ReadAccepted(c) \/ ReadTombs(c) PROVE IInv'
    <3>1. call[c].op \in {"readmit", "view", "accepted"}
      BY <2>1 DEF ReadmitCheck, ReadAccepted, ReadTombs
    <3>2. call[c].id \in Id
      BY <3>1, CallFields DEF IInv, Typed
    <3> QED  BY <2>1, <3>2, ReadmitBeginInv, ReadInv
  <2> QED  BY <1>2, <2>1, EnqueueSendInv, WithdrawForgetInv, ReadmitSendInv DEF Returns
<1>3. CASE Tick
  BY <1>3, TickInv
<1>4. CASE Worker
  BY <1>4, ReceiveInv, StepInv, BeginInv, FinishBuildInv, LandSucceedsInv, LandFailsInv,
     PumpEndsInv DEF Worker
<1>5. CASE UNCHANGED vars
  BY <1>5, StutterInv
<1> QED  BY <1>1, <1>2, <1>3, <1>4, <1>5 DEF Next

\* The inductive invariant holds in every state the host reaches.
THEOREM AlwaysIInv == Spec => []IInv
<1>1. Init => IInv
  BY InitIInv
<1>2. IInv /\ [Next]_vars => IInv'
  BY NextIInv
<1> QED  BY <1>1, <1>2, PTL DEF Spec

-----------------------------------------------------------------------------
(* The counters of the bounds and the history no part of it needs.         *)

Counters ==
  /\ calls \in 0..MaxCalls /\ refusals \in 0..MaxRefusals /\ excused \subseteq Client
  /\ compiled \in [members : Seq(Member), verdict : Verdict, landed : BOOLEAN]

LEMMA InitCounters == Init => Counters
<1>1. 0 \in 0..MaxCalls /\ 0 \in 0..MaxRefusals
  BY HostAssumption
<1>2. <<>> \in Seq(Member) /\ "none" \in Verdict
  BY DEF Verdict
<1> QED  BY <1>1, <1>2 DEF Init, Counters

\* A candidate keeps its type when its verdict or its land is noted.
LEMMA CandidateTyped ==
  ASSUME NEW r \in [members : Seq(Member), verdict : Verdict, landed : BOOLEAN]
  PROVE  /\ \A v \in Verdict : [r EXCEPT !.verdict = v]
              \in [members : Seq(Member), verdict : Verdict, landed : BOOLEAN]
         /\ [r EXCEPT !.landed = TRUE]
              \in [members : Seq(Member), verdict : Verdict, landed : BOOLEAN]
OBVIOUS

LEMMA CountersKept ==
  ASSUME Counters, calls' = calls, refusals' = refusals, compiled' = compiled,
         excused' \subseteq excused \cup Client
  PROVE  Counters'
BY DEF Counters

LEMMA NextCounters == IInv /\ Counters /\ [Next]_vars => Counters'
<1> SUFFICES ASSUME IInv, Counters, [Next]_vars PROVE Counters'
  OBVIOUS
<1>0. \A id : Readers(id) \subseteq Client
  BY DEF Readers
<1>1. ASSUME NEW c \in Client, Calls(c) PROVE Counters'
  <2>1. calls < MaxCalls /\ calls' = calls + 1
    BY <1>1 DEF Calls, EnqueueBegin, WithdrawBegin, ReadmitBegin, ReadView, Begins
  <2>2. calls' \in 0..MaxCalls
    BY <2>1, HostAssumption DEF Counters
  <2>3. UNCHANGED <<refusals, compiled>>
    BY <1>1 DEF Calls, EnqueueBegin, WithdrawBegin, ReadmitBegin, ReadView, history
  <2>4. excused' \subseteq excused \cup Client
    BY <1>0, <1>1 DEF Calls, EnqueueBegin, WithdrawBegin, ReadmitBegin, ReadView
  <2> QED  BY <2>2, <2>3, <2>4 DEF Counters
<1>2. ASSUME NEW c \in Client, Returns(c) PROVE Counters'
  <2>1. UNCHANGED <<calls, refusals, compiled>>
    BY <1>2 DEF Returns, EnqueueSend, WithdrawForget, ReadmitCheck, ReadmitSend, ReadAccepted,
                ReadTombs, history
  <2>2. excused' \subseteq excused \cup Client
    BY <1>0, <1>2 DEF Returns, EnqueueSend, WithdrawForget, ReadmitCheck, ReadmitSend,
                      ReadAccepted, ReadTombs
  <2> QED  BY <2>1, <2>2, CountersKept
<1>3. CASE Tick \/ Receive \/ StepLane \/ PumpEnds
  <2>1. UNCHANGED <<calls, refusals, compiled>>
    BY <1>3 DEF Tick, Receive, StepLane, PumpEnds, client, history
  <2>2. excused' \subseteq excused \cup Client
    BY <1>0, <1>3 DEF Tick, Receive, StepLane, PumpEnds, client
  <2> QED  BY <2>1, <2>2, CountersKept
<1>4. CASE BeginAction
  <2>1. todo # <<>> /\ UNCHANGED <<calls, refusals, excused>>
    BY <1>4 DEF BeginAction, client
  <2>2. todo[1].members \in Seq(Member) /\ "none" \in Verdict
    BY <2>1, TodoFirst DEF IInv, Verdict
  <2>3. compiled' \in [members : Seq(Member), verdict : Verdict, landed : BOOLEAN]
    BY <1>4, <2>2 DEF BeginAction, Counters
  <2> QED  BY <2>1, <2>3 DEF Counters
<1>5. ASSUME NEW o \in Outcome, FinishBuild(o) PROVE Counters'
  <2>1. UNCHANGED <<calls, refusals, excused>>
    BY <1>5 DEF FinishBuild, EndAction, client
  <2>2. o.kind \in Verdict /\ compiled' = [compiled EXCEPT !.verdict = o.kind]
    BY <1>5 DEF Verdict, FinishBuild
  <2>3. compiled' \in [members : Seq(Member), verdict : Verdict, landed : BOOLEAN]
    BY <2>2, CandidateTyped DEF Counters
  <2> QED  BY <2>1, <2>3 DEF Counters
<1>6. CASE LandSucceeds \/ LandFails
  <2>1. UNCHANGED <<calls, excused>> /\ compiled' = [compiled EXCEPT !.landed = TRUE]
    BY <1>6 DEF LandSucceeds, LandFails, EndAction, client
  <2>2. refusals' = refusals \/ (refusals < MaxRefusals /\ refusals' = refusals + 1)
    BY <1>6 DEF LandSucceeds, LandFails
  <2>3. refusals' \in 0..MaxRefusals
    BY <2>2, HostAssumption DEF Counters
  <2>4. compiled' \in [members : Seq(Member), verdict : Verdict, landed : BOOLEAN]
    BY <2>1, CandidateTyped DEF Counters
  <2> QED  BY <2>1, <2>3, <2>4 DEF Counters
<1>7. CASE UNCHANGED vars
  <2>1. UNCHANGED <<calls, refusals, compiled, excused>>
    BY <1>7 DEF vars, client, history
  <2> QED  BY <2>1, CountersKept
<1> QED  BY <1>1, <1>2, <1>3, <1>4, <1>5, <1>6, <1>7 DEF Next, Worker

LEMMA AlwaysCounters == Spec => []Counters
BY AlwaysIInv, InitCounters, NextCounters, PTL DEF Spec

-----------------------------------------------------------------------------
(* The readers of GET /lane: what an unexcused one has found so far.       *)

Reading(c) == call[c].op \in {"view", "accepted"}
Informed ==
  \A c \in Client \ excused : Reading(c) =>
    /\ call[c].id \notin Ids(accepted)
    /\ call[c].listed => call[c].id \in tombs
    /\ call[c].op = "accepted" => ~call[c].waiting

\* Only an enqueue and the end of a withdrawal's pump can mislead a reader.
LEMMA InformedKept ==
  ASSUME Informed, Ids(accepted') \subseteq Ids(accepted), tombs \subseteq tombs',
         \A d \in Client \ excused' : \/ d \notin excused /\ call'[d] = call[d]
                                      \/ ~ Reading(d)'
  PROVE  Informed'
BY DEF Informed, Reading

\* Another client's call is its own business.
LEMMA OthersCalls ==
  ASSUME IInv, NEW c \in Client, NEW x, call' = [call EXCEPT ![c] = x]
  PROVE  call'[c] = x /\ \A d \in Client : d # c => call'[d] = call[d]
BY DEF IInv, Typed

\* What the view shows is in the lane or about to land.
LEMMA PublishedIs == ASSUME IInv PROVE Published \subseteq Where(lane) \cup InHand
<1>1. Landing \subseteq InHand
  <2>1. busy => 1 \in DOMAIN todo
    BY TodoFirst DEF IInv, Shape
  <2> QED  BY <2>1 DEF Landing, InHand, Actions
<1> QED  BY <1>1 DEF Published, Where, HeldIds

\* A view shows no id whose withdrawal was answered, but under its tombstone.
LEMMA AnsweredIsHidden ==
  ASSUME IInv, NEW id \in Id, ack[id] = "sent", Quiet(id)
  PROVE  id \notin Ids(accepted) /\ (id \in Published => id \in tombs)
<1>1. Obeyed(id) /\ id \notin Ids(accepted)
  BY DEF IInv, Hidden
<1>2. ASSUME id \notin tombs PROVE Out(id)
  <2>1. ASSUME NEW k \in DOMAIN chan, Leaves(chan[k], id) PROVE FALSE
    BY <1>2, <2>1 DEF IInv, Tombs, Leaves
  <2>2. ASSUME NEW k \in DOMAIN pending, Leaves(pending[k], id) PROVE FALSE
    BY <1>2, <2>2 DEF IInv, Tombs, Leaves
  <2> QED  BY <1>1, <2>1, <2>2 DEF Obeyed
<1> QED  BY <1>1, <1>2, PublishedIs DEF Out

LEMMA ReaderInformed ==
  ASSUME IInv, Informed, NEW c \in Client, NEW id \in Id, ReadView(c, id)
  PROVE  Informed'
<1>1. /\ call' = [call EXCEPT ![c] = Looking(id)] /\ UNCHANGED <<accepted, tombs>>
      /\ excused \subseteq excused'
      /\ c \notin excused' => ack[id] = "sent" /\ Quiet(id)
  BY DEF ReadView, Begins, Looking
<1>2. call'[c] = Looking(id) /\ \A d \in Client : d # c => call'[d] = call[d]
  BY <1>1, OthersCalls
<1>3. ASSUME c \notin excused'
      PROVE  /\ call'[c].id \notin Ids(accepted')
             /\ call'[c].listed => call'[c].id \in tombs'
             /\ call'[c].op # "accepted"
  <2>1. /\ call'[c].id = id /\ call'[c].op = "view"
        /\ call'[c].listed = (id \in Published)
    BY <1>2, LookingIs, Zenon
  <2>2. id \notin Ids(accepted) /\ (id \in Published => id \in tombs)
    BY <1>1, <1>3, AnsweredIsHidden
  <2>3. accepted' = accepted /\ tombs' = tombs
    BY <1>1
  <2> QED  BY <2>1, <2>2, <2>3
<1> QED  BY <1>1, <1>2, <1>3 DEF Informed, Reading

LEMMA ReaderInformedNext ==
  ASSUME IInv, Informed, NEW c \in Client, ReadAccepted(c) \/ ReadTombs(c)
  PROVE  Informed'
<1>1. CASE ReadAccepted(c)
  <2>1. /\ call[c].op = "view" /\ call' = [call EXCEPT ![c] = Looked(c)]
        /\ UNCHANGED <<accepted, tombs, excused>>
    BY <1>1 DEF ReadAccepted, Looked
  <2>2. call'[c] = Looked(c) /\ \A d \in Client : d # c => call'[d] = call[d]
    BY <2>1, OthersCalls
  <2>3. c \notin excused => /\ call[c].id \notin Ids(accepted)
                            /\ call[c].listed => call[c].id \in tombs
    BY <2>1 DEF Informed, Reading
  <2>4. ASSUME c \notin excused
        PROVE  /\ call'[c].id \notin Ids(accepted')
               /\ call'[c].listed => call'[c].id \in tombs'
               /\ ~call'[c].waiting
    <3>1. /\ call'[c].id = call[c].id /\ call'[c].listed = call[c].listed
          /\ call'[c].waiting = (call[c].id \in Ids(accepted))
      BY <2>2, LookingIs, Zenon
    <3>2. call'[c].id \notin Ids(accepted')
      BY <2>1, <2>3, <2>4, <3>1
    <3>3. call'[c].listed => call'[c].id \in tombs'
      <4>1. call[c].listed => call[c].id \in tombs
        BY <2>3, <2>4, Zenon
      <4>2. tombs' = tombs
        BY <2>1
      <4> QED  BY <3>1, <4>1, <4>2, Zenon
    <3>4. ~call'[c].waiting
      BY <2>3, <2>4, <3>1, Zenon
    <3> QED  BY <3>2, <3>3, <3>4, Zenon
  <2> QED  BY <2>1, <2>2, <2>4 DEF Informed, Reading
<1>2. CASE ReadTombs(c)
  <2>1. /\ call' = [call EXCEPT ![c] = Ready] /\ excused' = excused \ {c}
        /\ UNCHANGED <<accepted, tombs>>
    BY <1>2 DEF ReadTombs
  <2>2. call'[c] = Ready /\ \A d \in Client : d # c => call'[d] = call[d]
    BY <2>1, OthersCalls
  <2>3. \A d \in Client \ excused' : \/ d \notin excused /\ call'[d] = call[d]
                                     \/ ~ Reading(d)'
    BY <2>1, <2>2 DEF Reading, Ready
  <2>4. Ids(accepted') \subseteq Ids(accepted) /\ tombs \subseteq tombs'
    BY <2>1
  <2> QED  BY <2>3, <2>4, InformedKept
<1> QED  BY <1>1, <1>2

\* A member accepted again excuses its readers.
LEMMA RememberIs ==
  ASSUME IInv, NEW m \in Member PROVE Ids(Remember(m)) \subseteq Ids(accepted) \cup {m.id}
<1>1. accepted \in Seq(Member)
  BY DEF IInv, Typed
<1>2. CASE m.id \in Ids(accepted)
  <2> DEFINE r == [k \in DOMAIN accepted |-> IF accepted[k].id = m.id THEN m ELSE accepted[k]]
  <2>1. Remember(m) = r
    BY <1>2 DEF Remember
  <2>2. DOMAIN r = DOMAIN accepted /\ \A k \in DOMAIN accepted : r[k].id = accepted[k].id
    OBVIOUS
  <2> HIDE DEF r
  <2> QED  BY <2>1, <2>2 DEF Ids
<1>3. CASE m.id \notin Ids(accepted)
  <2>1. Remember(m) = Append(accepted, m)
    BY <1>3 DEF Remember
  <2> QED  BY <1>1, <2>1, AppendPositions DEF Ids
<1> QED  BY <1>2, <1>3

LEMMA EnqueueInformed ==
  ASSUME IInv, Informed, NEW c \in Client, NEW m \in Member, EnqueueBegin(c, m)
  PROVE  Informed'
<1> DEFINE x == [op |-> "enqueue", member |-> m]
<1>1. /\ call' = [call EXCEPT ![c] = x] /\ tombs' = tombs /\ accepted' = Remember(m)
      /\ excused' = excused \cup Readers(m.id) /\ call[c] = Ready
  BY DEF EnqueueBegin, Begins
<1>2. call'[c] = x /\ \A d \in Client : d # c => call'[d] = call[d]
  BY <1>1, OthersCalls
<1>3. Ids(accepted') \subseteq Ids(accepted) \cup {m.id}
  BY <1>1, RememberIs
<1>4. ~ Reading(c)'
  BY <1>2 DEF Reading
<1>5. \A d \in Client \ excused' : d \notin excused /\ (Reading(d) => call[d].id # m.id)
  BY <1>1 DEF Readers, Reading
<1> QED  BY <1>1, <1>2, <1>3, <1>4, <1>5 DEF Informed, Reading

LEMMA CallsInformed ==
  ASSUME IInv, Informed, NEW c \in Client,
         \/ EnqueueSend(c) \/ WithdrawForget(c) \/ ReadmitCheck(c) \/ ReadmitSend(c)
         \/ \E id \in Id : WithdrawBegin(c, id) \/ ReadmitBegin(c, id)
  PROVE  Informed'
<1>1. excused \subseteq excused'
  BY DEF EnqueueSend, WithdrawForget, ReadmitCheck, ReadmitSend, WithdrawBegin, ReadmitBegin
<1>2. tombs \subseteq tombs'
  BY DEF EnqueueSend, WithdrawForget, ReadmitCheck, ReadmitSend, WithdrawBegin, ReadmitBegin
<1>3. Ids(accepted') \subseteq Ids(accepted)
  <2>1. accepted' = accepted \/ \E id : accepted' = Without(accepted, id)
    BY DEF EnqueueSend, WithdrawForget, ReadmitCheck, ReadmitSend, WithdrawBegin, ReadmitBegin
  <2> QED  BY <2>1, WithoutRoster DEF IInv, Typed
<1>4. \E x : call' = [call EXCEPT ![c] = x] /\ x.op \notin {"view", "accepted"}
  <2>1. CASE EnqueueSend(c) \/ WithdrawForget(c) \/ ReadmitSend(c)
    BY <2>1 DEF EnqueueSend, WithdrawForget, ReadmitSend, Ready
  <2>2. CASE ReadmitCheck(c)
    <3> DEFINE x == IF call[c].id \in tombs THEN Ready ELSE [op |-> "send", id |-> call[c].id]
    <3>1. call' = [call EXCEPT ![c] = x]
      BY <2>2 DEF ReadmitCheck
    <3>2. x.op \notin {"view", "accepted"}
      BY DEF Ready
    <3> HIDE DEF x
    <3> QED  BY <3>1, <3>2
  <2>3. ASSUME NEW id \in Id, NEW op \in {"forget", "readmit"}, Begins(c, [op |-> op, id |-> id])
        PROVE  \E x : call' = [call EXCEPT ![c] = x] /\ x.op \notin {"view", "accepted"}
    <3> DEFINE x == [op |-> op, id |-> id]
    <3>1. call' = [call EXCEPT ![c] = x]
      BY <2>3 DEF Begins
    <3>2. x.op \notin {"view", "accepted"}
      OBVIOUS
    <3> HIDE DEF x
    <3> QED  BY <3>1, <3>2
  <2>4. CASE \E id \in Id : WithdrawBegin(c, id) \/ ReadmitBegin(c, id)
    BY <2>3, <2>4 DEF WithdrawBegin, ReadmitBegin
  <2> QED  BY <2>1, <2>2, <2>4
<1>5. \A d \in Client \ excused' : d \notin excused /\ (call'[d] = call[d] \/ ~ Reading(d)')
  BY <1>1, <1>4, OthersCalls DEF Reading
<1> QED  BY <1>2, <1>3, <1>5, InformedKept

LEMMA ClientInformed ==
  ASSUME IInv, Informed, NEW c \in Client, Calls(c) \/ Returns(c)
  PROVE  Informed'
<1>1. ASSUME NEW id \in Watched, ReadView(c, id) PROVE Informed'
  BY <1>1, HostAssumption, ReaderInformed
<1> QED  BY <1>1, ReaderInformedNext, EnqueueInformed, CallsInformed DEF Calls, Returns

LEMMA PumpEndsInformed == ASSUME IInv, Informed, PumpEnds PROVE Informed'
<1>1. /\ call' = call /\ accepted' = accepted /\ tombs' = tombs \ clearing
      /\ excused' = excused \cup UNION {Readers(id) : id \in clearing}
  BY DEF PumpEnds
<1>2. \A d \in Client \ excused' : d \notin excused /\ (Reading(d) => call[d].id \notin clearing)
  BY <1>1 DEF Readers, Reading
<1>3. \A d \in Client : Reading(d)' <=> Reading(d)
  BY <1>1 DEF Reading
<1> QED  BY <1>1, <1>2, <1>3 DEF Informed

LEMMA NextInformed == IInv /\ Informed /\ [Next]_vars => Informed'
<1> SUFFICES ASSUME IInv, Informed, [Next]_vars PROVE Informed'
  OBVIOUS
<1>1. ASSUME UNCHANGED <<call, excused, tombs>>, Ids(accepted') \subseteq Ids(accepted)
      PROVE  Informed'
  BY <1>1, InformedKept
<1>2. ASSUME Tick \/ StepLane \/ BeginAction PROVE Informed'
  BY <1>1, <1>2 DEF Tick, StepLane, BeginAction, client
<1>3. ASSUME NEW events, EndAction(events) PROVE Informed'
  BY <1>1, <1>3 DEF EndAction, client
<1>4. CASE Receive
  <2>1. accepted' = accepted \/ \E id : accepted' = Without(accepted, id)
    BY <1>4 DEF Receive
  <2>2. Ids(accepted') \subseteq Ids(accepted)
    BY <2>1, WithoutRoster DEF IInv, Typed
  <2> QED  BY <1>1, <1>4, <2>2 DEF Receive, client
<1>5. CASE UNCHANGED vars
  BY <1>1, <1>5 DEF vars, client
<1>6. ASSUME (\E o \in Outcome : FinishBuild(o)) \/ LandSucceeds \/ LandFails PROVE Informed'
  BY <1>3, <1>6 DEF FinishBuild, LandSucceeds, LandFails
<1> QED  BY <1>2, <1>4, <1>5, <1>6, ClientInformed, PumpEndsInformed DEF Next, Worker

LEMMA AlwaysInformed == Spec => []Informed
<1>1. Init => Informed
  BY DEF Init, Informed, Reading, Ready
<1> QED  BY <1>1, AlwaysIInv, NextInformed, PTL DEF Spec

-----------------------------------------------------------------------------
(* What it implies.                                                        *)

LEMMA InvTyped == IInv /\ Counters => TypeOK
<1> SUFFICES ASSUME IInv, Counters PROVE TypeOK
  OBVIOUS
<1>1. chan \in Seq(Event)
  <2>1. chan \in Seq(ChanEvent)
    BY DEF IInv, Typed
  <2>2. Len(chan) \in Nat /\ \A k \in 1..Len(chan) : chan[k] \in Event
    BY <2>1, Positions, EventFields
  <2> QED  BY <2>1, <2>2, Positions, SeqDef
<1>2. busy => todo # <<>>
  BY DEF IInv, Shape
<1> QED  BY <1>1, <1>2 DEF IInv, Typed, Counters, TypeOK, Sound

LEMMA InvKeeps == IInv => NoMemberLost
BY DEF IInv, Kept, NoMemberLost, Where, Held, HeldIds

LEMMA InvBuilding == IInv => BuildingIsBeingBuilt
<1> SUFFICES ASSUME IInv PROVE BuildingIsBeingBuilt
  OBVIOUS
<1>1. lane.phase = "Building" =>
        \/ \E k \in DOMAIN todo : todo[k].act = "build"
        \/ \E k \in DOMAIN pending : pending[k].type = "BuildFinished"
  BY DEF IInv, Completing
<1>2. \A k \in DOMAIN todo : todo[k].act = "build" =>
        todo[k] \in Actions("build") /\ todo[k].generation = lane.generation
  BY DEF IInv, Completing, Actions
<1>3. \A k \in DOMAIN pending :
        pending[k].type = "BuildFinished" => pending[k].generation = lane.generation
  BY DEF IInv, Completing
<1>4. ~pumping => lane.phase = "Idle"
  <2>1. ~pumping => DOMAIN todo = {} /\ DOMAIN pending = {}
    BY EmptySeq DEF IInv, Shape
  <2>2. lane.phase \in {"Idle", "Building"}
    BY DEF IInv, Typed, Sound, LaneState
  <2> QED  BY <1>1, <2>1, <2>2
<1> QED  BY <1>1, <1>2, <1>3, <1>4 DEF BuildingIsBeingBuilt

LEMMA InvShips == IInv => ShipsWhatCompiled
BY DEF IInv, Compiling, Candidate, ShipsWhatCompiled, Actions

\* A set with at most one member.
LEMMA AtMostOne ==
  ASSUME NEW S, \A j, k \in S : j = k
  PROVE  Cardinality(S) = IF S = {} THEN 0 ELSE 1
<1>1. CASE S = {}
  BY <1>1, FS_EmptySet
<1>2. CASE S # {}
  <2>1. PICK x : S = {x}
    BY <1>2
  <2> QED  BY <2>1, FS_Singleton
<1> QED  BY <1>1, <1>2

LEMMA InvLands == IInv => LandsEachGreenOnce
<1> SUFFICES ASSUME IInv PROVE LandsEachGreenOnce
  OBVIOUS
<1> DEFINE L == {k \in DOMAIN todo : todo[k].act = "land"}
           due == compiled.verdict = "Green" /\ ~compiled.landed
<1>1. Shape /\ Completing /\ Compiling
  BY DEF IInv
<1>2. \A j, k \in Untold : j = k
  BY <1>1 DEF Completing, Untold
<1>3. \A j, k \in L : j = k
  BY <1>1 DEF Shape
<1>4. Untold # {} => L = {}
  <2>1. Untold # {} => todo = <<>>
    BY <1>1 DEF Completing, Untold
  <2> QED  BY <2>1, EmptySeq
<1>5. L # {} \/ Untold # {} => due
  <2>1. L # {} => due
    BY <1>1 DEF Compiling, Candidate
  <2>2. Untold # {} => due
    BY <1>1 DEF Compiling, Candidate, Untold, Ended
  <2> QED  BY <2>1, <2>2
<1>6. due => L # {} \/ Untold # {}
  <2>1. ASSUME due, L = {} PROVE Untold # {}
    <3>1. PICK k \in DOMAIN pending : Ended(pending[k])
      BY <1>1, <2>1 DEF Compiling
    <3>2. pending[k].outcome.kind = "Green"
      BY <1>1, <2>1, <3>1 DEF Compiling, Candidate
    <3> QED  BY <3>1, <3>2 DEF Untold, Ended
  <2> QED  BY <2>1
<1>7. /\ Cardinality(Untold) = IF Untold = {} THEN 0 ELSE 1
      /\ Cardinality(L) = IF L = {} THEN 0 ELSE 1
  BY <1>2, <1>3, AtMostOne
<1> HIDE DEF L, due
<1>8. Cardinality(Untold) + Cardinality(L) = IF due THEN 1 ELSE 0
  BY <1>4, <1>5, <1>6, <1>7
<1> QED  BY <1>8 DEF LandsEachGreenOnce, L, due

LEMMA InvPaced == IInv => InfraRetryPaced
<1> SUFFICES ASSUME IInv, NEW k \in DOMAIN todo, todo[k].act = "build",
                    NEW id \in Ids(todo[k].members)
             PROVE  retryFrom[id] <= clock
  BY DEF InfraRetryPaced, Actions
<1>1. lane.phase = "Building" /\ todo # <<>> /\ todo[k].members = lane.inFlight
  BY DEF IInv, Completing
<1>2. id \in Id
  <2>1. lane.inFlight \in Seq(Member)
    BY DEF IInv, Typed, Sound, LaneState
  <2> QED  BY <1>1, <2>1, Positions, MemberFields DEF Ids
<1>3. ~ InfraTold(id)
  BY <1>1 DEF IInv, Completing, InfraTold
<1>4. retryFrom[id] <= lane.now /\ retryFrom[id] \in Nat
  BY <1>2, <1>3 DEF IInv, Paced, Typed
<1>5. lane.now \in Nat /\ lane.now <= clock /\ clock \in Nat
  BY LaneNumbers, ClockType DEF IInv, Typed, Paced
<1> QED  BY <1>4, <1>5

LEMMA InvHidden == Informed => WithdrawnIsHidden
BY DEF Informed, Reading, WithdrawnIsHidden, Lists

\* The state of the host has its type.
THEOREM TypeCorrect == Spec => []TypeOK
BY AlwaysIInv, AlwaysCounters, InvTyped, PTL

(* No member is lost (lanedrv.rs pump, lane.rs expire_ejections): an id    *)
(* whose enqueue was answered is in the channel, the pump, the lane or a   *)
(* land until it is withdrawn, lands or is reported stale, for every       *)
(* number of clients and however often builds and lands fail.              *)
THEOREM MembersAreKept == Spec => []NoMemberLost
BY AlwaysIInv, InvKeeps, PTL

(* The lane never waits for a build that is over: while it says Building   *)
(* the worker still owes it the completion of that generation, also when   *)
(* a land ran first or the pump had to yield.                              *)
THEOREM BuildsAreReported == Spec => []BuildingIsBeingBuilt
BY AlwaysIInv, InvBuilding, PTL

(* A roster that is about to land is, member by member and head by head,   *)
(* the roster of the last candidate, and that candidate's verdict was      *)
(* green, whatever was withdrawn, enqueued or built since (lanedrv.rs,     *)
(* LandAndPublish before StartBuild).  Nothing is said of the trunk, which *)
(* may have moved: the lander has to refuse then.                          *)
THEOREM LandsWhatCompiled == Spec => []ShipsWhatCompiled
BY AlwaysIInv, InvShips, PTL

(* The lander is called for every green build, and only once for each      *)
(* (lanedrv.rs, LaneLander): the verdict is not lost in the pump, no land  *)
(* of it is dropped or repeated, and a failed land is not tried again      *)
(* without another compile.                                                *)
THEOREM LandsEachGreen == Spec => []LandsEachGreenOnce
BY AlwaysIInv, InvLands, PTL

(* A member whose build failed for infrastructure is not built again until *)
(* InfraBackoff after the failure: the host re-syncs the lane's clock      *)
(* before it tells the lane, so the backoff starts at the end of a build.  *)
THEOREM RetriesArePaced == Spec => []InfraRetryPaced
BY AlwaysIInv, InvPaced, PTL

(* What a withdraw that sent its event was told stays true: a reader that  *)
(* begins after the answer and takes the view, the accepted set and the    *)
(* tombstones one after the other does not find the id, for every          *)
(* interleaving with request threads and worker in which the id is not     *)
(* enqueued and its tombstone is not lifted while it reads.                *)
THEOREM WithdrawalsAreSeen == Spec => []WithdrawnIsHidden
BY AlwaysInformed, InvHidden, PTL

-----------------------------------------------------------------------------
(* The refinement.  Machine is LaneMachine, with its own copy of Lane: the *)
(* copies agree, operator by operator.                                     *)

LEMMA SameRosters ==
  /\ Machine!Member = Member /\ Machine!None = None
  /\ \A q : Machine!Ids(q) = Ids(q) /\ Machine!Members(q) = Members(q)
  /\ \A q, I : Machine!Keep(q, I) = Keep(q, I)
  /\ \A q, id : Machine!Without(q, id) = Without(q, id)
<1>1. Machine!Member = Member /\ Machine!None = None
  BY DEF Machine!Member, Member, Machine!None, None
<1>2. \A q : Machine!Ids(q) = Ids(q) /\ Machine!Members(q) = Members(q)
  BY DEF Machine!Ids, Ids, Machine!Members, Members
<1>3. \A q, I : Machine!Keep(q, I) = Keep(q, I)
  BY DEF Machine!Keep, Keep, Machine!Nth, Nth, Machine!Cardinality, Cardinality
<1>4. \A q, id : Machine!Without(q, id) = Without(q, id)
  BY <1>3 DEF Machine!Without, Without
<1> QED  BY <1>1, <1>2, <1>3, <1>4

LEMMA SameEntering ==
  /\ \A s, id : Machine!HeldFor(s, id) = HeldFor(s, id) /\ Machine!Lift(s, id) = Lift(s, id)
  /\ \A s, m : Machine!OnEnqueue(s, m) = OnEnqueue(s, m)
  /\ \A s, id : Machine!OnForceReadmit(s, id) = OnForceReadmit(s, id)
  /\ \A s, id : Machine!OnWithdraw(s, id) = OnWithdraw(s, id)
<1>1. \A s, id : Machine!HeldFor(s, id) = HeldFor(s, id) /\ Machine!Lift(s, id) = Lift(s, id)
  BY DEF Machine!HeldFor, HeldFor, Machine!Lift, Lift
<1>2. \A s, m : Machine!Admit(s, m) = Admit(s, m)
  BY DEF Machine!Admit, Admit, Machine!Ids, Ids
<1>3. \A s, m : Machine!AdmitNew(s, m) = AdmitNew(s, m)
  BY <1>2 DEF Machine!AdmitNew, AdmitNew, Machine!None, None
<1>4. \A e, m : Machine!Readmissible(e, m) = Readmissible(e, m)
  BY DEF Machine!Readmissible, Readmissible
<1>5. \A s, m : Machine!OnEnqueue(s, m) = OnEnqueue(s, m)
  BY <1>1, <1>3, <1>4 DEF Machine!OnEnqueue, OnEnqueue
<1>6. \A s, id : Machine!OnForceReadmit(s, id) = OnForceReadmit(s, id)
  BY <1>1, <1>2 DEF Machine!OnForceReadmit, OnForceReadmit, Machine!HeldFor, HeldFor
<1>7. \A s, id : Machine!OnWithdraw(s, id) = OnWithdraw(s, id)
  BY <1>1, SameRosters DEF Machine!OnWithdraw, OnWithdraw
<1> QED  BY <1>1, <1>5, <1>6, <1>7

LEMMA SameTime ==
  /\ \A s, t : Machine!AdvanceClock(s, t) = AdvanceClock(s, t)
  /\ \A s, t : Machine!OnTick(s, t) = OnTick(s, t)
  /\ \A s : Machine!OnLandFailed(s) = OnLandFailed(s)
  /\ \A s : Machine!MaybeStart(s) = MaybeStart(s)
<1>1. \A s, t : Machine!AdvanceClock(s, t) = AdvanceClock(s, t)
  BY DEF Machine!AdvanceClock, AdvanceClock
<1>2. \A s : Machine!Lapsed(s) = Lapsed(s)
  BY DEF Machine!Lapsed, Lapsed, Machine!Nth, Nth, Machine!Cardinality, Cardinality
<1>3. \A q, ms : Machine!AdmitAll(q, ms) = AdmitAll(q, ms)
  <2>1. \A q, I : Machine!Keep(q, I) = Keep(q, I)
    BY SameRosters
  <2> QED  BY <2>1 DEF Machine!AdmitAll, AdmitAll, Machine!Ids, Ids, Machine!Members, Members
<1>4. \A s, t : Machine!OnTick(s, t) = OnTick(s, t)
  BY <1>1, <1>2, <1>3 DEF Machine!OnTick, OnTick
<1>5. \A s : Machine!OnLandFailed(s) = OnLandFailed(s)
  BY DEF Machine!OnLandFailed, OnLandFailed
<1>6. \A s : Machine!MaybeStart(s) = MaybeStart(s)
  BY DEF Machine!MaybeStart, MaybeStart, Machine!None, None, Machine!BackingOff, BackingOff,
         Machine!Capturing, Capturing, Machine!StartBuild, StartBuild
<1> QED  BY <1>1, <1>4, <1>5, <1>6

LEMMA SameVerdicts ==
  /\ Machine!Outcome = Outcome
  /\ \A s, g, o : Machine!OnBuildFinished(s, g, o) = OnBuildFinished(s, g, o)
<1>1. Machine!Outcome = Outcome
  BY DEF Machine!Outcome, Outcome
<1>2. \A s : Machine!ClearStreak(s) = ClearStreak(s)
  BY DEF Machine!ClearStreak, ClearStreak, Machine!None, None
<1>3. \A s, ms, kind, files : Machine!Eject(s, ms, kind, files) = Eject(s, ms, kind, files)
  BY DEF Machine!Eject, Eject
<1>4. \A s, ms, kind : Machine!EjectAll(s, ms, kind) = EjectAll(s, ms, kind)
  BY <1>3 DEF Machine!EjectAll, EjectAll
<1>5. \A s, ms : Machine!OnInfra(s, ms) = OnInfra(s, ms)
  BY <1>2, <1>4 DEF Machine!OnInfra, OnInfra
<1>6. \A s, ms, errors : Machine!AttributeRed(s, ms, errors) = AttributeRed(s, ms, errors)
  BY <1>3, <1>4, SameRosters, ZenonT(60) DEF Machine!AttributeRed, AttributeRed
<1>7. \A s, ms, id, files : Machine!EjectNamed(s, ms, id, files) = EjectNamed(s, ms, id, files)
  BY DEF Machine!EjectNamed, EjectNamed, Machine!Eject, Eject, Machine!Without, Without,
         Machine!Keep, Keep, Machine!Nth, Nth, Machine!Cardinality, Cardinality
<1>8. \A s, ms, o : Machine!Judge(s, ms, o) = Judge(s, ms, o)
  BY <1>2, <1>4, <1>5, <1>6, <1>7, SameRosters, ZenonT(60) DEF Machine!Judge, Judge
<1>9. \A s, g, o : Machine!OnBuildFinished(s, g, o) = OnBuildFinished(s, g, o)
  BY <1>8 DEF Machine!OnBuildFinished, OnBuildFinished, Machine!Current, Current
<1> QED  BY <1>1, <1>9

\* Every event the worker steps the lane with is one LaneMachine allows.
LEMMA StepRefines == ASSUME IInv, StepLane PROVE Machine!MNext
<1> DEFINE ev == Next1
<1>1. /\ Typed /\ Shape /\ (Fresh \/ Homeless) /\ Completing
      /\ pending \in Seq(Event) /\ pending # <<>> /\ Next1 \in Event
      /\ lane' \in {Acted, MaybeStart(Acted)}
      /\ withdrawn' = (IF Next1.type = "Enqueue" THEN withdrawn \ {Next1.member.id}
                       ELSE withdrawn \cup (IF Next1.type = "Withdraw" THEN {Next1.id} ELSE {}))
  BY StepLaneIs DEF IInv, Typed
<1>2. ASSUME NEW s, Acted = s PROVE Machine!Step(s)
  BY <1>1, <1>2, SameTime DEF Machine!Step
<1>3. CASE Next1.type = "Enqueue"
  <2>1. Next1.member \in Member /\ Acted = OnEnqueue(lane, Next1.member)
    BY <1>1, <1>3, EventFields, ApplyIs DEF Acted
  <2>2. Next1.member.id \notin Ids(lane.inFlight)
    <3>1. CASE Fresh
      BY <3>1, EmptyRoster DEF Fresh, IInv, Typed, Sound, Roster
    <3>2. CASE Homeless
      <4>1. 1 \in DOMAIN pending
        BY <1>1, Positions
      <4> QED  BY <1>3, <3>2, <4>1 DEF Homeless, Next1, Where
    <3> QED  BY <1>1, <3>1, <3>2
  <2>3. Machine!Step(Machine!OnEnqueue(lane, Next1.member))
    BY <1>2, <2>1, SameEntering
  <2>4. withdrawn' = withdrawn \ {Next1.member.id}
    BY <1>1, <1>3
  <2>5. Machine!Enqueue(Next1.member)
    BY <2>2, <2>3, <2>4, SameRosters DEF Machine!Enqueue
  <2> QED  BY <2>1, <2>5, SameRosters DEF Machine!MNext
<1>4. CASE Next1.type = "Withdraw"
  <2>1. Next1.id \in Id /\ Acted = OnWithdraw(lane, Next1.id)
    BY <1>1, <1>4, EventFields, ApplyIs DEF Acted
  <2>2. Machine!Step(Machine!OnWithdraw(lane, Next1.id))
    BY <1>2, <2>1, SameEntering
  <2>3. withdrawn' = withdrawn \cup {Next1.id}
    BY <1>1, <1>4
  <2>4. Machine!Withdraw(Next1.id)
    BY <2>2, <2>3 DEF Machine!Withdraw
  <2> QED  BY <2>1, <2>4 DEF Machine!MNext
<1>5. Next1.type \notin {"Enqueue", "Withdraw"} => withdrawn' = withdrawn
  BY <1>1
<1>6. CASE Next1.type = "ForceReadmit"
  <2>1. Next1.id \in Id /\ Acted = OnForceReadmit(lane, Next1.id)
    BY <1>1, <1>6, EventFields, ApplyIs DEF Acted
  <2>2. Machine!Step(Machine!OnForceReadmit(lane, Next1.id))
    BY <1>2, <2>1, SameEntering
  <2>3. Machine!ForceReadmit(Next1.id)
    BY <1>5, <1>6, <2>2 DEF Machine!ForceReadmit
  <2> QED  BY <2>1, <2>3 DEF Machine!MNext
<1>7. CASE Next1.type = "LandFailed"
  <2>1. Acted = OnLandFailed(lane)
    BY <1>7, ApplyIs DEF Acted
  <2>2. Machine!Step(Machine!OnLandFailed(lane))
    BY <1>2, <2>1, SameTime
  <2>3. Machine!LandFailed
    BY <1>5, <1>7, <2>2 DEF Machine!LandFailed
  <2> QED  BY <2>3 DEF Machine!MNext
<1>8. CASE Next1.type = "Tick"
  <2>1. Acted = OnTick(lane, Next1.now)
    BY <1>8, ApplyIs DEF Acted
  <2>2. Next1.now \in 0..MaxTick
    <3>1. 1 \in DOMAIN pending
      BY <1>1, Positions
    <3>2. Next1 \in ChanEvent
      BY <1>1, <1>8, <3>1, EventFields DEF Fresh, Homeless, Next1
    <3> QED  BY <1>8, <3>2, EventFields
  <2>3. Machine!Step(Machine!OnTick(lane, Next1.now))
    BY <1>2, <2>1, SameTime
  <2>4. Machine!ClockTick(Next1.now)
    BY <1>5, <1>8, <2>3 DEF Machine!ClockTick
  <2> QED  BY <2>2, <2>4 DEF Machine!MNext
<1>9. CASE Next1.type = "BuildFinished"
  <2> DEFINE g == Next1.generation
             o == Next1.outcome
  <2>1. o \in Outcome /\ Acted = OnBuildFinished(lane, g, o)
    BY <1>1, <1>9, EventFields, ApplyIs DEF Acted
  <2>2. g = lane.generation /\ (o.kind \in {"Conflict", "Stale", "RosterStale"} =>
                                  o.id \in Ids(lane.inFlight))
    <3>1. 1 \in DOMAIN pending
      BY <1>1, Positions
    <3> QED  BY <1>1, <1>9, <3>1 DEF Completing, Next1
  <2>3. lane.generation \in Nat
    BY <1>1 DEF Typed, Sound, LaneState
  <2>4. g \in 0..lane.generation
    BY <2>2, <2>3
  <2> HIDE DEF g, o
  <2>5. Machine!Step(Machine!OnBuildFinished(lane, g, o))
    BY <1>2, <2>1, SameVerdicts
  <2>6. Machine!Possible(o)
    BY <2>2, SameRosters DEF Machine!Possible
  <2>7. Machine!BuildFinished(g, o)
    BY <1>5, <1>9, <2>5, <2>6 DEF Machine!BuildFinished
  <2> QED  BY <2>1, <2>4, <2>7, SameVerdicts DEF Machine!MNext
<1>10. Next1.type \in {"Enqueue", "Withdraw", "ForceReadmit", "LandFailed", "Tick", "BuildFinished"}
  BY <1>1 DEF Event
<1> QED  BY <1>3, <1>4, <1>6, <1>7, <1>8, <1>9, <1>10

\* A blocking action ends with a re-sync of the lane's clock.
LEMMA EndRefines == ASSUME IInv, NEW events, EndAction(events) PROVE Machine!MNext
<1>1. clock \in 0..MaxTick
  BY ClockType DEF IInv
<1>2. Machine!Resync(clock)
  BY SameTime DEF Machine!Resync, EndAction
<1> QED  BY <1>1, <1>2 DEF Machine!MNext

\* Every step of the host is one of LaneMachine, or invisible to it.
LEMMA NextRefines == IInv /\ [Next]_vars => [Machine!MNext]_<<lane, withdrawn>>
<1> SUFFICES ASSUME IInv, [Next]_vars, ~ UNCHANGED <<lane, withdrawn>> PROVE Machine!MNext
  OBVIOUS
<1>1. ASSUME NEW c \in Client, Calls(c) \/ Returns(c) PROVE FALSE
  BY <1>1 DEF Calls, Returns, EnqueueBegin, EnqueueSend, WithdrawBegin, WithdrawForget,
              ReadmitBegin, ReadmitCheck, ReadmitSend, ReadView, ReadAccepted, ReadTombs
<1>2. ~ Tick /\ ~ UNCHANGED vars
  BY DEF Tick, vars
<1>3. ~ Receive /\ ~ BeginAction /\ ~ PumpEnds
  BY DEF Receive, BeginAction, PumpEnds
<1>4. StepLane => Machine!MNext
  BY StepRefines
<1>5. ASSUME NEW o \in Outcome, FinishBuild(o) PROVE Machine!MNext
  BY <1>5, EndRefines DEF FinishBuild
<1>6. LandSucceeds \/ LandFails => Machine!MNext
  BY EndRefines DEF LandSucceeds, LandFails
<1> QED  BY <1>1, <1>2, <1>3, <1>4, <1>5, <1>6 DEF Next, Worker

(* The host is a driver that keeps the rules of LaneMachine (lanedrv.rs    *)
(* pump, lanehost.rs): it never enqueues a member of the running build,    *)
(* reports one outcome per build, and names only members of its roster, so *)
(* what is proved of LaneMachine below holds in the daemon, too.           *)
THEOREM HostImplementsMachine == Spec => MachineSpec
<1>1. Init => Machine!MInit
  BY DEF Init, Machine!MInit, NewLane, Machine!NewLane, None, Machine!None
<1>2. IInv /\ [Next]_vars => [Machine!MNext]_<<lane, withdrawn>>
  BY NextRefines
<1> QED  BY <1>1, <1>2, AlwaysIInv, PTL DEF Spec, MachineSpec

-----------------------------------------------------------------------------
(* The lane by itself, under any driver LaneMachine allows: what the       *)
(* refinement carries over to the host.                                    *)

MachineInv == Sound(state) /\ gone \subseteq Id /\ gone \cap Where(state) = {}

LEMMA InitMachineInv == MInit => MachineInv
BY NewLaneSound DEF MInit, MachineInv

\* The decision every step ends in neither moves nor spoils anything.
LEMMA MachineStepSound ==
  ASSUME NEW s, Sound(s), Step(s)
  PROVE  Sound(state') /\ Where(state') \subseteq Where(s)
BY MaybeStartSound DEF Step

LEMMA NextMachineInv == MachineInv /\ [MNext]_mvars => MachineInv'
<1> SUFFICES ASSUME MachineInv, [MNext]_mvars PROVE MachineInv'
  OBVIOUS
<1>0. Sound(state) /\ gone \subseteq Id /\ gone \cap Where(state) = {}
  BY DEF MachineInv
<1>1. ASSUME NEW m \in Member, Enqueue(m) PROVE MachineInv'
  <2>1. m.id \in Id
    BY MemberFields
  <2>2. /\ Sound(OnEnqueue(state, m))
        /\ Where(OnEnqueue(state, m)) \subseteq Where(state) \cup {m.id}
    BY <1>0, <1>1, EnqueueSound DEF Enqueue
  <2>3. Sound(state') /\ Where(state') \subseteq Where(OnEnqueue(state, m))
    BY <1>1, <2>2, MachineStepSound DEF Enqueue
  <2>4. gone' = gone \ {m.id}
    BY <1>1 DEF Enqueue
  <2> QED  BY <1>0, <2>2, <2>3, <2>4 DEF MachineInv
<1>2. ASSUME NEW m \in Member, HeadMoved(m) PROVE MachineInv'
  <2>1. Sound(OnHeadMoved(state, m)) /\ Where(OnHeadMoved(state, m)) \subseteq Where(state)
    BY <1>0, HeadMovedSound
  <2>2. Sound(state') /\ Where(state') \subseteq Where(OnHeadMoved(state, m))
    BY <1>2, <2>1, MachineStepSound DEF HeadMoved
  <2> QED  BY <1>0, <1>2, <2>1, <2>2 DEF MachineInv, HeadMoved
<1>3. ASSUME NEW id \in Id, Withdraw(id) PROVE MachineInv'
  <2>1. Sound(OnWithdraw(state, id)) /\ Where(OnWithdraw(state, id)) \subseteq Where(state) \ {id}
    BY <1>0, WithdrawSound
  <2>2. Sound(state') /\ Where(state') \subseteq Where(OnWithdraw(state, id))
    BY <1>3, <2>1, MachineStepSound DEF Withdraw
  <2> QED  BY <1>0, <1>3, <2>1, <2>2 DEF MachineInv, Withdraw
<1>4. ASSUME NEW id \in Id, ForceReadmit(id) PROVE MachineInv'
  <2>1. Sound(OnForceReadmit(state, id)) /\ Where(OnForceReadmit(state, id)) \subseteq Where(state)
    BY <1>0, ForceReadmitSound
  <2>2. Sound(state') /\ Where(state') \subseteq Where(OnForceReadmit(state, id))
    BY <1>4, <2>1, MachineStepSound DEF ForceReadmit
  <2> QED  BY <1>0, <1>4, <2>1, <2>2 DEF MachineInv, ForceReadmit
<1>5. CASE LandFailed
  <2>1. Sound(OnLandFailed(state)) /\ Where(OnLandFailed(state)) = Where(state)
    BY <1>0, LandFailedSound
  <2>2. Sound(state') /\ Where(state') \subseteq Where(OnLandFailed(state))
    BY <1>5, <2>1, MachineStepSound DEF LandFailed
  <2> QED  BY <1>0, <1>5, <2>1, <2>2 DEF MachineInv, LandFailed
<1>6. ASSUME NEW g \in 0..state.generation, NEW o \in Outcome, BuildFinished(g, o) PROVE MachineInv'
  <2>1. /\ Sound(OnBuildFinished(state, g, o))
        /\ Where(OnBuildFinished(state, g, o)) \subseteq Where(state)
    BY <1>0, BuildFinishedSound
  <2>2. Sound(state') /\ Where(state') \subseteq Where(OnBuildFinished(state, g, o))
    BY <1>6, <2>1, MachineStepSound DEF BuildFinished
  <2> QED  BY <1>0, <1>6, <2>1, <2>2 DEF MachineInv, BuildFinished
<1>7. ASSUME NEW t \in TickValue, ClockTick(t) PROVE MachineInv'
  <2>1. t \in Nat
    BY TickAssumption
  <2>2. Sound(OnTick(state, t)) /\ Where(OnTick(state, t)) \subseteq Where(state)
    BY <1>0, <2>1, TickSound
  <2>3. Sound(state') /\ Where(state') \subseteq Where(OnTick(state, t))
    BY <1>7, <2>2, MachineStepSound DEF ClockTick
  <2> QED  BY <1>0, <1>7, <2>2, <2>3 DEF MachineInv, ClockTick
<1>8. ASSUME NEW t \in TickValue, Resync(t) PROVE MachineInv'
  <2>1. t \in Nat
    BY TickAssumption
  <2>2. Sound(AdvanceClock(state, t)) /\ Where(AdvanceClock(state, t)) = Where(state)
    BY <1>0, <2>1, AdvanceSound
  <2> QED  BY <1>0, <1>8, <2>2 DEF MachineInv, Resync
<1>9. CASE UNCHANGED mvars
  BY <1>0, <1>9 DEF MachineInv, mvars
<1> QED  BY <1>1, <1>2, <1>3, <1>4, <1>5, <1>6, <1>7, <1>8, <1>9 DEF MNext

LEMMA AlwaysMachineInv == MSpec => []MachineInv
BY InitMachineInv, NextMachineInv, PTL DEF MSpec

-----------------------------------------------------------------------------
(* The lane's state always has its type (lane.rs, LaneState).              *)
THEOREM MachineTypeCorrect == MSpec => []MTypeOK
<1>1. MachineInv => MTypeOK
  BY DEF MachineInv, Sound, MTypeOK
<1> QED  BY <1>1, AlwaysMachineInv, PTL

(* No handler of the lane duplicates a member: an id is queued once, or    *)
(* builds once, or is held by one ejection.                                *)
THEOREM EveryIdInOnePlace == MSpec => []OnePlacePerId
<1>1. MachineInv => OnePlacePerId
  BY DEF MachineInv, Sound, OnePlacePerId, OnePlace, HeldOnce, Apart, HeldIds
<1> QED  BY <1>1, AlwaysMachineInv, PTL

(* A withdrawn member does not come back: no verdict, lapse, readmission   *)
(* or head move after the withdrawal puts it anywhere in the lane.         *)
THEOREM WithdrawnNeverReturns == MSpec => []WithdrawnStaysOut
<1>1. MachineInv => WithdrawnStaysOut
  BY DEF MachineInv, WithdrawnStaysOut, Where, HeldIds
<1> QED  BY <1>1, AlwaysMachineInv, PTL

(* Every deadline of the lane is within its configured horizon.            *)
THEOREM NothingHeldBeyondItsHorizon == MSpec => []DeadlinesBounded
<1>1. MachineInv => DeadlinesBounded
  BY DEF MachineInv, Sound, DeadlinesBounded, Deadlines
<1> QED  BY <1>1, AlwaysMachineInv, PTL

(* Only a running build has a roster, within the cap.                      *)
THEOREM RosterBounded == MSpec => []RosterOfARunningBuild
<1>1. MachineInv => RosterOfARunningBuild
  BY DEF MachineInv, Sound, RosterOfARunningBuild, Roster
<1> QED  BY <1>1, AlwaysMachineInv, PTL

(* A running build ends only with its own completion: nothing else starts  *)
(* a build, replaces the roster or makes the lane idle (lane.rs, step).    *)
THEOREM BuildNeverPreempted == MSpec => NeverPreempted
<1> DEFINE Ends == \E o \in Outcome : BuildFinished(state.generation, o)
<1>1. ASSUME MachineInv, MNext, state.phase = "Building"
      PROVE  Ends \/ StillRuns(state, state')
  <2>0. Runs(state)
    BY <1>1 DEF MachineInv, Sound, Runs
  <2>1. ASSUME NEW s, Runs(s), StillRuns(state, s), Step(s) PROVE StillRuns(state, state')
    <3>1. StillRuns(s, MaybeStart(s))
      BY <2>1, MaybeStartStillRuns
    <3> QED  BY <2>1, <3>1 DEF Step, StillRuns
  <2>2. ASSUME NEW m \in Member, Enqueue(m) \/ HeadMoved(m) PROVE StillRuns(state, state')
    BY <2>0, <2>1, <2>2, EnqueueStillRuns DEF Enqueue, HeadMoved
  <2>3. ASSUME NEW id \in Id, Withdraw(id) \/ ForceReadmit(id) PROVE StillRuns(state, state')
    BY <2>0, <2>1, <2>3, WithdrawStillRuns, ForceReadmitStillRuns DEF Withdraw, ForceReadmit
  <2>4. CASE LandFailed
    <3>1. Runs(OnLandFailed(state)) /\ StillRuns(state, OnLandFailed(state))
      BY <2>0, TimeStillRuns
    <3> QED  BY <2>1, <2>4, <3>1 DEF LandFailed
  <2>5. ASSUME NEW g \in 0..state.generation, NEW o \in Outcome, BuildFinished(g, o)
        PROVE  Ends \/ StillRuns(state, state')
    <3>1. CASE g = state.generation
      BY <2>5, <3>1
    <3>2. CASE g # state.generation
      <4>1. OnBuildFinished(state, g, o) = state
        BY <3>2 DEF OnBuildFinished, Current
      <4>2. StillRuns(state, state)
        BY <2>0 DEF StillRuns, Runs
      <4> QED  BY <2>0, <2>1, <2>5, <4>1, <4>2 DEF BuildFinished
    <3> QED  BY <3>1, <3>2
  <2>6. ASSUME NEW t \in TickValue, ClockTick(t) \/ Resync(t) PROVE StillRuns(state, state')
    <3>1. t \in Nat
      BY TickAssumption
    <3>2. /\ Runs(OnTick(state, t)) /\ StillRuns(state, OnTick(state, t))
          /\ StillRuns(state, AdvanceClock(state, t))
      BY <2>0, <3>1, TimeStillRuns
    <3> QED  BY <2>1, <2>6, <3>2 DEF ClockTick, Resync
  <2> QED  BY <1>1, <2>2, <2>3, <2>4, <2>5, <2>6 DEF MNext
<1>2. MachineInv /\ [MNext]_mvars =>
        [state.phase = "Building" =>
           \/ \E o \in Outcome : BuildFinished(state.generation, o)
           \/ /\ state'.phase = "Building" /\ state'.generation = state.generation
              /\ Members(state'.inFlight) \subseteq Members(state.inFlight)]_mvars
  BY <1>1 DEF StillRuns
<1> QED  BY <1>2, AlwaysMachineInv, PTL DEF MSpec, NeverPreempted
=============================================================================
