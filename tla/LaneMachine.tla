---------------------------- MODULE LaneMachine ----------------------------
(***************************************************************************)
(* The lane driven by any driver that keeps two rules: it reports one      *)
(* outcome per build, naming only members of the roster it was given, and  *)
(* it never enqueues a member of the running build.  LaneHost, the worker  *)
(* thread of the daemon, is such a driver: TLC checks that it implements   *)
(* this module.  Unlike it, this driver may withdraw a member or move its  *)
(* head while the build runs, as the lane's own tests do.                  *)
(***************************************************************************)
EXTENDS Lane

CONSTANT TickValue          \* BOUND: the readings of the driver's clock

ASSUME TickAssumption == TickValue \subseteq Nat

VARIABLES state,
          gone              \* history: ids withdrawn and not enqueued since

mvars == <<state, gone>>

MInit == state = NewLane /\ gone = {}

\* LaneState::step, or step_without_build_start once the pump must yield.
Step(s) == state' \in {MaybeStart(s), s}

Enqueue(m) == /\ m.id \notin Ids(state.inFlight)
              /\ Step(OnEnqueue(state, m))
              /\ gone' = gone \ {m.id}

HeadMoved(m) == Step(OnHeadMoved(state, m)) /\ UNCHANGED gone

Withdraw(id) == /\ Step(OnWithdraw(state, id))
                /\ gone' = gone \cup {id}

ForceReadmit(id) == Step(OnForceReadmit(state, id)) /\ UNCHANGED gone

LandFailed == Step(OnLandFailed(state)) /\ UNCHANGED gone

\* The outcomes of this build: a named member is one of the roster.
Possible(o) == o.kind \in {"Conflict", "Stale", "RosterStale"} => o.id \in Ids(state.inFlight)

BuildFinished(g, o) ==
  /\ g = state.generation => Possible(o)
  /\ Step(OnBuildFinished(state, g, o))
  /\ UNCHANGED gone

ClockTick(t) == Step(OnTick(state, t)) /\ UNCHANGED gone

\* advance_clock: time passes during a blocking action, no event is applied.
Resync(t) == state' = AdvanceClock(state, t) /\ UNCHANGED gone

MNext ==
  \/ \E m \in Member : Enqueue(m) \/ HeadMoved(m)
  \/ \E id \in Id : Withdraw(id) \/ ForceReadmit(id)
  \/ LandFailed
  \/ \E g \in 0..state.generation, o \in Outcome : BuildFinished(g, o)
  \/ \E t \in TickValue : ClockTick(t) \/ Resync(t)

MSpec == MInit /\ [][MNext]_mvars

-----------------------------------------------------------------------------
\* The lane's state has its type.
MTypeOK == state \in LaneState /\ gone \subseteq Id

(* An id is in one place: once in the queue, or once in the running build, *)
(* or held by one ejection.  Every handler that moves a member takes it    *)
(* from where it was (BTreeMap, retain, drain and mem::take in lane.rs).   *)
OnePlacePerId ==
  /\ Distinct(state.queue) /\ Distinct(state.inFlight)
  /\ Ids(state.queue) \cap Ids(state.inFlight) = {}
  /\ \A e \in state.ejected : e.id \notin Ids(state.queue) \cup Ids(state.inFlight)
  /\ \A e, f \in state.ejected : e.id = f.id => e = f

(* A withdrawn member is nowhere in the lane until it is enqueued again:   *)
(* no verdict, lapse, readmission or head move brings it back, not even    *)
(* the end of the build it was withdrawn from.                             *)
WithdrawnStaysOut ==
  gone \cap (Ids(state.queue) \cup Ids(state.inFlight) \cup {e.id : e \in state.ejected}) = {}

(* Nothing is held beyond the configured horizon: an ejection lapses at    *)
(* most EjectTtl from now, a retry is at most InfraBackoff away, and the   *)
(* capture window did not open in the future, however the clock moves.     *)
DeadlinesBounded ==
  /\ \A e \in state.ejected : e.expires <= state.now + EjectTtl
  /\ state.infraRetryAfter <= state.now + InfraBackoff
  /\ state.queuedSince <= state.now

\* Only a running build has a roster, and it never exceeds the cap.
RosterOfARunningBuild ==
  /\ state.phase = "Idle" => state.inFlight = <<>>
  /\ Len(state.inFlight) <= MaxMembers

(* Never cancel, only collapse: while a build runs nothing but its own     *)
(* completion ends it, replaces its roster or starts another; a withdrawal *)
(* only shrinks the roster.                                                *)
NeverPreempted ==
  [][state.phase = "Building" =>
       \/ \E o \in Outcome : BuildFinished(state.generation, o)
       \/ /\ state'.phase = "Building" /\ state'.generation = state.generation
          /\ Members(state'.inFlight) \subseteq Members(state.inFlight)]_mvars
=============================================================================
