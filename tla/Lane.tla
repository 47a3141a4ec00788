------------------------------- MODULE Lane -------------------------------
(***************************************************************************)
(* The policy of the build lane: cargoless-core/src/lane.rs.               *)
(*                                                                         *)
(* The code is a pure function from an event and a state to a state and a  *)
(* list of actions.  Here a lane state is a record, every event handler is *)
(* an operator from states to states, and MaybeStart is the decision every *)
(* step ends in.  This module has no variables: LaneMachine drives it with *)
(* the events of any well-behaved driver, LaneHost with those the worker   *)
(* thread and its clients produce.                                         *)
(*                                                                         *)
(* X_bug is X with a slip a change to the code could make; no definition   *)
(* uses it.                                                                *)
(*                                                                         *)
(* Abstracted: text, fingerprints, shared_with and the cause of an ejection*)
(* (all of them only rendered), the artifact, saturation of the counters.  *)
(***************************************************************************)
EXTENDS Integers, Sequences, FiniteSets

CONSTANTS Id,               \* member ids; the map of ejections is ordered by them
          Commit,           \* commit shas
          File,             \* repository paths
          Changes,          \* the files a submission changes
          MaxMembers,       \* LaneConfig.max_members
          EjectTtl,         \* LaneConfig.eject_ttl_ticks
          CaptureWindow,    \* LaneConfig.capture_window_ticks
          InfraBackoff,     \* LaneConfig.infra_backoff_ticks
          InfraMaxAttempts  \* LaneConfig.infra_max_attempts

Member == [id : Id, head : Commit]

ASSUME IdAssumption == Id \subseteq Nat /\ IsFiniteSet(Id)
ASSUME ChangesAssumption == Changes \in [Member -> SUBSET File]
ASSUME ConfigAssumption ==
  /\ MaxMembers \in Nat \ {0}
  /\ EjectTtl \in Nat /\ CaptureWindow \in Nat /\ InfraBackoff \in Nat
  /\ InfraMaxAttempts \in Nat

None == -1                                \* Rust's None where Some holds a tick
MaybeTick == Nat \cup {None}

Kind == {"attributed", "unattributed", "infrastructure"}
Ejection == [id : Id, head : Commit, kind : Kind, files : SUBSET File, expires : Nat]

LaneState == [phase : {"Idle", "Building"},
              queue : Seq(Member),
              inFlight : Seq(Member),
              generation : Nat,
              ejected : SUBSET Ejection,
              now : Nat,
              queuedSince : MaybeTick,
              infraFailures : Nat,
              infraRetryAfter : MaybeTick]

NewLane == [phase |-> "Idle", queue |-> <<>>, inFlight |-> <<>>, generation |-> 0,
            ejected |-> {}, now |-> 0, queuedSince |-> None,
            infraFailures |-> 0, infraRetryAfter |-> None]

-----------------------------------------------------------------------------
(* Rosters: sequences of members.  Keep is SelectSeq by position, written   *)
(* without recursion so that its properties can be proved.                  *)

Members(q) == {q[k] : k \in DOMAIN q}
Ids(q) == {q[k].id : k \in DOMAIN q}
Distinct(q) == \A j, k \in DOMAIN q : q[j].id = q[k].id => j = k

\* The k-th smallest element of a finite set of numbers.
Nth(I, k) == CHOOSE i \in I : Cardinality({j \in I : j <= i}) = k

Keep(q, I) == [k \in 1..Cardinality(I) |-> q[Nth(I, k)]]
Without(q, id) == Keep(q, {k \in DOMAIN q : q[k].id # id})

-----------------------------------------------------------------------------
(* Ejections.                                                              *)

HeldFor(s, id) == {e \in s.ejected : e.id = id}
Lift(s, id) == [s EXCEPT !.ejected = {e \in @ : e.id # id}]

\* Hold the members at the positions of roster ms that files gives a set for.
Eject(s, ms, kind, files) ==
  LET held == {[id |-> ms[k].id, head |-> ms[k].head, kind |-> kind,
                files |-> files[k], expires |-> s.now + EjectTtl] : k \in DOMAIN files}
  IN [s EXCEPT !.ejected = {e \in @ : \A h \in held : h.id # e.id} \cup held]

EjectAll(s, ms, kind) == Eject(s, ms, kind, [k \in DOMAIN ms |-> {}])

\* Only an attributed ejection asks the new head to touch a failing file.
Readmissible(e, m) == e.kind = "attributed" => Changes[m] \cap e.files # {}

-----------------------------------------------------------------------------
(* Entering the queue.                                                     *)

\* A queued id is replaced where it stands, a new one goes to the back.
Admit(s, m) ==
  [s EXCEPT !.queue = IF m.id \in Ids(@)
                      THEN [k \in DOMAIN @ |-> IF @[k].id = m.id THEN m ELSE @[k]]
                      ELSE Append(@, m)]

\* A member from outside opens the capture window of an idle, empty lane.
AdmitNew(s, m) ==
  LET opens == s.phase = "Idle" /\ s.queue = <<>> /\ s.queuedSince = None
  IN Admit([s EXCEPT !.queuedSince = IF opens THEN s.now ELSE @], m)

OnEnqueue_bug(s, m) ==
  IF \E e \in HeldFor(s, m.id) : e.head = m.head \/ ~Readmissible(e, m)
  THEN s ELSE AdmitNew(s, m)

OnEnqueue(s, m) ==
  IF \E e \in HeldFor(s, m.id) : e.head = m.head \/ ~Readmissible(e, m)
  THEN s
  ELSE AdmitNew(Lift(s, m.id), m)

OnHeadMoved(s, m) ==
  CASE HeldFor(s, m.id) # {} ->
         IF \A e \in HeldFor(s, m.id) : Readmissible(e, m)
         THEN Admit(Lift(s, m.id), m) ELSE s
    [] HeldFor(s, m.id) = {} /\ m.id \in Ids(s.queue) -> Admit(s, m)
    [] OTHER -> s

OnForceReadmit(s, id) ==
  IF HeldFor(s, id) = {} THEN s
  ELSE LET e == CHOOSE e \in HeldFor(s, id) : TRUE
       IN Admit(Lift(s, id), [id |-> id, head |-> e.head])

OnWithdraw_bug(s, id) == [Lift(s, id) EXCEPT !.queue = Without(@, id)]

OnWithdraw(s, id) ==
  [Lift(s, id) EXCEPT !.queue = Without(@, id), !.inFlight = Without(@, id)]

-----------------------------------------------------------------------------
(* Time.                                                                   *)

AdvanceClock_bug(s, t) == [s EXCEPT !.now = t]
AdvanceClock(s, t) == [s EXCEPT !.now = IF t > @ THEN t ELSE @]

\* The members whose ejection has lapsed, in the order of the map: by id.
Lapsed(s) ==
  LET due == {e \in s.ejected : s.now >= e.expires}
      ids == {e.id : e \in due}
  IN [k \in 1..Cardinality(ids) |->
        [id |-> Nth(ids, k), head |-> (CHOOSE e \in due : e.id = Nth(ids, k)).head]]

\* Admit one member after the other: those queued are replaced in place.
AdmitAll(q, ms) ==
  [k \in DOMAIN q |-> IF q[k].id \in Ids(ms)
                      THEN CHOOSE m \in Members(ms) : m.id = q[k].id
                      ELSE q[k]]
  \o Keep(ms, {k \in DOMAIN ms : ms[k].id \notin Ids(q)})

OnTick_bug_drops(s, t) ==
  LET a == AdvanceClock(s, t) IN [a EXCEPT !.ejected = {e \in @ : a.now < e.expires}]
OnTick_bug_keeps(s, t) == AdvanceClock(s, t)

OnTick(s, t) ==
  LET a == AdvanceClock(s, t)
  IN [a EXCEPT !.queue = AdmitAll(@, Lapsed(a)),
               !.ejected = {e \in @ : a.now < e.expires}]

OnLandFailed(s) ==
  [s EXCEPT !.infraFailures = @ + 1, !.infraRetryAfter = s.now + InfraBackoff]

-----------------------------------------------------------------------------
(* The verdict of a build.  s is idle with an empty roster, ms the roster. *)

ClearStreak(s) == [s EXCEPT !.infraFailures = 0, !.infraRetryAfter = None]

OnInfra(s, ms) ==
  IF s.infraFailures + 1 >= InfraMaxAttempts
  THEN EjectAll(ClearStreak(s), ms, "infrastructure")
  ELSE [s EXCEPT !.infraFailures = @ + 1,
                 !.infraRetryAfter = s.now + InfraBackoff,
                 !.queue = ms \o @]

\* errors: the files that carry an error, possibly none (only warnings).
AttributeRed(s, ms, errors) ==
  LET owners == {k \in DOMAIN ms : Changes[ms[k]] \cap errors # {}}
      owned == [k \in owners |-> Changes[ms[k]] \cap errors]
  IN IF owners = {} THEN EjectAll(s, ms, "unattributed")
     ELSE [Eject(s, ms, "attributed", owned)
             EXCEPT !.queue = @ \o Keep(ms, DOMAIN ms \ owners)]

EjectNamed(s, ms, id, files) ==
  LET named == {k \in DOMAIN ms : ms[k].id = id}
      kind == IF files = {} THEN "unattributed" ELSE "attributed"
  IN [Eject(s, ms, kind, [k \in named |-> files])
        EXCEPT !.queue = Without(ms, id) \o @]

\* The outcomes a build can report (Stale is a Conflict that names no file).
Outcome == [kind : {"Green", "UnattributedRed", "Infra"}]
           \cup [kind : {"Red"}, files : SUBSET File]
           \cup [kind : {"Conflict"}, id : Id, files : SUBSET File]
           \cup [kind : {"Stale", "RosterStale"}, id : Id]

Judge(s, ms, o) ==
  CASE o.kind = "Green" -> ClearStreak(s)
    [] o.kind = "Infra" -> OnInfra(s, ms)
    [] o.kind = "Red" -> AttributeRed(ClearStreak(s), ms, o.files)
    [] o.kind = "UnattributedRed" -> EjectAll(ClearStreak(s), ms, "unattributed")
    [] o.kind = "Conflict" -> EjectNamed(ClearStreak(s), ms, o.id, o.files)
    [] o.kind = "Stale" -> EjectNamed(ClearStreak(s), ms, o.id, {})
    [] o.kind = "RosterStale" -> [ClearStreak(s) EXCEPT !.queue = Without(ms, o.id) \o @]

\* A completion of a build the lane has moved past is ignored.
Current_bug(s, g) == g < s.generation /\ s.phase = "Building"
Current(s, g) == g = s.generation /\ s.phase = "Building"

OnBuildFinished(s, g, o) ==
  IF Current(s, g)
  THEN Judge([s EXCEPT !.phase = "Idle", !.inFlight = <<>>], s.inFlight, o)
  ELSE s

-----------------------------------------------------------------------------
(* The one place a build starts.                                           *)

BackingOff_bug(s) == s.infraRetryAfter # None
BackingOff(s) == s.infraRetryAfter # None /\ s.now < s.infraRetryAfter

Capturing(s) == /\ Len(s.queue) < MaxMembers
                /\ s.queuedSince # None
                /\ s.now - s.queuedSince < CaptureWindow

StartBuild(s) ==
  LET n == IF Len(s.queue) < MaxMembers THEN Len(s.queue) ELSE MaxMembers
  IN [s EXCEPT !.phase = "Building",
               !.generation = @ + 1,
               !.inFlight = SubSeq(s.queue, 1, n),
               !.queue = SubSeq(s.queue, n + 1, Len(s.queue)),
               !.queuedSince = None,
               !.infraRetryAfter = None]

MaybeStart_bug(s) ==
  IF s.queue = <<>> \/ BackingOff(s) \/ Capturing(s) THEN s ELSE StartBuild(s)

MaybeStart(s) ==
  CASE s.queue = <<>> -> [s EXCEPT !.queuedSince = None]
    [] s.queue # <<>> /\ (s.phase = "Building" \/ BackingOff(s)) -> s
    [] s.queue # <<>> /\ s.phase = "Idle" /\ ~BackingOff(s) ->
         IF Capturing(s) THEN [s EXCEPT !.infraRetryAfter = None] ELSE StartBuild(s)
=============================================================================
