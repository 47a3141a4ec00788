-------------------------- MODULE AppServe_proofs --------------------------
(***************************************************************************)
(* What holds of the app-serve daemon for every set of instances and       *)
(* commits, every number of ports, build slots and disturbances: driver    *)
(* and policy agree on the children, no port is lost or given twice, no    *)
(* bundle in use is pruned, and nobody waits for an answer that will not   *)
(* come.                                                                   *)
(***************************************************************************)
EXTENDS AppServe, AppMachine_proofs

-----------------------------------------------------------------------------
(* What a step of the policy means to the driver.                          *)

Spawns == {"SpawnAndProbe", "Respawn"}
AnySha == [n \in Name |-> Sha]

\* The generations of an instance: its attempt, the child that boots, those
\* that must not be stopped, those that must not be killed.
BusyGen(i) == IF i.pipe.at \in {"building", "probing"} THEN {i.pipe.gen} ELSE {}
BootGen(i) == IF i.pipe.at = "probing" THEN {i.pipe.gen} ELSE {}
HeldGens(i) == ServingGen(i) \cup i.draining
InUse(i) == ServingGen(i) \cup BusyGen(i)

OneSpawn(q) == \A j, k \in DOMAIN q : q[j].act \in Spawns /\ q[k].act \in Spawns => j = k
NoSpawn(q) == \A k \in DOMAIN q : q[k].act \notin Spawns

\* An order of a step for n that ends in s is about s as it is.
Apt(s, n, o) ==
  LET i == s.inst[o.name]
      p == i.pipe
  IN /\ o.name \in DOMAIN s.inst
     /\ o.act # "RecordRed" => o.gen < s.gen
     /\ o.act = "StartBuild" => p = Building(o.sha, o.gen)
     /\ o.act \in Spawns => p.at = "probing" /\ p.gen = o.gen /\ p.sha = o.sha
     /\ o.act = "Promote" => i.serving # None /\ i.serving.gen = o.gen /\ o.name = n
     /\ o.act \in {"StartDrain", "KillStandby"} => o.gen \notin InUse(i)
     /\ o.act = "KillStandby" => o.gen \notin i.draining

\* The event is the answer to the attempt p.
Answers(p, ev) ==
  \/ p.at = "building" /\ ev.type = "BuildFinished" /\ ev.gen = p.gen
  \/ p.at = "probing" /\ ev.type \in {"ProbeSucceeded", "ProbeFailed"} /\ ev.gen = p.gen
Promotes(p, ev) == ev.type = "ProbeSucceeded" /\ Answers(p, ev)
Fails(p, ev) == ev.type = "ProbeFailed" /\ Answers(p, ev)

SameChildren(i, j) ==
  j.serving = i.serving /\ j.draining = i.draining /\ j.lastGreen = i.lastGreen

\* The event ev of n moved the pipeline of m from s to t, if at all, to rest or
\* to an attempt it ordered: a build, the probe of the build that was green, or
\* the respawn of the last green.  An attempt under way ends with its answer.
Busy(p) == p.at \in {"building", "probing"}
Moves(s, t, m, n, ev) ==
  LET i == s.inst[m]
      p == t.inst[m].pipe
      Asks(act) == [act |-> act, name |-> m, sha |-> p.sha, gen |-> p.gen] \in Orders(t)
  IN /\ Busy(i.pipe) => p = i.pipe \/ (m = n /\ Answers(i.pipe, ev))
     /\ \/ p = i.pipe /\ (m = n => ~Answers(i.pipe, ev))
        \/ p.at \in {"idle", "queued"}
        \/ p.at = "building" /\ s.gen <= p.gen /\ p.gen < t.gen /\ Asks("StartBuild")
        \/ /\ m = n /\ Answers(i.pipe, ev) /\ ev.type = "BuildFinished" /\ ev.outcome = "green"
           /\ p.at = "probing" /\ p.sha = i.pipe.sha /\ p.gen = i.pipe.gen
           /\ Asks("SpawnAndProbe")
        \/ /\ m = n /\ p.at = "probing" /\ p.sha = t.inst[m].lastGreen
           /\ s.gen <= p.gen /\ p.gen < t.gen /\ Asks("Respawn")

\* An order of a step from s: a spawn is of a new child, a promotion of the
\* child whose probe succeeded.
Timely(s, ev, o) ==
  /\ o.act \in Spawns => \/ s.gen <= o.gen
                         \/ /\ s.inst[o.name].pipe.at = "building"
                            /\ s.inst[o.name].pipe.gen = o.gen
  /\ o.act = "Promote" => ev.type = "ProbeSucceeded"

\* What the event did to the children of its instance i, now j, and to its last
\* green.
Heeds(i, j, ev) ==
  LET c == [sha |-> i.pipe.sha, gen |-> i.pipe.gen]
  IN IF Promotes(i.pipe, ev)
     THEN j.serving = c /\ j.lastGreen = c.sha /\ j.draining = i.draining \cup ServingGen(i)
     ELSE /\ j.serving = i.serving
          /\ \/ j.lastGreen = i.lastGreen
             \/ ev.type = "RecoverFromPointer" /\ j.lastGreen = ev.sha
          /\ j.draining = IF ev.type = "DrainComplete" THEN i.draining \ {ev.gen} ELSE i.draining

\* The orders by which the driver follows.
Announced(s, t, n, ev) ==
  LET p == s.inst[n].pipe
  IN /\ Promotes(p, ev) =>
          [act |-> "Promote", name |-> n, sha |-> p.sha, gen |-> p.gen] \in Orders(t)
     /\ Fails(p, ev) => [act |-> "KillStandby", name |-> n, gen |-> p.gen] \in Orders(t)

\* From s to u in the middle of a step, before any dispatch.
Mid(s, u, n, ev) ==
  /\ Only(s, u, n) /\ s.gen <= u.gen
  /\ OneSpawn(u.out)
  /\ \A o \in Orders(u) : o.name = n /\ o.act # "StartBuild" /\ Apt(u, n, o) /\ Timely(s, ev, o)
  /\ Moves(s, u, n, n, ev) /\ Heeds(s.inst[n], u.inst[n], ev)

\* From s to t in a whole step.
Effect(s, t, n, ev) ==
  /\ DOMAIN t.inst = DOMAIN s.inst /\ s.gen <= t.gen
  /\ OneSpawn(t.out)
  /\ \A o \in Orders(t) : Apt(t, n, o) /\ Timely(s, ev, o)
  /\ \A m \in DOMAIN s.inst :
       /\ Moves(s, t, m, n, ev)
       /\ m # n => /\ SameChildren(s.inst[m], t.inst[m])
                   /\ t.inst[m] = s.inst[m] \/ s.inst[m].pipe.at = "queued"
  /\ Heeds(s.inst[n], t.inst[n], ev) /\ Announced(s, t, n, ev)

-----------------------------------------------------------------------------
(* Scripts.                                                                *)

LEMMA AppendOne ==
  ASSUME NEW q \in Seq(Order), NEW o \in Order
  PROVE  /\ o.act \in Spawns /\ NoSpawn(q) => OneSpawn(Append(q, o))
         /\ o.act \notin Spawns /\ OneSpawn(q) => OneSpawn(Append(q, o))
<1> DEFINE r == Append(q, o)
<1>1. /\ Len(q) \in Nat /\ DOMAIN q = 1..Len(q) /\ DOMAIN r = 1..(Len(q) + 1)
      /\ \A k \in 1..(Len(q) + 1) : r[k] = IF k = Len(q) + 1 THEN o ELSE q[k]
  OBVIOUS
<1> HIDE DEF r
<1>2. \A k \in DOMAIN r : k = Len(q) + 1 \/ k \in DOMAIN q
  BY <1>1
<1>3. ASSUME o.act \in Spawns, NoSpawn(q) PROVE OneSpawn(r)
  BY <1>1, <1>2, <1>3 DEF OneSpawn, NoSpawn
<1>4. ASSUME o.act \notin Spawns, OneSpawn(q) PROVE OneSpawn(r)
  BY <1>1, <1>2, <1>4 DEF OneSpawn
<1> QED  BY <1>3, <1>4 DEF r

LEMMA ConcatOne ==
  ASSUME NEW q \in Seq(Order), NEW r \in Seq(Order), OneSpawn(q), NoSpawn(r)
  PROVE  OneSpawn(q \o r)
<1> DEFINE w == q \o r
<1>1. /\ Len(q) \in Nat /\ Len(r) \in Nat /\ DOMAIN q = 1..Len(q) /\ DOMAIN r = 1..Len(r)
      /\ DOMAIN w = 1..(Len(q) + Len(r))
      /\ \A k \in 1..(Len(q) + Len(r)) : w[k] = IF k <= Len(q) THEN q[k] ELSE r[k - Len(q)]
  OBVIOUS
<1> HIDE DEF w
<1>2. ASSUME NEW k \in DOMAIN w, w[k].act \in Spawns
      PROVE  k \in DOMAIN q /\ w[k] = q[k]
  <2>1. CASE k <= Len(q)
    BY <1>1, <1>2, <2>1
  <2>2. CASE ~(k <= Len(q))
    <3>1. k - Len(q) \in DOMAIN r /\ w[k] = r[k - Len(q)]
      BY <1>1, <1>2, <2>2
    <3> QED  BY <1>2, <3>1 DEF NoSpawn
  <2> QED  BY <2>1, <2>2
<1> QED  BY <1>2 DEF OneSpawn, w

\* A script whose every order is not a spawn has none.
LEMMA OrdersSilent ==
  ASSUME NEW s, \A o \in Orders(s) : o.act \notin Spawns
  PROVE  NoSpawn(s.out)
BY DEF Orders, NoSpawn

-----------------------------------------------------------------------------
(* The operators of a step.                                                *)

\* The record of n is another, the orders and the generations are the same.
Quiet(u, v, n) ==
  /\ Only(u, v, n) /\ v.out = u.out /\ v.gen = u.gen
  /\ SameChildren(u.inst[n], v.inst[n])
  /\ \/ v.inst[n].pipe = u.inst[n].pipe
     \/ u.inst[n].pipe.at = "idle" /\ v.inst[n].pipe.at \in {"idle", "queued"}

LEMMA AptQuiet ==
  ASSUME NEW u, NEW v, NEW n \in DOMAIN u.inst, Quiet(u, v, n), NEW o, o.name = n,
         o.act # "StartBuild", Apt(u, n, o)
  PROVE  Apt(v, n, o)
<1> DEFINE i == u.inst[n]
           j == v.inst[n]
<1>1. n \in DOMAIN v.inst /\ v.gen = u.gen /\ SameChildren(i, j)
  BY DEF Quiet, Only
<1>2. ServingGen(j) = ServingGen(i)
  BY <1>1 DEF ServingGen, SameChildren
<1>3. BusyGen(j) \subseteq BusyGen(i)
  BY DEF Quiet, BusyGen
<1>4. o.act \in Spawns => j.pipe.at = "probing" /\ j.pipe.gen = o.gen /\ j.pipe.sha = o.sha
  BY DEF Quiet, Apt
<1>5. InUse(j) \subseteq InUse(i)
  BY <1>2, <1>3 DEF InUse
<1> QED  BY <1>1, <1>4, <1>5 DEF Apt, SameChildren

LEMMA MidQuiet ==
  ASSUME NEW s, NEW u, NEW v, NEW n \in DOMAIN s.inst, NEW ev, Mid(s, u, n, ev), Quiet(u, v, n)
  PROVE  Mid(s, v, n, ev)
<1>1. n \in DOMAIN u.inst /\ Only(s, v, n) /\ v.gen = u.gen /\ v.out = u.out
  BY DEF Mid, Quiet, Only
<1>2. Orders(v) = Orders(u)
  BY <1>1 DEF Orders
<1>3. ASSUME NEW o \in Orders(v)
      PROVE  o.name = n /\ o.act # "StartBuild" /\ Apt(v, n, o) /\ Timely(s, ev, o)
  BY <1>1, <1>2, AptQuiet DEF Mid
<1>4. Moves(s, v, n, n, ev)
  <2>1. CASE v.inst[n].pipe = u.inst[n].pipe
    BY <1>1, <1>2, <2>1 DEF Mid, Moves, Quiet, SameChildren
  <2>2. CASE u.inst[n].pipe.at = "idle" /\ v.inst[n].pipe.at \in {"idle", "queued"}
    BY <2>2 DEF Mid, Moves, Busy
  <2> QED  BY <2>1, <2>2 DEF Quiet
<1>5. Heeds(s.inst[n], v.inst[n], ev)
  BY DEF Mid, Quiet, Heeds, SameChildren
<1> QED  BY <1>1, <1>3, <1>4, <1>5 DEF Mid

LEMMA MidEmit ==
  ASSUME NEW s, NEW n \in DOMAIN s.inst, NEW u, NEW A, NEW G, Sound(u, A, G), NEW ev,
         Mid(s, u, n, ev), NEW o \in Order, o.name = n,
         o.act \in {"Promote", "StartDrain", "KillStandby", "RecordRed"}, Apt(u, n, o),
         Timely(s, ev, o)
  PROVE  Mid(s, Emit(u, o), n, ev)
<1> DEFINE v == Emit(u, o)
<1>1. v.inst = u.inst /\ v.gen = u.gen /\ Orders(v) = Orders(u) \cup {o}
  BY EmitFields, EmitOrders
<1>2. OneSpawn(v.out)
  <2>1. v.out = Append(u.out, o) /\ u.out \in Seq(Order)
    BY SoundFields DEF Emit
  <2>2. o.act \notin Spawns
    BY DEF Spawns
  <2> HIDE DEF v
  <2> QED  BY <2>1, <2>2, AppendOne DEF Mid
<1> HIDE DEF v
<1>3. \A x \in Orders(v) : Apt(v, n, x) <=> Apt(u, n, x)
  BY <1>1 DEF Apt
<1>4. Moves(s, v, n, n, ev)
  BY <1>1 DEF Mid, Moves
<1> QED  BY <1>1, <1>2, <1>3, <1>4 DEF Mid, Only, Heeds, v

\* A record of n that differs in nothing a child depends on.
LEMMA PutQuiet ==
  ASSUME NEW u, NEW A, NEW G, Sound(u, A, G), NEW n \in DOMAIN u.inst, NEW j,
         SameChildren(u.inst[n], j), j.pipe = u.inst[n].pipe
  PROVE  Quiet(u, Put(u, n, j), n)
<1> DEFINE v == Put(u, n, j)
<1>1. IsPut(v, u, n, j)
  BY PutFields
<1> HIDE DEF v
<1>2. Quiet(u, v, n)
  BY <1>1 DEF IsPut, Quiet, Only
<1> QED  BY <1>2 DEF v

\* A request leaves the orders and the generations alone.
LEMMA RequestQuiet ==
  ASSUME NEW s, NEW A, NEW G, Sound(s, A, G), NEW n \in DOMAIN s.inst, NEW sha \in Sha,
         s.inst[n].pipe = Idle
  PROVE  Quiet(s, RequestBuild(s, n, sha), n)
<1> DEFINE i == s.inst[n]
           t == RequestBuild(s, n, sha)
           j == [i EXCEPT !.pipe = Queued(sha)]
           u == Put(s, n, j)
<1>1. /\ Only(s, t, n)
      /\ IF Serves(i, sha) \/ i.lastRed = sha THEN t.inst[n] = i
         ELSE IsPiped(t.inst[n], i, Queued(sha))
  BY RequestBuildIs
<1>2. Kept(s, t)
  BY RequestBuildKeeps
<1>3. t.out = s.out /\ t.gen = s.gen
  <2>1. CASE Serves(i, sha) \/ i.lastRed = sha
    <3>1. t = s
      BY <2>1 DEF RequestBuild
    <3> QED  BY <3>1
  <2>2. CASE ~(Serves(i, sha) \/ i.lastRed = sha)
    <3>1. t = [u EXCEPT !.queue = Append(@, n)]
      BY <2>2 DEF RequestBuild, SetPipe, Put
    <3> HIDE DEF j
    <3>2. IsPut(u, s, n, j)
      BY PutFields
    <3>3. u = [inst |-> u.inst, queue |-> u.queue, building |-> u.building, gen |-> u.gen,
               out |-> u.out] /\ u.gen = s.gen /\ u.out = s.out
      BY <3>2 DEF IsPut
    <3> HIDE DEF u, t
    <3> QED  BY <3>1, <3>3
  <2> QED  BY <2>1, <2>2
<1> HIDE DEF t
<1>4. SameChildren(i, t.inst[n])
  BY <1>2 DEF Kept, Same, SameChildren
<1>5. \/ t.inst[n].pipe = i.pipe
      \/ i.pipe.at = "idle" /\ t.inst[n].pipe.at \in {"idle", "queued"}
  BY <1>1 DEF IsPiped, Idle, Queued
<1>6. Quiet(s, t, n)
  BY <1>1, <1>3, <1>4, <1>5 DEF Quiet
<1> QED  BY <1>6 DEF t

LEMMA MidRequest ==
  ASSUME NEW s, NEW n \in DOMAIN s.inst, NEW u, NEW A, NEW G, Sound(u, A, G), NEW ev,
         Mid(s, u, n, ev), u.inst[n].pipe = Idle, NEW sha \in Sha
  PROVE  LET t == RequestBuild([u EXCEPT !.inst[n].pending = None], n, sha)
         IN Sound(t, A, G) /\ Mid(s, t, n, ev)
<1> DEFINE i == u.inst[n]
           j == [i EXCEPT !.pending = None]
           v == Put(u, n, j)
           t == RequestBuild(v, n, sha)
<1>1. [u EXCEPT !.inst[n].pending = None] = v
  BY DEF Put
<1>2. n \in DOMAIN u.inst
  BY DEF Mid, Only
<1>3. i \in Instance /\ Fits(i, n, Work(u, A), u.gen, G[n]) /\ i.pipe.at = "idle"
  BY <1>2, InstanceFacts DEF Idle
<1>4. j \in Instance /\ j.pipe = i.pipe /\ j.lastGreen = i.lastGreen /\ SameChildren(i, j)
  BY <1>3 DEF Instance, SameChildren
<1> HIDE DEF j
<1>5. Fits(j, n, Work(u, A), u.gen, G[n]) /\ n \notin u.building
  BY <1>2, <1>3, <1>4, CalmFits, OutOfSlot
<1>6. Sound(v, A, G)
  BY <1>2, <1>3, <1>4, <1>5, PutSound
<1>7. Quiet(u, v, n)
  BY <1>2, <1>4, PutQuiet
<1>8. IsPut(v, u, n, j)
  BY <1>2, PutFields
<1> HIDE DEF v
<1>9. n \in DOMAIN v.inst /\ v.inst[n].pipe = Idle
  BY <1>2, <1>4, <1>8 DEF IsPut
<1>10. Mid(s, v, n, ev)
  BY <1>7, MidQuiet
<1>11. Quiet(v, t, n) /\ Sound(t, A, G)
  BY <1>6, <1>9, RequestQuiet, RequestBuildKeeps
<1> HIDE DEF t
<1>12. Mid(s, t, n, ev)
  BY <1>10, <1>11, MidQuiet
<1> QED  BY <1>1, <1>11, <1>12 DEF t

LEMMA MidRed ==
  ASSUME NEW s, NEW n \in DOMAIN s.inst, NEW u, NEW A, NEW G, Sound(u, A, G), NEW ev,
         Mid(s, u, n, ev), NEW sha \in Sha
  PROVE  LET t == RecordRed(u, n, sha)
         IN Sound(t, A, G) /\ Mid(s, t, n, ev)
<1> DEFINE i == u.inst[n]
           j == [i EXCEPT !.lastRed = sha]
           v == Put(u, n, j)
           o == [act |-> "RecordRed", name |-> n, sha |-> sha]
           t == RecordRed(u, n, sha)
<1>1. t = Emit(v, o)
  BY DEF RecordRed, Put
<1>2. n \in DOMAIN u.inst
  BY DEF Mid, Only
<1>3. n \in Name /\ i \in Instance /\ Fits(i, n, Work(u, A), u.gen, G[n])
  BY <1>2, InstanceFacts
<1>4. j \in Instance /\ j.pipe = i.pipe /\ j.lastGreen = i.lastGreen /\ SameChildren(i, j)
  BY <1>3 DEF Instance, SameChildren
<1>5. n \in u.building => i.pipe.at = "building"
  BY DEF Sound, SlotsOK
<1> HIDE DEF j
<1>6. Fits(j, n, Work(u, A), u.gen, G[n])
  BY <1>3, <1>4, CalmFits
<1>7. Sound(v, A, G)
  BY <1>2, <1>4, <1>5, <1>6, PutSound
<1>8. Quiet(u, v, n)
  BY <1>2, <1>4, PutQuiet
<1> HIDE DEF v
<1>9. Mid(s, v, n, ev)
  BY <1>8, MidQuiet
<1>10. o \in Order /\ o.act = "RecordRed" /\ o.name = n
  BY <1>3 DEF Order
<1> HIDE DEF o
<1>11. Apt(v, n, o) /\ Timely(s, ev, o)
  BY <1>9, <1>10 DEF Mid, Only, Apt, Timely, Spawns
<1>12. Mid(s, Emit(v, o), n, ev)
  BY <1>7, <1>9, <1>10, <1>11, MidEmit
<1>13. Sound(t, A, G)
  BY <1>2, RecordRedKeeps
<1> QED  BY <1>1, <1>12, <1>13

\* What a respawn does to the script.
LEMMA RespawnScript ==
  ASSUME NEW u, NEW A, NEW G, Sound(u, A, G), NEW n \in DOMAIN u.inst, OwesRespawn(u.inst[n])
  PROVE  LET t == TryRespawn(u, n)
             o == [act |-> "Respawn", name |-> n, sha |-> u.inst[n].lastGreen, gen |-> u.gen]
         IN t.gen = u.gen + 1 /\ t.out = Append(u.out, o) /\ o \in Order
<1> DEFINE i == u.inst[n]
           j == [i EXCEPT !.needsRespawn = FALSE, !.pipe = Probing(i.lastGreen, u.gen, TRUE)]
           w == Put(u, n, j)
           g == u.gen + 1
           v == [w EXCEPT !.gen = g]
           o == [act |-> "Respawn", name |-> n, sha |-> i.lastGreen, gen |-> u.gen]
           t == TryRespawn(u, n)
<1>1. u = [inst |-> u.inst, queue |-> u.queue, building |-> u.building, gen |-> u.gen,
           out |-> u.out]
  BY SoundFields
<1>2. [u EXCEPT !.inst[n] = j, !.gen = @ + 1] = v
  BY <1>1 DEF Put
<1>3. t = Emit(v, o)
  BY <1>2 DEF TryRespawn
<1>4. o \in Order
  <2>1. n \in Name /\ i.lastGreen \in Sha /\ u.gen \in Nat
    BY InstanceFacts, SoundFields DEF OwesRespawn
  <2> QED  BY <2>1 DEF Order
<1> HIDE DEF j, o, g
<1>5. IsPut(w, u, n, j)
  BY PutFields
<1>6. w = [inst |-> w.inst, queue |-> w.queue, building |-> w.building, gen |-> w.gen,
           out |-> w.out] /\ w.out = u.out
  BY <1>5 DEF IsPut
<1> HIDE DEF w
<1>7. v = [inst |-> w.inst, queue |-> w.queue, building |-> w.building, gen |-> g,
           out |-> u.out]
  BY <1>6
<1> HIDE DEF v, t
<1>8. t = [v EXCEPT !.out = Append(v.out, o)]
  BY <1>3 DEF Emit
<1>9. t.gen = g /\ t.out = Append(u.out, o)
  BY <1>7, <1>8
<1> QED  BY <1>4, <1>9 DEF g, o, t, i

LEMMA MidRespawn ==
  ASSUME NEW s, s.gen \in Nat, NEW n \in DOMAIN s.inst, NEW u, NEW A, NEW G, Sound(u, A, G),
         NEW ev, Mid(s, u, n, ev)
  PROVE  LET t == TryRespawn(u, n)
         IN Sound(t, A, G) /\ Mid(s, t, n, ev)
<1> DEFINE i == u.inst[n]
           t == TryRespawn(u, n)
           j == t.inst[n]
           o == [act |-> "Respawn", name |-> n, sha |-> i.lastGreen, gen |-> u.gen]
<1>1. n \in DOMAIN u.inst
  BY DEF Mid, Only
<1>2. Sound(t, A, G) /\ Kept(u, t)
  BY <1>1, TryRespawnKeeps
<1>3. CASE ~OwesRespawn(i)
  BY <1>2, <1>3 DEF TryRespawn
<1>4. CASE OwesRespawn(i)
  <2>1. t.gen = u.gen + 1 /\ t.out = Append(u.out, o) /\ o \in Order
    BY <1>1, <1>4, RespawnScript
  <2>2. Only(u, t, n) /\ j.pipe = Probing(i.lastGreen, u.gen, TRUE)
    BY <1>1, <1>4, TryRespawnIs
  <2>3. SameChildren(i, j)
    BY <1>1, <1>2 DEF Kept, Same, SameChildren
  <2>4. i.pipe.at = "idle" /\ i.serving = None
    BY <1>4 DEF OwesRespawn, Idle
  <2>5. o.act = "Respawn" /\ o.name = n /\ o.sha = i.lastGreen /\ o.gen = u.gen
    OBVIOUS
  <2> HIDE DEF t, o
  <2>6. j.pipe.at = "probing" /\ j.pipe.sha = i.lastGreen /\ j.pipe.gen = u.gen
    BY <2>2 DEF Probing
  <2>7. u.gen \in Nat /\ u.out \in Seq(Order) /\ s.gen <= u.gen
    BY SoundFields DEF Mid
  <2>8. /\ Orders(u) \subseteq Order
        /\ Orders(t) = Orders(u) \cup {o}
    BY <2>1, <2>7 DEF Orders
  <2>9. \A x \in Orders(u) : x.act \notin Spawns
    BY <2>4 DEF Mid, Apt
  <2>10. OneSpawn(t.out)
    BY <2>1, <2>5, <2>7, <2>9, OrdersSilent, AppendOne DEF Spawns
  <2>11. ServingGen(j) = {}
    BY <2>3, <2>4 DEF SameChildren, ServingGen
  <2>12. InUse(j) = {u.gen}
    BY <2>6, <2>11 DEF InUse, BusyGen
  <2>13. ASSUME NEW x \in Orders(t)
         PROVE  x.name = n /\ x.act # "StartBuild" /\ Apt(t, n, x) /\ Timely(s, ev, x)
    <3>1. CASE x = o
      <4>1. n \in DOMAIN t.inst /\ u.gen < t.gen
        BY <1>1, <2>1, <2>2, <2>7 DEF Only
      <4>2. x.act = "Respawn" /\ x.name = n /\ x.sha = i.lastGreen /\ x.gen = u.gen
        BY <2>5, <3>1
      <4> QED  BY <2>6, <2>7, <4>1, <4>2 DEF Apt, Timely, Spawns
    <3>2. CASE x \in Orders(u)
      <4>1. x.name = n /\ x.act # "StartBuild" /\ Apt(u, n, x) /\ Timely(s, ev, x)
            /\ x.act \notin Spawns
        BY <2>9, <3>2 DEF Mid
      <4>2. x.act # "Promote"
        BY <2>4, <4>1 DEF Apt
      <4>3. x.act # "RecordRed" => x.gen \in Nat /\ x.gen < u.gen
        BY <2>8, <3>2, <4>1 DEF Apt, Order
      <4>4. n \in DOMAIN t.inst /\ j.draining = i.draining
        BY <1>1, <2>2, <2>3 DEF Only, SameChildren
      <4> QED  BY <2>1, <2>7, <2>12, <4>1, <4>2, <4>3, <4>4 DEF Apt
    <3> QED  BY <2>8, <3>1, <3>2
  <2>14. Moves(s, t, n, n, ev)
    <3>1. [act |-> "Respawn", name |-> n, sha |-> j.pipe.sha, gen |-> j.pipe.gen] \in Orders(t)
      BY <2>6, <2>8 DEF o
    <3>2. Busy(s.inst[n].pipe) => Answers(s.inst[n].pipe, ev)
      BY <2>4 DEF Mid, Moves, Busy
    <3>3. j.pipe.sha = j.lastGreen /\ s.gen <= j.pipe.gen /\ j.pipe.gen < t.gen
      BY <2>1, <2>3, <2>6, <2>7 DEF SameChildren
    <3> QED  BY <2>6, <3>1, <3>2, <3>3 DEF Moves
  <2>15. Heeds(s.inst[n], t.inst[n], ev)
    BY <2>3 DEF Mid, Heeds, SameChildren
  <2>16. Only(s, t, n) /\ s.gen <= t.gen
    BY <2>1, <2>2, <2>7 DEF Mid, Only
  <2>17. Mid(s, t, n, ev)
    BY <2>10, <2>13, <2>14, <2>15, <2>16 DEF Mid
  <2> QED  BY <1>2, <2>17 DEF t
<1> QED  BY <1>3, <1>4

LEMMA MidSettle ==
  ASSUME NEW s, s.gen \in Nat, NEW n \in DOMAIN s.inst, NEW u, NEW A, NEW G, Sound(u, A, G),
         NEW ev, Mid(s, u, n, ev)
  PROVE  LET t == SettleIdle(u, n)
         IN Sound(t, A, G) /\ Mid(s, t, n, ev)
<1> DEFINE v == TryRespawn(u, n)
           i == v.inst[n]
           w == RequestBuild([v EXCEPT !.inst[n].pending = None], n, i.pending)
<1>1. SettleIdle(u, n) = IF i.pipe = Idle /\ i.pending # None THEN w ELSE v
  BY DEF SettleIdle
<1>2. Sound(v, A, G) /\ Mid(s, v, n, ev)
  BY MidRespawn
<1> HIDE DEF v
<1>3. ASSUME i.pipe = Idle, i.pending # None
      PROVE  Sound(w, A, G) /\ Mid(s, w, n, ev)
  <2>1. n \in DOMAIN v.inst
    BY <1>2 DEF Mid, Only
  <2>2. i.pending \in Sha
    BY <1>2, <1>3, <2>1, InstanceFacts
  <2> QED  BY <1>2, <1>3, <2>2, MidRequest
<1> HIDE DEF w
<1> QED  BY <1>1, <1>2, <1>3

LEMMA MidRequeue ==
  ASSUME NEW s, NEW n \in DOMAIN s.inst, NEW u, NEW A, NEW G, Sound(u, A, G), NEW ev,
         Mid(s, u, n, ev), u.inst[n].pipe = Idle, NEW sha \in Sha
  PROVE  LET t == Requeue(u, n, sha)
         IN Sound(t, A, G) /\ Mid(s, t, n, ev)
<1> DEFINE next == IF u.inst[n].pending = None THEN sha ELSE u.inst[n].pending
           t == RequestBuild([u EXCEPT !.inst[n].pending = None], n, next)
<1>1. n \in DOMAIN u.inst
  BY DEF Mid, Only
<1>2. next \in Sha
  BY <1>1, InstanceFacts
<1>3. Requeue(u, n, sha) = t
  BY DEF Requeue
<1> HIDE DEF next
<1>4. Sound(t, A, G) /\ Mid(s, t, n, ev)
  BY <1>2, MidRequest
<1> QED  BY <1>3, <1>4

-----------------------------------------------------------------------------
(* A whole step.                                                           *)

LEMMA AnnouncedGrows ==
  ASSUME NEW s, NEW u, NEW t, NEW n, NEW ev, Announced(s, u, n, ev), Orders(u) \subseteq Orders(t)
  PROVE  Announced(s, t, n, ev)
BY DEF Announced

\* A step without a dispatch.
LEMMA MidEffect ==
  ASSUME NEW s, NEW n \in DOMAIN s.inst, NEW u, NEW ev, Mid(s, u, n, ev), Announced(s, u, n, ev)
  PROVE  Effect(s, u, n, ev)
<1>1. ASSUME NEW m \in DOMAIN s.inst, m # n
      PROVE  Moves(s, u, m, n, ev) /\ SameChildren(s.inst[m], u.inst[m]) /\ u.inst[m] = s.inst[m]
  BY <1>1 DEF Mid, Only, Moves, SameChildren
<1> QED  BY <1>1 DEF Mid, Effect, Only

\* The instance a dispatch starts to build.
LEMMA LaunchRecord ==
  ASSUME NEW u, NEW A, NEW G, Sound(u, A, G), NEW m \in DOMAIN u.inst, Starts(u, m)
  PROVE  LET t == Dispatch(u)
             p == t.inst[m].pipe
         IN /\ u.inst[m].pipe.at = "queued" /\ p.at = "building"
            /\ u.gen <= p.gen /\ p.gen < t.gen
            /\ p = Building(u.inst[m].pipe.sha, u.gen + Place(u, m) - 1)
            /\ [act |-> "StartBuild", name |-> m, sha |-> p.sha, gen |-> p.gen] \in Orders(t)
<1> DEFINE t == Dispatch(u)
           j == Place(u, m)
           g == u.gen + j - 1
           p == Building(u.inst[m].pipe.sha, g)
<1>1. IsDispatch(t, u)
  BY DispatchIs
<1> HIDE DEF t
<1>2. /\ j \in 1..Starting(u) /\ u.queue[j] = m /\ Starting(u) \in Nat /\ u.gen \in Nat
      /\ u.inst[m].pipe.at = "queued"
  BY StartingFacts, SoundFields
<1>3. t.gen = u.gen + Starting(u) /\ t.inst[m] = Launched(u, m)
  BY <1>1 DEF IsDispatch
<1>4. Launched(u, m) = [u.inst[m] EXCEPT !.pipe = p]
  BY LaunchedIs
<1>5. t.inst[m].pipe = p
  BY <1>3, <1>4, InstanceFacts, Piped DEF IsPiped
<1>6. p.at = "building" /\ p.sha = u.inst[m].pipe.sha /\ p.gen = g
  BY DEF Building
<1>7. Launch(u)[j] = [act |-> "StartBuild", name |-> m, sha |-> u.inst[m].pipe.sha, gen |-> g]
  BY <1>2 DEF Launch
<1>8. Launch(u)[j] \in Orders(t)
  BY <1>1, <1>2, LaunchOrders
<1>9. u.gen <= g /\ g < t.gen
  BY <1>2, <1>3
<1> QED  BY <1>2, <1>5, <1>6, <1>7, <1>8, <1>9 DEF t

LEMMA DispatchEffect ==
  ASSUME NEW s, s.gen \in Nat, NEW n \in DOMAIN s.inst, NEW u, NEW A, NEW G, Sound(u, A, G),
         NEW ev, Mid(s, u, n, ev), Announced(s, u, n, ev)
  PROVE  Effect(s, Dispatch(u), n, ev)
<1> DEFINE t == Dispatch(u)
           k == Starting(u)
           l == Launch(u)
<1>1. IsDispatch(t, u) /\ Kept(u, t)
  BY DispatchIs, DispatchKeeps
<1>2. /\ k \in Nat /\ u.gen \in Nat /\ u.out \in Seq(Order) /\ s.gen <= u.gen
      /\ t.gen = u.gen + k /\ t.out = u.out \o l
  BY <1>1, StartingFacts, SoundFields DEF IsDispatch, Mid
<1>3. ASSUME NEW m \in DOMAIN u.inst, Starts(u, m)
      PROVE  /\ u.inst[m].pipe.at = "queued" /\ t.inst[m].pipe.at = "building"
             /\ u.gen <= t.inst[m].pipe.gen /\ t.inst[m].pipe.gen < t.gen
             /\ t.inst[m].pipe = Building(u.inst[m].pipe.sha, u.gen + Place(u, m) - 1)
             /\ [act |-> "StartBuild", name |-> m, sha |-> t.inst[m].pipe.sha,
                 gen |-> t.inst[m].pipe.gen] \in Orders(t)
  BY <1>3, LaunchRecord
<1>4. /\ Orders(u) \subseteq Orders(t)
      /\ \A o \in Orders(t) : o \in Orders(u) \/ \E j \in 1..k : o = l[j]
  BY <1>1, LaunchOrders
<1>5. DOMAIN u.inst = DOMAIN s.inst /\ \A m \in DOMAIN u.inst : m # n => u.inst[m] = s.inst[m]
  BY DEF Mid, Only
<1>6. \A m \in DOMAIN u.inst : /\ SameChildren(u.inst[m], t.inst[m])
                               /\ ~Starts(u, m) => t.inst[m] = u.inst[m]
  BY <1>1, LaunchFits DEF Same, SameChildren
<1>7. OneSpawn(t.out)
  <2>1. DOMAIN l = 1..k /\ \A j \in 1..k : l[j].act = "StartBuild" /\ l[j] \in Order
    BY LaunchElements DEF Launch
  <2>2. l = [j \in 1..k |-> l[j]]
    BY DEF Launch
  <2> HIDE DEF k, l, t
  <2>3. l \in Seq(Order)
    BY <1>2, <2>1, <2>2
  <2>4. NoSpawn(l)
    BY <2>1 DEF NoSpawn, Spawns
  <2> QED  BY <1>2, <2>3, <2>4, ConcatOne DEF Mid
<1>8. \A j \in 1..k : l[j] = [act |-> "StartBuild", name |-> u.queue[j],
                              sha |-> u.inst[u.queue[j]].pipe.sha, gen |-> u.gen + j - 1]
  BY DEF Launch
<1>9. \A j \in 1..k : u.queue[j] \in DOMAIN u.inst /\ Starts(u, u.queue[j]) /\ Place(u, u.queue[j]) = j
  BY StartingFacts
<1>10. \A o \in Orders(u) : o \in Order
  BY <1>2 DEF Orders
<1> HIDE DEF t, k, l
<1>11. \A m \in DOMAIN u.inst : m \in DOMAIN t.inst
  BY <1>1 DEF Kept
<1>12. ASSUME NEW o \in Orders(t)
       PROVE  Apt(t, n, o) /\ Timely(s, ev, o)
  <2>1. CASE o \in Orders(u)
    <3>1. o.name = n /\ o.act # "StartBuild" /\ Apt(u, n, o) /\ Timely(s, ev, o)
      BY <2>1 DEF Mid
    <3>2. o.act # "RecordRed" => o.gen \in Nat /\ o.gen < u.gen
      BY <1>10, <2>1, <3>1 DEF Apt, Order
    <3>3. CASE ~Starts(u, n)
      <4>1. t.inst[n] = u.inst[n]
        BY <1>5, <1>6, <3>3
      <4> QED  BY <1>2, <1>5, <1>11, <3>1, <3>2, <4>1 DEF Apt
    <3>4. CASE Starts(u, n)
      <4>1. /\ u.inst[n].pipe.at = "queued" /\ t.inst[n].pipe.at = "building"
            /\ u.gen <= t.inst[n].pipe.gen
            /\ t.inst[n].pipe = Building(u.inst[n].pipe.sha, u.gen + Place(u, n) - 1)
        BY <1>3, <1>5, <3>4
      <4>2. t.inst[n].pipe.gen = u.gen + Place(u, n) - 1 /\ Place(u, n) \in 1..k
        BY <4>1, <3>4, StartingFacts DEF Building, k
      <4>3. o.act \notin Spawns
        BY <3>1, <4>1 DEF Apt
      <4>4. SameChildren(u.inst[n], t.inst[n])
        BY <1>5, <1>6
      <4>5. ASSUME o.act # "RecordRed", o.gen \notin InUse(u.inst[n])
            PROVE  o.gen \notin InUse(t.inst[n])
        <5>1. BusyGen(t.inst[n]) = {t.inst[n].pipe.gen}
          BY <4>1 DEF BusyGen
        <5>2. ServingGen(t.inst[n]) = ServingGen(u.inst[n])
          BY <4>4 DEF ServingGen, SameChildren
        <5>3. o.gen # t.inst[n].pipe.gen
          BY <1>2, <3>2, <4>2, <4>5
        <5> QED  BY <4>5, <5>1, <5>2, <5>3 DEF InUse
      <4>6. o.act # "RecordRed" => o.gen < t.gen
        BY <1>2, <3>2
      <4> QED  BY <1>5, <1>11, <3>1, <4>3, <4>4, <4>5, <4>6 DEF Apt, SameChildren
    <3> QED  BY <3>1, <3>3, <3>4
  <2>2. ASSUME NEW j \in 1..k, o = l[j]
        PROVE  Apt(t, n, o) /\ Timely(s, ev, o)
    <3> DEFINE m == u.queue[j]
    <3>1. o = [act |-> "StartBuild", name |-> m, sha |-> u.inst[m].pipe.sha,
               gen |-> u.gen + j - 1]
      BY <1>8, <2>2
    <3>0. o.act = "StartBuild" /\ o.name = m /\ o.sha = u.inst[m].pipe.sha /\ o.gen = u.gen + j - 1
      BY <3>1
    <3>2. m \in DOMAIN u.inst /\ Starts(u, m) /\ Place(u, m) = j
      BY <1>9
    <3>3. t.inst[m].pipe = Building(o.sha, o.gen) /\ m \in DOMAIN t.inst
      BY <1>3, <1>11, <3>0, <3>2
    <3>4. o.gen < t.gen
      BY <1>2, <3>0
    <3> HIDE DEF m
    <3> QED  BY <3>0, <3>3, <3>4 DEF Apt, Timely, Spawns
  <2> QED  BY <1>4, <2>1, <2>2
<1>13. ASSUME NEW m \in DOMAIN s.inst
       PROVE  Moves(s, t, m, n, ev)
  <2>1. CASE Starts(u, m)
    <3>1. Busy(s.inst[m].pipe) => m = n /\ Answers(s.inst[m].pipe, ev)
      <4>1. u.inst[m].pipe.at = "queued"
        BY <1>3, <1>5, <2>1
      <4>2. CASE m = n
        BY <4>1, <4>2 DEF Mid, Moves, Busy
      <4>3. CASE m # n
        BY <1>5, <4>1, <4>3 DEF Busy
      <4> QED  BY <4>2, <4>3
    <3>2. /\ t.inst[m].pipe.at = "building"
          /\ u.gen <= t.inst[m].pipe.gen /\ t.inst[m].pipe.gen < t.gen
          /\ [act |-> "StartBuild", name |-> m, sha |-> t.inst[m].pipe.sha,
              gen |-> t.inst[m].pipe.gen] \in Orders(t)
      BY <1>3, <1>5, <2>1
    <3>3. s.gen <= t.inst[m].pipe.gen
      <4>1. t.inst[m].pipe.gen \in Nat
        <5>0. t.inst[m].pipe = Building(u.inst[m].pipe.sha, u.gen + Place(u, m) - 1)
          BY <1>3, <1>5, <2>1
        <5>1. t.inst[m].pipe.gen = u.gen + Place(u, m) - 1
          BY <5>0 DEF Building
        <5>2. Place(u, m) \in 1..k
          BY <1>5, <2>1, StartingFacts DEF k
        <5> QED  BY <1>2, <5>1, <5>2
      <4> QED  BY <1>2, <3>2, <4>1
    <3> QED  BY <3>1, <3>2, <3>3 DEF Moves
  <2>2. CASE ~Starts(u, m) /\ m = n
    <3>1. t.inst[m] = u.inst[m]
      BY <1>5, <1>6, <2>2
    <3>2. Moves(s, u, m, n, ev)
      BY <2>2 DEF Mid
    <3>3. Busy(u.inst[m].pipe) => u.inst[m].pipe.gen \in Nat
      BY <1>5, InstanceFacts, PipeFacts DEF Busy
    <3>4. Busy(u.inst[m].pipe) /\ u.inst[m].pipe.gen < u.gen => u.inst[m].pipe.gen < t.gen
      BY <1>2, <3>3
    <3> QED  BY <1>4, <3>1, <3>2, <3>4 DEF Moves, Busy
  <2>3. CASE ~Starts(u, m) /\ m # n
    <3>1. t.inst[m] = s.inst[m]
      BY <1>5, <1>6, <2>3
    <3> QED  BY <2>3, <3>1 DEF Moves
  <2> QED  BY <2>1, <2>2, <2>3
<1>14. ASSUME NEW m \in DOMAIN s.inst, m # n
       PROVE  /\ SameChildren(s.inst[m], t.inst[m])
              /\ t.inst[m] = s.inst[m] \/ s.inst[m].pipe.at = "queued"
  BY <1>3, <1>5, <1>6, <1>14
<1>15. Heeds(s.inst[n], t.inst[n], ev)
  BY <1>5, <1>6 DEF Mid, Heeds, SameChildren
<1>16. Announced(s, t, n, ev)
  BY <1>4, AnnouncedGrows
<1>17. DOMAIN t.inst = DOMAIN s.inst /\ s.gen <= t.gen
  BY <1>1, <1>2, <1>5 DEF Kept
<1> QED  BY <1>7, <1>12, <1>13, <1>14, <1>15, <1>16, <1>17 DEF Effect, t

-----------------------------------------------------------------------------
(* The events, one by one, from an empty script.                           *)

LEMMA EmptyOne ==
  ASSUME NEW u, Orders(u) = {}
  PROVE  OneSpawn(u.out)
BY DEF Orders, OneSpawn

\* The event changes nothing.
LEMMA MidSelf ==
  ASSUME NEW s, s.gen \in Nat, Orders(s) = {}, NEW n \in DOMAIN s.inst, NEW ev,
         ~Answers(s.inst[n].pipe, ev), ev.type # "DrainComplete"
  PROVE  Mid(s, s, n, ev) /\ Effect(s, s, n, ev)
<1>1. Announced(s, s, n, ev)
  BY DEF Announced, Promotes, Fails
<1>2. Mid(s, s, n, ev)
  BY EmptyOne DEF Mid, Only, Moves, Heeds, Promotes
<1> QED  BY <1>1, <1>2, MidEffect

\* It puts another record in the place of that of n.
LEMMA MidPut ==
  ASSUME NEW s, NEW n \in DOMAIN s.inst, NEW w, NEW A, NEW G, Sound(w, A, G),
         w.inst = s.inst, w.gen = s.gen, Orders(w) = {}, NEW j, NEW ev,
         Heeds(s.inst[n], j, ev),
         \/ j.pipe = s.inst[n].pipe /\ ~Answers(s.inst[n].pipe, ev)
         \/ j.pipe.at \in {"idle", "queued"} /\ (Busy(s.inst[n].pipe) => Answers(s.inst[n].pipe, ev))
  PROVE  /\ Mid(s, Put(w, n, j), n, ev)
         /\ IsPut(Put(w, n, j), w, n, j) /\ n \in DOMAIN Put(w, n, j).inst
         /\ Put(w, n, j).inst[n] = j /\ Orders(Put(w, n, j)) = {}
<1> DEFINE u == Put(w, n, j)
<1>1. IsPut(u, w, n, j)
  BY PutFields
<1> HIDE DEF u
<1>2. u.gen = s.gen /\ s.gen <= u.gen /\ Orders(u) = {} /\ Only(s, u, n) /\ u.inst[n] = j
  BY <1>1, SoundFields DEF IsPut, Only
<1>3. Moves(s, u, n, n, ev)
  BY <1>2 DEF Moves, Busy
<1>4. Mid(s, u, n, ev)
  BY <1>2, <1>3, EmptyOne DEF Mid
<1> QED  BY <1>1, <1>2, <1>4 DEF u, Only

LEMMA OnHeadEffect ==
  ASSUME NEW s, NEW A, NEW G, Sound(s, A, G), Orders(s) = {}, NEW n \in DOMAIN s.inst,
         NEW sha \in Sha, NEW ev, ev.type = "HeadAdvanced"
  PROVE  Effect(s, OnHead(s, n, sha), n, ev)
<1> DEFINE i == s.inst[n]
           t == OnHead(s, n, sha)
<1>1. i \in Instance /\ i.pipe.at \in {"idle", "queued", "building", "probing"} /\ s.gen \in Nat
  BY InstanceFacts, InstanceTypes, SoundFields
<1>2. ~Answers(i.pipe, ev) /\ ev.type # "DrainComplete"
  BY DEF Answers
<1>3. \A u : Announced(s, u, n, ev)
  BY DEF Announced, Promotes, Fails
<1>4. Mid(s, s, n, ev) /\ Effect(s, s, n, ev)
  BY <1>1, <1>2, MidSelf
<1>5. CASE i.pipe.at = "idle"
  <2> DEFINE u == RequestBuild(s, n, sha)
  <2>1. t = Dispatch(u)
    BY <1>5 DEF OnHead
  <2>2. i.pipe = Idle
    BY <1>1, <1>5, InstanceTypes
  <2>3. Sound(u, A, G) /\ Quiet(s, u, n)
    BY <2>2, RequestBuildKeeps, RequestQuiet
  <2> HIDE DEF u
  <2>4. Mid(s, u, n, ev)
    BY <1>4, <2>3, MidQuiet
  <2> QED  BY <1>1, <1>3, <2>1, <2>3, <2>4, DispatchEffect
<1>6. CASE i.pipe.at = "queued"
  <2> DEFINE j == [i EXCEPT !.pipe = Queued(sha)]
             u == Put(s, n, j)
  <2>1. t = u
    BY <1>6 DEF OnHead, SetPipe, Put
  <2>2. /\ j.pipe.at = "queued" /\ j.serving = i.serving /\ j.draining = i.draining
        /\ j.lastGreen = i.lastGreen
    BY <1>1 DEF Instance, Queued
  <2> HIDE DEF j
  <2>3. Heeds(i, j, ev)
    BY <1>2, <2>2 DEF Heeds, Promotes
  <2>4. Mid(s, u, n, ev)
    BY <1>6, <2>2, <2>3, MidPut DEF Busy
  <2> QED  BY <1>3, <2>1, <2>4, MidEffect
<1>7. CASE i.pipe.at \in {"building", "probing"}
  <2>1. CASE i.pipe.sha = sha
    <3>1. t = s
      BY <1>7, <2>1 DEF OnHead
    <3> QED  BY <1>4, <3>1
  <2>2. CASE i.pipe.sha # sha
    <3> DEFINE j == [i EXCEPT !.pending = sha]
               u == Put(s, n, j)
    <3>1. t = u
      BY <1>7, <2>2 DEF OnHead, Put
    <3>2. /\ j.pipe = i.pipe /\ j.serving = i.serving /\ j.draining = i.draining
          /\ j.lastGreen = i.lastGreen
      BY <1>1 DEF Instance
    <3> HIDE DEF j
    <3>3. Heeds(i, j, ev)
      BY <1>2, <3>2 DEF Heeds, Promotes
    <3>4. Mid(s, u, n, ev)
      BY <1>2, <3>2, <3>3, MidPut
    <3> QED  BY <1>3, <3>1, <3>4, MidEffect
  <2> QED  BY <2>1, <2>2
<1> QED  BY <1>1, <1>5, <1>6, <1>7

-----------------------------------------------------------------------------
(* The end of a build.                                                     *)

\* The state s of a build of n that ended with ev, its slot given back.
Ended(s, w, n, ev) ==
  /\ n \in DOMAIN s.inst /\ s.inst[n].pipe.at = "building" /\ s.gen \in Nat
  /\ ev.type = "BuildFinished" /\ ev.gen = s.inst[n].pipe.gen
  /\ w.inst = s.inst /\ w.gen = s.gen /\ Orders(w) = {} /\ n \notin w.building

LEMMA EndedFacts ==
  ASSUME NEW s, NEW w, NEW A, NEW G, Sound(w, A, G), NEW n, NEW ev, Ended(s, w, n, ev)
  PROVE  /\ n \in DOMAIN w.inst /\ w.inst[n] \in Instance /\ w.inst[n].pipe.sha \in Sha
         /\ w.inst[n].pipe.gen \in Nat /\ w.inst[n].enospc \in 0..EnospcCap
         /\ w.inst[n].indeterminate \in 0..IndeterminateCap
         /\ w.inst[n].pipe = s.inst[n].pipe /\ Answers(s.inst[n].pipe, ev)
         /\ \A u : Announced(s, u, n, ev)
<1>1. n \in DOMAIN w.inst /\ w.inst[n] = s.inst[n] /\ w.inst[n].pipe.at = "building"
  BY DEF Ended
<1>2. w.inst[n] \in Instance /\ w.inst[n].pipe \in Pipeline
  BY <1>1, InstanceFacts
<1>3. /\ w.inst[n].enospc \in 0..EnospcCap /\ w.inst[n].indeterminate \in 0..IndeterminateCap
  BY <1>2 DEF Instance
<1>4. Answers(s.inst[n].pipe, ev)
  BY DEF Ended, Answers
<1>5. \A u : Announced(s, u, n, ev)
  BY DEF Ended, Announced, Promotes, Fails
<1> QED  BY <1>1, <1>2, <1>3, <1>4, <1>5, PipeFacts

\* The records the outcomes leave.
LEMMA EndedChildren ==
  ASSUME NEW i \in Instance, NEW x \in 0..IndeterminateCap, NEW e \in 0..EnospcCap
  PROVE  /\ LET j == [i EXCEPT !.indeterminate = x, !.enospc = e, !.pipe = Idle]
            IN j \in Instance /\ j.pipe = Idle /\ SameChildren(i, j)
         /\ LET j == [i EXCEPT !.indeterminate = x, !.pipe = Idle, !.enospc = e]
            IN j \in Instance /\ j.pipe = Idle /\ SameChildren(i, j)
         /\ LET j == [i EXCEPT !.pipe = Idle, !.indeterminate = x]
            IN j \in Instance /\ j.pipe = Idle /\ SameChildren(i, j)
<1>1. Idle \in Pipeline
  BY DEF Pipeline, Idle
<1>2. /\ [i EXCEPT !.indeterminate = x, !.enospc = e, !.pipe = Idle] \in Instance
      /\ [i EXCEPT !.indeterminate = x, !.pipe = Idle, !.enospc = e] \in Instance
      /\ [i EXCEPT !.pipe = Idle, !.indeterminate = x] \in Instance
  BY <1>1, RestRecord DEF Rests
<1> QED  BY <1>2 DEF Instance, SameChildren

LEMMA EndedPut ==
  ASSUME NEW s, NEW w, NEW A, NEW G, Sound(w, A, G), NEW n, NEW ev, Ended(s, w, n, ev),
         NEW j \in Instance, j.pipe = Idle, SameChildren(w.inst[n], j)
  PROVE  LET u == Put(w, n, j)
         IN Sound(u, A, G) /\ Mid(s, u, n, ev) /\ u.inst[n].pipe = Idle
<1>1. Answers(s.inst[n].pipe, ev) /\ n \in DOMAIN w.inst
  BY EndedFacts
<1>2. Sound(Put(w, n, j), A, G)
  BY <1>1, RestSound DEF Ended, SameChildren
<1>3. Heeds(s.inst[n], j, ev)
  BY DEF Heeds, Promotes, Ended, SameChildren
<1>4. j.pipe.at = "idle"
  BY DEF Idle
<1>5. Mid(s, Put(w, n, j), n, ev) /\ Put(w, n, j).inst[n] = j
  BY <1>1, <1>3, <1>4, MidPut DEF Ended
<1> QED  BY <1>2, <1>5

\* It is recorded red, or made again.
LEMMA EndedMid ==
  ASSUME NEW s, NEW w, NEW A, NEW G, Sound(w, A, G), NEW n, NEW ev, Ended(s, w, n, ev),
         NEW j \in Instance, j.pipe = Idle, SameChildren(w.inst[n], j)
  PROVE  LET u == Put(w, n, j)
             sha == w.inst[n].pipe.sha
         IN /\ Sound(SettleIdle(RecordRed(u, n, sha), n), A, G)
            /\ Mid(s, SettleIdle(RecordRed(u, n, sha), n), n, ev)
            /\ Sound(Requeue(u, n, sha), A, G)
            /\ Mid(s, Requeue(u, n, sha), n, ev)
<1> DEFINE u == Put(w, n, j)
           sha == w.inst[n].pipe.sha
           v == RecordRed(u, n, sha)
<1>1. Sound(u, A, G) /\ Mid(s, u, n, ev) /\ u.inst[n].pipe = Idle
  BY EndedPut
<1>2. sha \in Sha /\ n \in DOMAIN s.inst /\ s.gen \in Nat
  BY EndedFacts DEF Ended
<1> HIDE DEF u, sha
<1>3. Sound(v, A, G) /\ Mid(s, v, n, ev)
  BY <1>1, <1>2, MidRed
<1> HIDE DEF v
<1>4. Sound(SettleIdle(v, n), A, G) /\ Mid(s, SettleIdle(v, n), n, ev)
  BY <1>2, <1>3, MidSettle
<1>5. Sound(Requeue(u, n, sha), A, G) /\ Mid(s, Requeue(u, n, sha), n, ev)
  BY <1>1, <1>2, MidRequeue
<1> QED  BY <1>4, <1>5 DEF u, sha, v

LEMMA OnRedMid ==
  ASSUME NEW s, NEW w, NEW A, NEW G, Sound(w, A, G), NEW n, NEW ev, Ended(s, w, n, ev)
  PROVE  LET t == OnRed(w, n, w.inst[n].pipe.sha)
         IN Sound(t, A, G) /\ Mid(s, t, n, ev)
<1> DEFINE i == w.inst[n]
           j == [i EXCEPT !.indeterminate = 0, !.enospc = 0, !.pipe = Idle]
           t == SettleIdle(RecordRed(Put(w, n, j), n, i.pipe.sha), n)
<1>1. OnRed(w, n, i.pipe.sha) = t
  BY DEF OnRed, Put
<1>2. j \in Instance /\ j.pipe = Idle /\ SameChildren(i, j)
  <2>1. i \in Instance /\ 0 \in 0..IndeterminateCap /\ 0 \in 0..EnospcCap
    BY EndedFacts, StreakTypes
  <2> QED  BY <2>1, EndedChildren
<1> HIDE DEF j
<1>3. Sound(t, A, G) /\ Mid(s, t, n, ev)
  BY <1>2, EndedMid
<1> QED  BY <1>1, <1>3

LEMMA OnEnospcMid ==
  ASSUME NEW s, NEW w, NEW A, NEW G, Sound(w, A, G), NEW n, NEW ev, Ended(s, w, n, ev)
  PROVE  LET t == OnEnospc(w, n, w.inst[n].pipe.sha)
         IN Sound(t, A, G) /\ Mid(s, t, n, ev)
<1> DEFINE i == w.inst[n]
           sha == i.pipe.sha
           t == OnEnospc(w, n, sha)
<1>1. n \in DOMAIN w.inst /\ i \in Instance /\ i.enospc \in 0..EnospcCap
  BY EndedFacts
<1>2. CASE i.enospc >= EnospcCap
  <2> DEFINE j == [i EXCEPT !.indeterminate = 0, !.pipe = Idle, !.enospc = 0]
             v == SettleIdle(RecordRed(Put(w, n, j), n, sha), n)
  <2>1. t = v
    <3>1. [[w EXCEPT !.inst[n].indeterminate = 0, !.inst[n].pipe = Idle]
             EXCEPT !.inst[n].enospc = 0] = Put(w, n, j)
      BY DEF Put
    <3> QED  BY <1>2, <3>1 DEF OnEnospc
  <2>2. j \in Instance /\ j.pipe = Idle /\ SameChildren(i, j)
    BY <1>1, EndedChildren, StreakTypes
  <2> HIDE DEF j
  <2>3. Sound(v, A, G) /\ Mid(s, v, n, ev)
    BY <2>2, EndedMid
  <2> QED  BY <2>1, <2>3
<1>3. CASE ~(i.enospc >= EnospcCap)
  <2> DEFINE j == [i EXCEPT !.indeterminate = 0, !.pipe = Idle, !.enospc = i.enospc + 1]
             v == Requeue(Put(w, n, j), n, sha)
  <2>1. t = v
    <3>1. n \in DOMAIN w.inst /\ w = [inst |-> w.inst, queue |-> w.queue,
              building |-> w.building, gen |-> w.gen, out |-> w.out]
      BY <1>1, SoundFields
    <3>2. [[w EXCEPT !.inst[n].indeterminate = 0, !.inst[n].pipe = Idle]
             EXCEPT !.inst[n].enospc = @ + 1] = Put(w, n, j)
      BY <1>1, <3>1, ZenonT(60) DEF Put, Instance
    <3> QED  BY <1>3, <3>2 DEF OnEnospc
  <2>2. j \in Instance /\ j.pipe = Idle /\ SameChildren(i, j)
    <3>1. i.enospc + 1 \in 0..EnospcCap
      BY <1>1, <1>3, StreakTypes
    <3> QED  BY <1>1, <3>1, EndedChildren, StreakTypes
  <2> HIDE DEF j
  <2>3. Sound(v, A, G) /\ Mid(s, v, n, ev)
    BY <2>2, EndedMid
  <2> QED  BY <2>1, <2>3
<1> QED  BY <1>2, <1>3

LEMMA OnIndeterminateMid ==
  ASSUME NEW s, NEW w, NEW A, NEW G, Sound(w, A, G), NEW n, NEW ev, Ended(s, w, n, ev)
  PROVE  LET t == OnIndeterminate(w, n, w.inst[n].pipe.sha)
         IN Sound(t, A, G) /\ Mid(s, t, n, ev)
<1> DEFINE i == w.inst[n]
           sha == i.pipe.sha
           t == OnIndeterminate(w, n, sha)
<1>1. n \in DOMAIN w.inst /\ i \in Instance /\ i.indeterminate \in 0..IndeterminateCap
  BY EndedFacts
<1>2. CASE i.indeterminate >= IndeterminateCap
  <2> DEFINE j == [i EXCEPT !.pipe = Idle, !.indeterminate = 0]
             v == SettleIdle(RecordRed(Put(w, n, j), n, sha), n)
  <2>1. t = v
    <3>1. [SetPipe(w, n, Idle) EXCEPT !.inst[n].indeterminate = 0] = Put(w, n, j)
      BY DEF Put, SetPipe
    <3> QED  BY <1>2, <3>1 DEF OnIndeterminate
  <2>2. j \in Instance /\ j.pipe = Idle /\ SameChildren(i, j)
    BY <1>1, EndedChildren, StreakTypes
  <2> HIDE DEF j
  <2>3. Sound(v, A, G) /\ Mid(s, v, n, ev)
    BY <2>2, EndedMid
  <2> QED  BY <2>1, <2>3
<1>3. CASE ~(i.indeterminate >= IndeterminateCap)
  <2> DEFINE j == [i EXCEPT !.pipe = Idle, !.indeterminate = i.indeterminate + 1]
             v == Requeue(Put(w, n, j), n, sha)
  <2>1. t = v
    <3>1. n \in DOMAIN w.inst /\ w = [inst |-> w.inst, queue |-> w.queue,
              building |-> w.building, gen |-> w.gen, out |-> w.out]
      BY <1>1, SoundFields
    <3>2. [SetPipe(w, n, Idle) EXCEPT !.inst[n].indeterminate = @ + 1] = Put(w, n, j)
      BY <1>1, <3>1 DEF Put, SetPipe, Instance
    <3> QED  BY <1>3, <3>2 DEF OnIndeterminate
  <2>2. j \in Instance /\ j.pipe = Idle /\ SameChildren(i, j)
    <3>1. i.indeterminate + 1 \in 0..IndeterminateCap
      BY <1>1, <1>3, StreakTypes
    <3> QED  BY <1>1, <3>1, EndedChildren, StreakTypes
  <2> HIDE DEF j
  <2>3. Sound(v, A, G) /\ Mid(s, v, n, ev)
    BY <2>2, EndedMid
  <2> QED  BY <2>1, <2>3
<1> QED  BY <1>2, <1>3

LEMMA OnGreenMid ==
  ASSUME NEW s, NEW w, NEW A, NEW G, Sound(w, A, G), NEW n, NEW ev, Ended(s, w, n, ev),
         ev.outcome = "green", w.inst[n].pipe.sha \in G[n]
  PROVE  LET t == OnGreen(w, n, w.inst[n].pipe.sha, w.inst[n].pipe.gen)
         IN Sound(t, A, G) /\ Mid(s, t, n, ev)
<1> DEFINE i == w.inst[n]
           sha == i.pipe.sha
           g == i.pipe.gen
           p == Probing(sha, g, FALSE)
           j == [i EXCEPT !.indeterminate = 0, !.enospc = 0, !.pipe = p]
           u == Put(w, n, j)
           o == [act |-> "SpawnAndProbe", name |-> n, sha |-> sha, gen |-> g]
           t == OnGreen(w, n, sha, g)
<1>1. t = Emit(u, o)
  BY DEF OnGreen, Put
<1>2. /\ n \in DOMAIN w.inst /\ i \in Instance /\ i.pipe.at = "building" /\ i = s.inst[n]
      /\ n \in Name /\ n \notin w.building /\ w.inst = s.inst /\ Orders(w) = {}
      /\ sha \in Sha /\ g \in Nat /\ w.gen \in Nat /\ w.gen = s.gen
      /\ Answers(s.inst[n].pipe, ev) /\ ev.type = "BuildFinished"
  BY EndedFacts, InstanceFacts, SoundFields DEF Ended
<1>3. g < w.gen
  BY <1>2, InstanceFacts DEF Fits
<1>4. Sound(t, A, G)
  BY <1>2, OnGreenJudges
<1>5. p.at = "probing" /\ p.sha = sha /\ p.gen = g
  BY DEF Probing
<1> HIDE DEF p
<1>6. j.pipe = p /\ SameChildren(i, j)
  BY <1>2 DEF Instance, SameChildren
<1>7. o \in Order /\ o.act = "SpawnAndProbe" /\ o.name = n /\ o.sha = sha /\ o.gen = g
  BY <1>2 DEF Order
<1>8. [act |-> "SpawnAndProbe", name |-> n, sha |-> p.sha, gen |-> p.gen] = o
  BY <1>5
<1> HIDE DEF j, o, t
<1>9. IsPut(u, w, n, j)
  BY <1>2, PutFields
<1> HIDE DEF u
<1>10. /\ u.inst[n] = j /\ Only(s, u, n) /\ u.gen = w.gen /\ Orders(u) = {}
       /\ u.out = w.out /\ w.out \in Seq(Order)
       /\ u = [inst |-> u.inst, queue |-> u.queue, building |-> u.building, gen |-> u.gen,
               out |-> u.out]
  BY <1>2, <1>9, SoundFields DEF IsPut, Only
<1>11. t.inst = u.inst /\ t.gen = w.gen /\ t.out = Append(w.out, o)
  <2>1. t = [u EXCEPT !.out = Append(u.out, o)]
    BY <1>1 DEF Emit
  <2> QED  BY <1>10, <2>1
<1>12. Orders(t) = {o}
  <2>1. Orders(t) = Orders(w) \cup {o}
    BY <1>10, <1>11 DEF Orders
  <2> QED  BY <1>2, <2>1
<1>13. OneSpawn(t.out)
  <2>1. NoSpawn(w.out)
    BY <1>2, OrdersSilent
  <2> QED  BY <1>7, <1>10, <1>11, <2>1, AppendOne DEF Spawns
<1>14. Apt(t, n, o) /\ Timely(s, ev, o) /\ o.act # "StartBuild"
  BY <1>2, <1>3, <1>5, <1>6, <1>7, <1>10, <1>11 DEF Apt, Timely, Spawns, Only
<1>15. Moves(s, t, n, n, ev)
  BY <1>2, <1>5, <1>6, <1>8, <1>10, <1>11, <1>12 DEF Moves
<1>16. Heeds(s.inst[n], t.inst[n], ev)
  BY <1>2, <1>6, <1>10, <1>11 DEF Heeds, Promotes, SameChildren
<1>17. Mid(s, t, n, ev)
  BY <1>2, <1>7, <1>10, <1>11, <1>12, <1>13, <1>14, <1>15, <1>16 DEF Mid, Only
<1> QED  BY <1>4, <1>17 DEF t

LEMMA OnBuildFinishedEffect ==
  ASSUME NEW s, NEW A, NEW G, Sound(s, A, G), Orders(s) = {}, NEW n \in DOMAIN s.inst, NEW ev,
         ev.type = "BuildFinished", ev.outcome \in BuildOutcome,
         ev.outcome = "green" /\ Awaits(s, n, "building", ev.gen) => s.inst[n].pipe.sha \in G[n]
  PROVE  LET t == OnBuildFinished(s, n, ev.gen, ev.outcome)
         IN Sound(t, A, G) /\ Effect(s, t, n, ev)
<1> DEFINE sha == s.inst[n].pipe.sha
           g == ev.gen
           w == Slotless(s, n)
           v == CASE ev.outcome = "green" -> OnGreen(w, n, sha, g)
                  [] ev.outcome = "red" -> OnRed(w, n, sha)
                  [] ev.outcome = "enospc" -> OnEnospc(w, n, sha)
                  [] ev.outcome = "indeterminate" -> OnIndeterminate(w, n, sha)
           t == OnBuildFinished(s, n, g, ev.outcome)
<1>1. s.gen \in Nat
  BY SoundFields
<1>2. CASE ~Awaits(s, n, "building", g)
  <2>1. t = s
    BY <1>2 DEF OnBuildFinished
  <2>2. ~Answers(s.inst[n].pipe, ev) /\ ev.type # "DrainComplete"
    BY <1>2 DEF Awaits, Answers
  <2> QED  BY <1>1, <2>1, <2>2, MidSelf
<1>3. CASE Awaits(s, n, "building", g)
  <2>1. t = Dispatch(v)
    BY <1>3 DEF OnBuildFinished, Slotless
  <2>2. /\ Sound(w, A, G) /\ w.inst = s.inst /\ w.gen = s.gen /\ n \notin w.building
        /\ Orders(w) = {}
    BY LeaveSlotKeeps
  <2> HIDE DEF w
  <2>3. Ended(s, w, n, ev) /\ w.inst[n].pipe.sha = sha /\ w.inst[n].pipe.gen = g
    BY <1>1, <1>3, <2>2 DEF Ended, Awaits
  <2>4. Sound(v, A, G) /\ Mid(s, v, n, ev)
    <3>1. CASE ev.outcome = "green"
      <4>1. v = OnGreen(w, n, sha, g)
        BY <3>1
      <4>2. sha \in G[n]
        BY <1>3, <3>1
      <4> HIDE DEF v, sha, g
      <4> QED  BY <2>2, <2>3, <3>1, <4>1, <4>2, OnGreenMid
    <3>2. CASE ev.outcome = "red"
      <4>1. v = OnRed(w, n, sha)
        BY <3>2
      <4> QED  BY <2>2, <2>3, <4>1, OnRedMid
    <3>3. CASE ev.outcome = "enospc"
      <4>1. v = OnEnospc(w, n, sha)
        BY <3>3
      <4> QED  BY <2>2, <2>3, <4>1, OnEnospcMid
    <3>4. CASE ev.outcome = "indeterminate"
      <4>1. v = OnIndeterminate(w, n, sha)
        BY <3>4
      <4> QED  BY <2>2, <2>3, <4>1, OnIndeterminateMid
    <3> QED  BY <3>1, <3>2, <3>3, <3>4 DEF BuildOutcome
  <2> HIDE DEF v
  <2>5. Announced(s, v, n, ev)
    BY <2>2, <2>3, EndedFacts
  <2>6. Effect(s, Dispatch(v), n, ev) /\ Sound(Dispatch(v), A, G)
    BY <1>1, <2>4, <2>5, DispatchEffect, DispatchKeeps
  <2> QED  BY <2>1, <2>6
<1> QED  BY <1>2, <1>3

-----------------------------------------------------------------------------
(* The end of a probe.                                                     *)

\* The generations of an instance are past, and its attempt is of none that
\* serves or drains.
Apart(i, g) == /\ \A x \in HeldGens(i) : x < g
               /\ BusyGen(i) \cap HeldGens(i) = {}

LEMMA OnProbeSucceededEffect ==
  ASSUME NEW s, NEW A, NEW G, Sound(s, A, G), Orders(s) = {}, NEW n \in DOMAIN s.inst, NEW ev,
         ev.type = "ProbeSucceeded", Apart(s.inst[n], s.gen)
  PROVE  LET t == OnProbeSucceeded(s, n, ev.gen)
         IN Sound(t, A, G) /\ Effect(s, t, n, ev)
<1> DEFINE i == s.inst[n]
           g == ev.gen
           c == [sha |-> i.pipe.sha, gen |-> i.pipe.gen]
           d == i.draining \cup IF i.serving = None THEN {} ELSE {i.serving.gen}
           j == [i EXCEPT !.serving = c, !.lastGreen = c.sha, !.pipe = Idle,
                          !.needsRespawn = FALSE, !.respawns = 0, !.draining = d]
           u == Put(s, n, j)
           o == [act |-> "Promote", name |-> n, sha |-> c.sha, gen |-> c.gen]
           v == Emit(u, o)
           e == [act |-> "StartDrain", name |-> n, gen |-> i.serving.gen]
           w == IF i.serving = None THEN v ELSE Emit(v, e)
           x == SettleIdle(w, n)
           t == OnProbeSucceeded(s, n, g)
<1>1. s.gen \in Nat
  BY SoundFields
<1>2. CASE ~Awaits(s, n, "probing", g)
  <2>1. t = s
    BY <1>2 DEF OnProbeSucceeded
  <2>2. ~Answers(i.pipe, ev) /\ ev.type # "DrainComplete"
    BY <1>2 DEF Awaits, Answers
  <2> QED  BY <1>1, <2>1, <2>2, MidSelf
<1>3. CASE Awaits(s, n, "probing", g)
  <2>1. t = Dispatch(x)
    <3>1. Promoted(s, n) = w
      BY DEF Promoted, Put
    <3> HIDE DEF w
    <3> QED  BY <1>3, <3>1 DEF OnProbeSucceeded
  <2>2. /\ n \in Name /\ i \in Instance /\ i.pipe \in Pipeline
        /\ i.draining \in SUBSET Nat /\ i.serving \in Child \cup {None}
        /\ Fits(i, n, Work(s, A), s.gen, G[n])
    BY InstanceFacts DEF Instance
  <2>3. /\ i.pipe.at = "probing" /\ i.pipe.gen = g
        /\ i.pipe.sha \in Sha /\ i.pipe.gen \in Nat
        /\ i.pipe.sha \in G[n] /\ i.pipe.gen < s.gen
    BY <1>3, <2>2, PipeFacts DEF Awaits, Fits
  <2>4. Answers(i.pipe, ev) /\ Promotes(i.pipe, ev)
    BY <2>3 DEF Answers, Promotes
  <2>5. c \in Child /\ c.sha = i.pipe.sha /\ c.gen = i.pipe.gen
    BY <2>3 DEF Child
  <2>6. i.serving # None => i.serving.gen \in Nat
    BY <2>2 DEF Child
  <2>7. d \in SUBSET Nat /\ d = i.draining \cup ServingGen(i)
    BY <2>2, <2>6 DEF ServingGen
  <2>8. /\ o \in Order /\ o.act = "Promote" /\ o.name = n /\ o.gen = i.pipe.gen
        /\ i.serving # None => /\ e \in Order /\ e.act = "StartDrain" /\ e.name = n
                               /\ e.gen = i.serving.gen
    BY <2>2, <2>3, <2>5, <2>6 DEF Order
  <2>9. [act |-> "Promote", name |-> n, sha |-> i.pipe.sha, gen |-> i.pipe.gen] = o
    OBVIOUS
  <2> HIDE DEF d, o, e
  <2>10. Serving(j, i, c, d)
    <3> HIDE DEF c
    <3> QED  BY <2>2, <2>5, <2>7, ServingRecord
  <2> HIDE DEF j, t
  <2>11. /\ j \in Instance /\ j.pipe.at = "idle" /\ j.serving = c /\ j.lastGreen = c.sha
         /\ j.draining = d
    BY <2>10 DEF Serving, Idle
  <2>12. Fits(j, n, Work(s, A), s.gen, G[n]) /\ n \notin s.building
    BY <2>3, <2>5, <2>11, OutOfSlot DEF Fits, Matches
  <2>13. Sound(u, A, G)
    BY <2>3, <2>11, <2>12, PutSound
  <2>14. Heeds(i, j, ev)
    BY <2>4, <2>7, <2>11 DEF Heeds
  <2>15. Mid(s, u, n, ev) /\ n \in DOMAIN u.inst /\ u.inst[n] = j /\ u.gen = s.gen
    <3>1. /\ Mid(s, u, n, ev) /\ IsPut(u, s, n, j) /\ n \in DOMAIN u.inst
          /\ u.inst[n] = j
      BY <2>4, <2>11, <2>14, MidPut
    <3> HIDE DEF u
    <3>2. u.gen = s.gen
      BY <3>1 DEF IsPut
    <3> QED  BY <3>1, <3>2
  <2> HIDE DEF u
  <2>16. c.gen < s.gen /\ c # None /\ InUse(j) = {c.gen}
    <3>1. c # None
      BY <2>5, NoneAssumption
    <3> HIDE DEF c
    <3> QED  BY <2>3, <2>5, <2>11, <3>1 DEF InUse, ServingGen, BusyGen
  <2> HIDE DEF c
  <2>17. Apt(u, n, o) /\ Timely(s, ev, o)
    BY <2>5, <2>8, <2>11, <2>15, <2>16 DEF Apt, Timely, Spawns
  <2>18. Mid(s, v, n, ev) /\ Sound(v, A, G)
    BY <2>8, <2>13, <2>15, <2>17, MidEmit, EmitKept DEF Attempting
  <2>19. v.inst = u.inst /\ v.gen = u.gen /\ Orders(v) = Orders(u) \cup {o}
    BY <2>8, <2>13, EmitFields, EmitOrders
  <2> HIDE DEF v
  <2>20. Mid(s, w, n, ev) /\ Sound(w, A, G) /\ o \in Orders(w)
    <3>1. CASE i.serving = None
      BY <2>18, <2>19, <3>1
    <3>2. CASE i.serving # None
      <4>1. i.serving.gen \in HeldGens(i) /\ i.pipe.gen \in BusyGen(i)
        BY <2>3, <3>2 DEF HeldGens, ServingGen, BusyGen
      <4>2. i.serving.gen < s.gen /\ i.serving.gen # c.gen
        BY <2>5, <4>1 DEF Apart
      <4>3. Apt(v, n, e) /\ Timely(s, ev, e)
        BY <2>8, <2>15, <2>16, <2>19, <3>2, <4>2 DEF Apt, Timely, Spawns
      <4>4. Mid(s, Emit(v, e), n, ev) /\ Sound(Emit(v, e), A, G)
        BY <2>8, <2>18, <3>2, <4>3, MidEmit, EmitKept DEF Attempting
      <4>5. o \in Orders(Emit(v, e))
        BY <2>8, <2>18, <2>19, <3>2, EmitOrders
      <4> QED  BY <3>2, <4>4, <4>5
    <3> QED  BY <3>1, <3>2
  <2> HIDE DEF w
  <2>21. n \in DOMAIN w.inst
    BY <2>20 DEF Mid, Only
  <2>22. Mid(s, x, n, ev) /\ Sound(x, A, G) /\ Kept(w, x)
    BY <1>1, <2>20, <2>21, MidSettle, SettleIdleKeeps
  <2> HIDE DEF x
  <2>23. Announced(s, x, n, ev)
    BY <2>9, <2>20, <2>22 DEF Announced, Kept, Fails
  <2>24. Effect(s, Dispatch(x), n, ev) /\ Sound(Dispatch(x), A, G)
    BY <1>1, <2>22, <2>23, DispatchEffect, DispatchKeeps
  <2> QED  BY <2>1, <2>24 DEF t
<1> QED  BY <1>2, <1>3

LEMMA MidProbeRed ==
  ASSUME NEW s, NEW n \in DOMAIN s.inst, NEW u, NEW A, NEW G, Sound(u, A, G), NEW ev,
         Mid(s, u, n, ev), NEW sha \in Sha, NEW respawn
  PROVE  LET t == ProbeRed(u, n, sha, respawn)
         IN Sound(t, A, G) /\ Kept(u, t) /\ Mid(s, t, n, ev)
<1> DEFINE i == u.inst[n]
           t == ProbeRed(u, n, sha, respawn)
<1>1. n \in DOMAIN u.inst
  BY DEF Mid, Only
<1>2. i \in Instance /\ i.respawns \in 0..RespawnCap /\ Fits(i, n, Work(u, A), u.gen, G[n])
  BY <1>1, InstanceFacts DEF Instance
<1>3. Sound(t, A, G) /\ Kept(u, t)
  BY <1>1, ProbeRedKeeps
<1>4. CASE respawn /\ i.respawns < RespawnCap
  <2> DEFINE r == i.respawns + 1
             j == [i EXCEPT !.respawns = r, !.needsRespawn = TRUE]
             v == Put(u, n, j)
  <2>1. t = v
    BY <1>4 DEF ProbeRed, Put
  <2> HIDE DEF r, t
  <2>2. j.pipe = i.pipe /\ SameChildren(i, j)
    BY <1>2 DEF Instance, SameChildren
  <2> HIDE DEF j
  <2>3. Quiet(u, v, n)
    BY <1>1, <2>2, PutQuiet
  <2> HIDE DEF v
  <2>4. Mid(s, v, n, ev)
    BY <2>3, MidQuiet
  <2> QED  BY <1>3, <2>1, <2>4 DEF t
<1>5. CASE ~(respawn /\ i.respawns < RespawnCap)
  <2> DEFINE r == IF respawn THEN 0 ELSE i.respawns
             j == [i EXCEPT !.respawns = r]
             v == Put(u, n, j)
  <2>1. t = RecordRed(v, n, sha)
    BY <1>5 DEF ProbeRed, Put
  <2>2. r \in 0..RespawnCap
    BY <1>2 DEF RespawnCap
  <2> HIDE DEF r, t
  <2>3. j \in Instance /\ j.pipe = i.pipe /\ j.lastGreen = i.lastGreen /\ SameChildren(i, j)
    BY <1>2, <2>2 DEF Instance, SameChildren
  <2> HIDE DEF j
  <2>4. n \in u.building => i.pipe.at = "building"
    BY DEF Sound, SlotsOK
  <2>5. Fits(j, n, Work(u, A), u.gen, G[n])
    BY <1>2, <2>3, CalmFits
  <2>6. Sound(v, A, G) /\ Quiet(u, v, n)
    BY <1>1, <2>3, <2>4, <2>5, PutSound, PutQuiet
  <2> HIDE DEF v
  <2>7. Mid(s, v, n, ev)
    BY <2>6, MidQuiet
  <2>8. Mid(s, RecordRed(v, n, sha), n, ev)
    BY <2>6, <2>7, MidRed
  <2> QED  BY <1>3, <2>1, <2>8 DEF t
<1> QED  BY <1>4, <1>5

LEMMA OnProbeFailedEffect ==
  ASSUME NEW s, NEW A, NEW G, Sound(s, A, G), Orders(s) = {}, NEW n \in DOMAIN s.inst, NEW ev,
         ev.type = "ProbeFailed", Apart(s.inst[n], s.gen)
  PROVE  LET t == OnProbeFailed(s, n, ev.gen)
         IN Sound(t, A, G) /\ Effect(s, t, n, ev)
<1> DEFINE i == s.inst[n]
           p == i.pipe
           g == ev.gen
           j == [i EXCEPT !.pipe = Idle]
           u == Put(s, n, j)
           o == [act |-> "KillStandby", name |-> n, gen |-> g]
           v == Emit(u, o)
           w == ProbeRed(v, n, p.sha, p.respawn)
           x == SettleIdle(w, n)
           t == OnProbeFailed(s, n, g)
<1>1. s.gen \in Nat
  BY SoundFields
<1>2. CASE ~Awaits(s, n, "probing", g)
  <2>1. t = s
    BY <1>2 DEF OnProbeFailed
  <2>2. ~Answers(p, ev) /\ ev.type # "DrainComplete"
    BY <1>2 DEF Awaits, Answers
  <2> QED  BY <1>1, <2>1, <2>2, MidSelf
<1>3. CASE Awaits(s, n, "probing", g)
  <2>1. t = Dispatch(x)
    BY <1>3 DEF OnProbeFailed, SetPipe, Put
  <2>2. n \in Name /\ i \in Instance /\ p \in Pipeline /\ Fits(i, n, Work(s, A), s.gen, G[n])
    BY InstanceFacts
  <2>3. /\ p.at = "probing" /\ p.gen = g /\ p.sha \in Sha /\ g \in Nat /\ g < s.gen
        /\ n \notin s.building
    BY <1>3, <2>2, PipeFacts, OutOfSlot DEF Awaits, Fits
  <2>4. Answers(p, ev) /\ ~Promotes(p, ev)
    BY <2>3 DEF Answers, Promotes
  <2>5. Idle \in Pipeline /\ Idle.at = "idle"
    BY DEF Pipeline, Idle
  <2>6. j \in Instance /\ j.pipe = Idle /\ SameChildren(i, j)
    BY <2>2, <2>5 DEF Instance, SameChildren
  <2>7. /\ o \in Order /\ o.act = "KillStandby" /\ o.name = n /\ o.gen = g
    BY <2>2, <2>3 DEF Order
  <2>8. [act |-> "KillStandby", name |-> n, gen |-> p.gen] = o
    BY <2>3
  <2> HIDE DEF j, o, t
  <2>9. Sound(u, A, G)
    BY <2>3, <2>6, RestSound DEF SameChildren
  <2>10. Heeds(i, j, ev)
    BY <2>4, <2>6 DEF Heeds, SameChildren
  <2>11. Mid(s, u, n, ev) /\ n \in DOMAIN u.inst /\ u.inst[n] = j /\ u.gen = s.gen
    <3>1. /\ Mid(s, u, n, ev) /\ IsPut(u, s, n, j) /\ n \in DOMAIN u.inst
          /\ u.inst[n] = j
      BY <2>4, <2>5, <2>6, <2>10, MidPut
    <3> HIDE DEF u
    <3>2. u.gen = s.gen
      BY <3>1 DEF IsPut
    <3> QED  BY <3>1, <3>2
  <2> HIDE DEF u
  <2>12. g \notin InUse(j) /\ g \notin j.draining
    <3>1. g \in BusyGen(i)
      BY <2>3 DEF BusyGen
    <3>2. g \notin HeldGens(i)
      BY <3>1 DEF Apart
    <3>3. HeldGens(j) = HeldGens(i) /\ BusyGen(j) = {}
      BY <2>5, <2>6 DEF HeldGens, ServingGen, SameChildren, BusyGen
    <3> QED  BY <3>2, <3>3 DEF InUse, HeldGens
  <2>13. Apt(u, n, o) /\ Timely(s, ev, o)
    BY <2>3, <2>7, <2>11, <2>12 DEF Apt, Timely, Spawns
  <2>14. Mid(s, v, n, ev) /\ Sound(v, A, G)
    BY <2>7, <2>9, <2>11, <2>13, MidEmit, EmitKept DEF Attempting
  <2>15. o \in Orders(v)
    BY <2>7, <2>9, EmitOrders
  <2> HIDE DEF v
  <2>16. Mid(s, w, n, ev) /\ Sound(w, A, G) /\ Kept(v, w)
    BY <2>3, <2>14, MidProbeRed
  <2> HIDE DEF w
  <2>17. n \in DOMAIN w.inst
    BY <2>16 DEF Mid, Only
  <2>18. Mid(s, x, n, ev) /\ Sound(x, A, G) /\ Kept(w, x)
    BY <1>1, <2>16, <2>17, MidSettle, SettleIdleKeeps
  <2> HIDE DEF x
  <2>19. Announced(s, x, n, ev)
    BY <2>4, <2>8, <2>15, <2>16, <2>18 DEF Announced, Kept
  <2>20. Effect(s, Dispatch(x), n, ev) /\ Sound(Dispatch(x), A, G)
    BY <1>1, <2>18, <2>19, DispatchEffect, DispatchKeeps
  <2> QED  BY <2>1, <2>20 DEF t
<1> QED  BY <1>2, <1>3

-----------------------------------------------------------------------------
(* The other events.                                                       *)

LEMMA OnDrainCompleteEffect ==
  ASSUME NEW s, NEW A, NEW G, Sound(s, A, G), Orders(s) = {}, NEW n \in DOMAIN s.inst, NEW ev,
         ev.type = "DrainComplete"
  PROVE  Effect(s, OnDrainComplete(s, n, ev.gen), n, ev)
<1> DEFINE i == s.inst[n]
           d == i.draining \ {ev.gen}
           j == [i EXCEPT !.draining = d]
           t == Put(s, n, j)
<1>1. OnDrainComplete(s, n, ev.gen) = t
  BY DEF OnDrainComplete, Put
<1>2. i \in Instance
  BY InstanceFacts
<1> HIDE DEF d
<1>3. j.pipe = i.pipe /\ j.lastGreen = i.lastGreen /\ j.serving = i.serving /\ j.draining = d
  BY <1>2 DEF Instance
<1> HIDE DEF j
<1>4. ~Answers(i.pipe, ev)
  BY DEF Answers
<1>5. Heeds(i, j, ev)
  BY <1>3, <1>4 DEF Heeds, Promotes, d
<1>6. Mid(s, t, n, ev)
  BY <1>3, <1>4, <1>5, MidPut
<1> HIDE DEF t
<1>7. Announced(s, t, n, ev)
  BY DEF Announced, Promotes, Fails
<1> QED  BY <1>1, <1>6, <1>7, MidEffect

LEMMA OnRecoverEffect ==
  ASSUME NEW s, NEW A, NEW G, Sound(s, A, G), Orders(s) = {}, NEW n \in DOMAIN s.inst, NEW ev,
         ev.type = "RecoverFromPointer", ev.sha \in Sha, ev.sha \in G[n]
  PROVE  Effect(s, OnRecover(s, n, ev.sha), n, ev)
<1> DEFINE i == s.inst[n]
           sha == ev.sha
           j == [i EXCEPT !.lastGreen = sha, !.needsRespawn = TRUE]
           u == Put(s, n, j)
           t == TryRespawn(u, n)
<1>1. s.gen \in Nat
  BY SoundFields
<1>2. ~Answers(i.pipe, ev) /\ ev.type # "DrainComplete"
  BY DEF Answers
<1>3. CASE i.pipe # Idle \/ i.serving # None
  <2>1. OnRecover(s, n, sha) = s
    BY <1>3 DEF OnRecover
  <2> QED  BY <1>1, <1>2, <2>1, MidSelf
<1>4. CASE ~(i.pipe # Idle \/ i.serving # None)
  <2>1. OnRecover(s, n, sha) = t
    BY <1>4 DEF OnRecover, Put
  <2>2. i \in Instance /\ Fits(i, n, Work(s, A), s.gen, G[n])
    BY InstanceFacts
  <2>3. i.pipe.at = "idle" /\ n \notin s.building
    BY <1>4, OutOfSlot DEF Idle
  <2> HIDE DEF sha
  <2>4. /\ j \in Instance /\ j.pipe = i.pipe /\ j.lastGreen = sha
        /\ j.serving = i.serving /\ j.draining = i.draining
    BY <2>2 DEF Instance, sha
  <2> HIDE DEF j
  <2>5. Fits(j, n, Work(s, A), s.gen, G[n])
    BY <2>2, <2>4 DEF Fits, sha
  <2>6. Sound(u, A, G)
    BY <2>3, <2>4, <2>5, PutSound
  <2>7. Heeds(i, j, ev)
    BY <1>2, <2>4 DEF Heeds, Promotes, sha
  <2>8. Mid(s, u, n, ev)
    BY <1>2, <2>4, <2>7, MidPut
  <2> HIDE DEF u
  <2>9. Mid(s, t, n, ev)
    BY <1>1, <2>6, <2>8, MidRespawn
  <2> HIDE DEF t
  <2>10. Announced(s, t, n, ev)
    BY DEF Announced, Promotes, Fails
  <2> QED  BY <2>1, <2>9, <2>10, MidEffect DEF sha
<1> QED  BY <1>3, <1>4

\* The messages the daemon's threads post, and what boot has left to do.
Posted == [type : {"HeadAdvanced"}, sha : Sha]
          \cup [type : {"BuildFinished"}, gen : Nat, outcome : BuildOutcome]
          \cup [type : {"ProbeSucceeded", "ProbeFailed", "DrainComplete"}, gen : Nat]
Recovery == [type : {"RecoverFromPointer"}, sha : Sha]

LEMMA StepAppOf ==
  ASSUME NEW s, NEW n, NEW ev
  PROVE  /\ n \notin DOMAIN Reset(s).inst => StepApp(s, n, ev) = Reset(s)
         /\ n \in DOMAIN Reset(s).inst =>
              /\ ev.type = "HeadAdvanced" => StepApp(s, n, ev) = OnHead(Reset(s), n, ev.sha)
              /\ ev.type = "ProbeSucceeded" =>
                   StepApp(s, n, ev) = OnProbeSucceeded(Reset(s), n, ev.gen)
              /\ ev.type = "ProbeFailed" => StepApp(s, n, ev) = OnProbeFailed(Reset(s), n, ev.gen)
              /\ ev.type = "DrainComplete" =>
                   StepApp(s, n, ev) = OnDrainComplete(Reset(s), n, ev.gen)
              /\ ev.type = "RecoverFromPointer" =>
                   StepApp(s, n, ev) = OnRecover(Reset(s), n, ev.sha)
BY DEF StepApp, Reset

\* Any commit may be green.
LEMMA StepEffect ==
  ASSUME NEW s, Sound(s, {}, AnySha), NEW n, NEW ev \in Posted \cup Recovery,
         n \in DOMAIN s.inst => Apart(s.inst[n], s.gen)
  PROVE  LET t == StepApp(s, n, ev)
         IN /\ Sound(t, {}, AnySha)
            /\ n \in DOMAIN s.inst => Effect(Reset(s), t, n, ev)
            /\ n \notin DOMAIN s.inst => t = Reset(s)
<1> DEFINE r == Reset(s)
           t == StepApp(s, n, ev)
<1>1. /\ Sound(r, {}, AnySha) /\ r.inst = s.inst /\ r.gen = s.gen /\ Orders(r) = {}
  BY ResetFacts
<1> HIDE DEF r
<1>2. CASE n \notin DOMAIN s.inst
  <2>1. t = r
    BY <1>1, <1>2, StepAppOf DEF r
  <2> QED  BY <1>1, <1>2, <2>1 DEF r
<1>3. CASE n \in DOMAIN s.inst
  <2>1. n \in DOMAIN r.inst /\ Apart(r.inst[n], r.gen) /\ n \in Name
    BY <1>1, <1>3, InstanceFacts
  <2>2. \A sha \in Sha : sha \in AnySha[n]
    BY <2>1 DEF AnySha
  <2>3. Sound(t, {}, AnySha) /\ Effect(r, t, n, ev)
    <3>1. CASE ev \in [type : {"HeadAdvanced"}, sha : Sha]
      <4>1. ev = [type |-> "HeadAdvanced", sha |-> ev.sha] /\ ev.sha \in Sha
            /\ ev.type = "HeadAdvanced"
        BY <3>1
      <4>2. t = OnHead(r, n, ev.sha)
        BY <2>1, <4>1, StepAppOf DEF r
      <4> HIDE DEF t
      <4> QED  BY <1>1, <2>1, <4>1, <4>2, OnHeadSteady, OnHeadEffect
    <3>2. CASE ev \in [type : {"BuildFinished"}, gen : Nat, outcome : BuildOutcome]
      <4>1. /\ ev = [type |-> "BuildFinished", gen |-> ev.gen, outcome |-> ev.outcome]
            /\ ev.type = "BuildFinished" /\ ev.outcome \in BuildOutcome /\ ev.gen \in Nat
        BY <3>2
      <4>2. t = OnBuildFinished(r, n, ev.gen, ev.outcome)
        BY <2>1, <4>1, StepAppBuild DEF r
      <4>3. Awaits(r, n, "building", ev.gen) => r.inst[n].pipe.sha \in AnySha[n]
        <5>1. r.inst[n].pipe \in Pipeline
          BY <1>1, <2>1, InstanceFacts
        <5> QED  BY <2>2, <5>1, PipeFacts DEF Awaits
      <4> HIDE DEF t
      <4> QED  BY <1>1, <2>1, <4>1, <4>2, <4>3, OnBuildFinishedEffect
    <3>3. CASE ev \in [type : {"ProbeSucceeded", "ProbeFailed", "DrainComplete"}, gen : Nat]
      <4>1. ev = [type |-> ev.type, gen |-> ev.gen]
            /\ ev.type \in {"ProbeSucceeded", "ProbeFailed", "DrainComplete"}
        BY <3>3
      <4>2. CASE ev.type = "ProbeSucceeded"
        <5>1. t = OnProbeSucceeded(r, n, ev.gen)
          BY <2>1, <4>1, <4>2, StepAppOf DEF r
        <5> HIDE DEF t
        <5> QED  BY <1>1, <2>1, <4>2, <5>1, OnProbeSucceededEffect
      <4>3. CASE ev.type = "ProbeFailed"
        <5>1. t = OnProbeFailed(r, n, ev.gen)
          BY <2>1, <4>1, <4>3, StepAppOf DEF r
        <5> HIDE DEF t
        <5> QED  BY <1>1, <2>1, <4>3, <5>1, OnProbeFailedEffect
      <4>4. CASE ev.type = "DrainComplete"
        <5>1. t = OnDrainComplete(r, n, ev.gen)
          BY <2>1, <4>1, <4>4, StepAppOf DEF r
        <5> HIDE DEF t
        <5> QED  BY <1>1, <2>1, <4>4, <5>1, OnDrainCompleteSteady, OnDrainCompleteEffect
      <4> QED  BY <4>1, <4>2, <4>3, <4>4
    <3>4. CASE ev \in Recovery
      <4>1. ev = [type |-> "RecoverFromPointer", sha |-> ev.sha] /\ ev.sha \in Sha
            /\ ev.type = "RecoverFromPointer"
        BY <3>4 DEF Recovery
      <4>2. t = OnRecover(r, n, ev.sha)
        BY <2>1, <4>1, StepAppOf DEF r
      <4> HIDE DEF t
      <4> QED  BY <1>1, <2>1, <2>2, <4>1, <4>2, OnRecoverSteady, OnRecoverEffect
    <3> QED  BY <3>1, <3>2, <3>3, <3>4 DEF Posted
  <2> QED  BY <1>3, <2>3 DEF r
<1> QED  BY <1>2, <1>3

-----------------------------------------------------------------------------
(* Sequences and the sets of their elements.                               *)

LEMMA ElemsOf ==
  ASSUME NEW S, NEW q \in Seq(S)
  PROVE  Elems(q) \subseteq S /\ Elems(q) = {q[k] : k \in 1..Len(q)} /\ Len(q) \in Nat
BY DEF Elems

LEMMA ElemsEmpty == Elems(<<>>) = {}
BY DEF Elems

LEMMA ElemsAppend ==
  ASSUME NEW S, NEW q \in Seq(S), NEW x \in S
  PROVE  Append(q, x) \in Seq(S) /\ Elems(Append(q, x)) = Elems(q) \cup {x}
<1> DEFINE r == Append(q, x)
<1>1. /\ r \in Seq(S) /\ Len(q) \in Nat /\ DOMAIN q = 1..Len(q) /\ DOMAIN r = 1..(Len(q) + 1)
      /\ \A k \in 1..(Len(q) + 1) : r[k] = IF k = Len(q) + 1 THEN x ELSE q[k]
  OBVIOUS
<1> HIDE DEF r
<1>2. /\ \A k \in DOMAIN q : k \in DOMAIN r /\ r[k] = q[k]
      /\ Len(q) + 1 \in DOMAIN r /\ r[Len(q) + 1] = x
      /\ \A k \in DOMAIN r : k \in DOMAIN q \/ k = Len(q) + 1
  BY <1>1
<1>3. Elems(r) = Elems(q) \cup {x}
  BY <1>2 DEF Elems
<1> QED  BY <1>1, <1>3 DEF r

LEMMA ElemsTail ==
  ASSUME NEW S, NEW q \in Seq(S), q # <<>>
  PROVE  /\ Tail(q) \in Seq(S) /\ Head(q) \in S
         /\ Elems(q) = {Head(q)} \cup Elems(Tail(q))
         /\ DOMAIN Tail(q) = 1..(Len(q) - 1) /\ DOMAIN q = 1..Len(q) /\ Len(q) \in Nat \ {0}
         /\ \A k \in DOMAIN Tail(q) : k + 1 \in DOMAIN q /\ Tail(q)[k] = q[k + 1]
         /\ 1 \in DOMAIN q /\ Head(q) = q[1]
<1> DEFINE r == Tail(q)
           n == Len(q)
<1>1. /\ r \in Seq(S) /\ n \in Nat \ {0} /\ DOMAIN q = 1..n /\ DOMAIN r = 1..(n - 1)
      /\ \A k \in 1..(n - 1) : r[k] = q[k + 1]
      /\ Head(q) = q[1] /\ Head(q) \in S
  OBVIOUS
<1> HIDE DEF r, n
<1>2. /\ \A k \in DOMAIN r : k + 1 \in DOMAIN q /\ r[k] = q[k + 1]
      /\ 1 \in DOMAIN q
  BY <1>1
<1>3. ASSUME NEW k \in DOMAIN q, k # 1 PROVE k - 1 \in DOMAIN r /\ r[k - 1] = q[k]
  <2>1. k - 1 \in 1..(n - 1) /\ (k - 1) + 1 = k
    BY <1>1, <1>3
  <2> QED  BY <1>1, <2>1
<1>4. Elems(q) = {Head(q)} \cup Elems(r)
  BY <1>1, <1>2, <1>3 DEF Elems
<1> QED  BY <1>1, <1>2, <1>4 DEF r, n

LEMMA ElemsConcat ==
  ASSUME NEW S, NEW q \in Seq(S), NEW r \in Seq(S)
  PROVE  q \o r \in Seq(S) /\ Elems(q \o r) = Elems(q) \cup Elems(r)
<1> DEFINE w == q \o r
<1>1. /\ w \in Seq(S) /\ Len(q) \in Nat /\ Len(r) \in Nat /\ DOMAIN q = 1..Len(q)
      /\ DOMAIN r = 1..Len(r) /\ DOMAIN w = 1..(Len(q) + Len(r))
      /\ \A k \in 1..(Len(q) + Len(r)) : w[k] = IF k <= Len(q) THEN q[k] ELSE r[k - Len(q)]
  OBVIOUS
<1> HIDE DEF w
<1>2. \A k \in DOMAIN q : k \in DOMAIN w /\ w[k] = q[k]
  BY <1>1
<1>3. ASSUME NEW k \in DOMAIN r PROVE Len(q) + k \in DOMAIN w /\ w[Len(q) + k] = r[k]
  <2>1. /\ Len(q) + k \in 1..(Len(q) + Len(r)) /\ ~(Len(q) + k <= Len(q))
        /\ (Len(q) + k) - Len(q) = k
    BY <1>1
  <2> QED  BY <1>1, <2>1
<1>4. ASSUME NEW k \in DOMAIN w
      PROVE  (k \in DOMAIN q /\ w[k] = q[k]) \/ (k - Len(q) \in DOMAIN r /\ w[k] = r[k - Len(q)])
  BY <1>1
<1>5. Elems(w) = Elems(q) \cup Elems(r)
  BY <1>2, <1>3, <1>4 DEF Elems
<1> QED  BY <1>1, <1>5 DEF w

-----------------------------------------------------------------------------
(* Nth: the ranks of a finite set of numbers are 1..Cardinality.           *)

Rank(I, i) == Cardinality({j \in I : j <= i})

LEMMA RankType ==
  ASSUME NEW I \in SUBSET Nat, IsFiniteSet(I), NEW i \in I
  PROVE  Rank(I, i) \in 1..Cardinality(I)
<1> DEFINE J == {j \in I : j <= i}
<1>1. IsFiniteSet(J) /\ Cardinality(J) <= Cardinality(I) /\ J # {}
  BY FS_Subset
<1>2. Cardinality(J) \in Nat /\ Cardinality(I) \in Nat /\ Cardinality(J) # 0
  BY <1>1, FS_CardinalityType, FS_EmptySet
<1> QED  BY <1>1, <1>2 DEF Rank

LEMMA RankIncreases ==
  ASSUME NEW I \in SUBSET Nat, IsFiniteSet(I), NEW i \in I, NEW k \in I, i < k
  PROVE  Rank(I, i) < Rank(I, k)
<1> DEFINE J == {j \in I : j <= i}
           K == {j \in I : j <= k}
<1>1. IsFiniteSet(K) /\ IsFiniteSet(J)
  BY FS_Subset
<1>2. J \in SUBSET K /\ J # K
  <2>1. \A j \in I : j \in Int
    OBVIOUS
  <2>2. (\A j \in J : j \in K) /\ k \in K /\ k \notin J
    BY <2>1
  <2> QED  BY <2>2
<1>3. Cardinality(J) <= Cardinality(K) /\ Cardinality(J) # Cardinality(K)
  BY <1>1, <1>2, FS_Subset
<1>4. Cardinality(J) \in Nat /\ Cardinality(K) \in Nat
  BY <1>1, FS_CardinalityType
<1> QED  BY <1>3, <1>4 DEF Rank

LEMMA NthFacts ==
  ASSUME NEW I \in SUBSET Nat, IsFiniteSet(I)
  PROVE  /\ Cardinality(I) \in Nat
         /\ \A k \in 1..Cardinality(I) : Nth(I, k) \in I
         /\ \A j, k \in 1..Cardinality(I) : Nth(I, j) = Nth(I, k) => j = k
         /\ \A i \in I : \E k \in 1..Cardinality(I) : Nth(I, k) = i
<1> DEFINE n == Cardinality(I)
           r == [i \in I |-> Rank(I, i)]
<1>1. n \in Nat
  BY FS_CardinalityType
<1>2. r \in [I -> 1..n]
  BY RankType
<1>3. ASSUME NEW i \in I, NEW j \in I, i # j PROVE Rank(I, i) # Rank(I, j)
  <2>1. i < j \/ j < i
    BY <1>3
  <2>2. Rank(I, i) \in Nat /\ Rank(I, j) \in Nat
    BY RankType
  <2> QED  BY <2>1, <2>2, RankIncreases
<1>4. r \in Injection(I, 1..n)
  BY <1>2, <1>3 DEF Injection, IsInjective
<1>5. IsFiniteSet(1..n) /\ Cardinality(1..n) = n
  BY <1>1, FS_Interval
<1>6. r \in Surjection(I, 1..n)
  BY <1>4, <1>5, FS_Injection
<1>7. ASSUME NEW k \in 1..n PROVE Nth(I, k) \in I /\ Rank(I, Nth(I, k)) = k
  <2>1. PICK i \in I : Rank(I, i) = k
    BY <1>6 DEF Surjection
  <2> QED  BY <2>1 DEF Nth, Rank
<1>8. ASSUME NEW i \in I PROVE \E k \in 1..n : Nth(I, k) = i
  BY <1>3, <1>7, RankType
<1> QED  BY <1>1, <1>7, <1>8

-----------------------------------------------------------------------------
(* Ports.                                                                  *)

NoRepeat(q) == \A j, k \in DOMAIN q : q[j] = q[k] => j = k

\* The allocator p accounts for the ports of the children S.
Accounts(p, S) ==
  /\ p \in [free : Seq(Nat), next : Nat \ {0}] /\ p.next <= PortEnd + 1
  /\ NoRepeat(p.free)
  /\ \A x, y \in S : x.port = y.port => x = y
  /\ \A k \in S : k.port \notin Elems(p.free)
  /\ Elems(p.free) \cup {k.port : k \in S} = 1..p.next - 1

LEMMA AllocAccounts ==
  ASSUME NEW p, NEW S, Accounts(p, S), HasPort(p), NEW k, k.port = NextPort(p)
  PROVE  Accounts(Alloc(p), S \cup {k}) /\ NextPort(p) \in Nat
         /\ \A x \in S : x.port # k.port
<1> DEFINE q == p.free
           t == Alloc(p)
<1>1. /\ p = [free |-> q, next |-> p.next] /\ q \in Seq(Nat) /\ p.next \in Nat \ {0}
      /\ Len(q) \in Nat /\ DOMAIN q = 1..Len(q) /\ PortEnd \in Nat
  BY PortAssumption DEF Accounts
<1>2. CASE q # <<>>
  <2> DEFINE r == SubSeq(q, 1, Len(q) - 1)
  <2>1. t = [free |-> r, next |-> p.next] /\ k.port = q[Len(q)]
    BY <1>1, <1>2 DEF Alloc, NextPort
  <2>2. /\ Len(q) - 1 \in Nat /\ r \in Seq(Nat) /\ DOMAIN r = 1..(Len(q) - 1)
        /\ \A j \in 1..(Len(q) - 1) : r[j] = q[j]
    BY <1>1, <1>2
  <2> HIDE DEF r
  <2>3. t.free = r /\ t.next = p.next
    BY <2>1
  <2>4. Len(q) \in DOMAIN q /\ \A j \in DOMAIN q : j \in DOMAIN r \/ j = Len(q)
    BY <1>1, <2>2
  <2>5. \A j \in DOMAIN r : j \in DOMAIN q /\ j # Len(q) /\ r[j] = q[j]
    BY <1>1, <2>2
  <2>6. NoRepeat(r) /\ Elems(q) = Elems(r) \cup {k.port} /\ k.port \notin Elems(r)
    BY <2>1, <2>4, <2>5 DEF Accounts, NoRepeat, Elems
  <2>7. k.port \in Nat /\ \A x \in S : x.port # k.port
    BY <1>1, <2>1, <2>4, <2>6 DEF Accounts
  <2>8. \A x \in S : x.port \notin Elems(r)
    BY <2>6 DEF Accounts
  <2>9. \A x, y \in S \cup {k} : x.port = y.port => x = y
    BY <2>7 DEF Accounts
  <2>10. Elems(r) \cup {x.port : x \in S \cup {k}} = 1..p.next - 1
    BY <2>6 DEF Accounts
  <2>11. t \in [free : Seq(Nat), next : Nat \ {0}]
    BY <1>1, <2>1, <2>2
  <2> HIDE DEF t
  <2> QED  BY <2>3, <2>6, <2>7, <2>8, <2>9, <2>10, <2>11 DEF Accounts, t
<1>3. CASE q = <<>>
  <2>1. t = [free |-> q, next |-> p.next + 1] /\ k.port = p.next /\ p.next <= PortEnd
    BY <1>1, <1>3 DEF Alloc, NextPort, HasPort
  <2>2. t.free = q /\ t.next = p.next + 1 /\ t \in [free : Seq(Nat), next : Nat \ {0}]
    BY <1>1, <2>1
  <2>3. Elems(q) = {}
    BY <1>3, ElemsEmpty
  <2>4. \A x \in S : x.port \in 1..p.next - 1
    BY DEF Accounts
  <2>5. \A x \in S : x.port # k.port
    BY <1>1, <2>1, <2>4
  <2>6. \A x, y \in S \cup {k} : x.port = y.port => x = y
    BY <2>5 DEF Accounts
  <2>7. 1..t.next - 1 = (1..p.next - 1) \cup {p.next}
    BY <1>1, <2>2
  <2>8. Elems(q) \cup {x.port : x \in S \cup {k}} = 1..t.next - 1
    BY <2>1, <2>7 DEF Accounts
  <2>9. t.next <= PortEnd + 1
    BY <1>1, <2>1, <2>2
  <2> HIDE DEF t
  <2> QED  BY <1>1, <2>1, <2>2, <2>3, <2>5, <2>6, <2>8, <2>9 DEF Accounts, t
<1> QED  BY <1>2, <1>3

\* One port is given back.
LEMMA ReleaseAccounts ==
  ASSUME NEW p, NEW S, NEW k, Accounts(p, S \cup {k}), k.port \in Nat, \A x \in S : x.port # k.port
  PROVE  Accounts(Release(p, k.port), S)
<1> DEFINE q == p.free
           r == Append(q, k.port)
           t == Release(p, k.port)
<1>1. /\ p = [free |-> q, next |-> p.next] /\ q \in Seq(Nat) /\ p.next \in Nat \ {0}
      /\ Len(q) \in Nat /\ DOMAIN q = 1..Len(q) /\ k.port \notin Elems(q)
  BY DEF Accounts
<1>2. t = [free |-> r, next |-> p.next]
  BY <1>1 DEF Release
<1>3. r \in Seq(Nat) /\ Elems(r) = Elems(q) \cup {k.port}
  BY <1>1, ElemsAppend
<1>4. DOMAIN r = 1..(Len(q) + 1)
      /\ \A j \in 1..(Len(q) + 1) : r[j] = IF j = Len(q) + 1 THEN k.port ELSE q[j]
  BY <1>1
<1> HIDE DEF r
<1>5. ASSUME NEW j \in DOMAIN r
      PROVE  (j = Len(q) + 1 /\ r[j] = k.port) \/ (j \in DOMAIN q /\ r[j] = q[j])
  <2>1. j = Len(q) + 1 \/ j \in 1..Len(q)
    BY <1>1, <1>4
  <2>2. j = Len(q) + 1 => r[j] = k.port
    BY <1>1, <1>4
  <2>3. j \in 1..Len(q) => r[j] = q[j]
    BY <1>1, <1>4
  <2> QED  BY <1>1, <2>1, <2>2, <2>3
<1>6. NoRepeat(r)
  <2>1. \A j \in DOMAIN q : q[j] # k.port
    BY <1>1 DEF Elems
  <2>2. NoRepeat(q)
    BY DEF Accounts
  <2> QED  BY <1>5, <2>1, <2>2 DEF NoRepeat
<1>7. t.free = r /\ t.next = p.next /\ t \in [free : Seq(Nat), next : Nat \ {0}]
  BY <1>1, <1>2, <1>3
<1>8. Elems(r) \cup {x.port : x \in S} = 1..p.next - 1
  BY <1>3 DEF Accounts
<1>9. \A x \in S : x.port \notin Elems(r)
  BY <1>3 DEF Accounts
<1> HIDE DEF t
<1> QED  BY <1>6, <1>7, <1>8, <1>9 DEF Accounts, t

\* A port is taken and given back.
LEMMA FailedAccounts ==
  ASSUME NEW p, NEW S, Accounts(p, S), HasPort(p)
  PROVE  Accounts(Release(Alloc(p), NextPort(p)), S)
<1> DEFINE k == [port |-> NextPort(p)]
<1>1. k.port = NextPort(p)
  OBVIOUS
<1> HIDE DEF k
<1>2. Accounts(Alloc(p), S \cup {k}) /\ k.port \in Nat /\ \A x \in S : x.port # k.port
  BY <1>1, AllocAccounts
<1>3. Accounts(Release(Alloc(p), k.port), S)
  BY <1>2, ReleaseAccounts
<1> QED  BY <1>1, <1>3

LEMMA ConcatFacts ==
  ASSUME NEW S, NEW q \in Seq(S), NEW r \in Seq(S)
  PROVE  /\ DOMAIN (q \o r) = 1..(Len(q) + Len(r))
         /\ \A k \in 1..(Len(q) + Len(r)) :
              (q \o r)[k] = IF k <= Len(q) THEN q[k] ELSE r[k - Len(q)]
OBVIOUS

\* The ports of some children are given back.
LEMMA ReleaseAllAccounts ==
  ASSUME NEW p, NEW S, Accounts(p, S), IsFiniteSet(S), NEW T \in SUBSET S,
         \A k \in T : k.gen \in Nat /\ k.port \in Nat,
         \A x, y \in T : x.gen = y.gen => x = y
  PROVE  Accounts(ReleaseAll(p, T), S \ T)
<1> DEFINE q == p.free
           I == Gens(T)
           n == Cardinality(T)
           Of(g) == (CHOOSE k \in T : k.gen = g).port
           r == [k \in 1..n |-> Of(Nth(I, k))]
           new == {k \in T : /\ k.port \notin Elems(q)
                             /\ \A j \in T : j.port = k.port => k.gen <= j.gen}
           OfNew(g) == (CHOOSE k \in new : k.gen = g).port
           rnew == [k \in 1..Cardinality(new) |-> OfNew(Nth(Gens(new), k))]
           t == ReleaseAll(p, T)
<1>1. /\ p = [free |-> q, next |-> p.next] /\ q \in Seq(Nat) /\ p.next \in Nat \ {0}
      /\ Len(q) \in Nat /\ DOMAIN q = 1..Len(q) /\ p.free = q
  BY DEF Accounts
<1>2. new = T
  <2>1. ASSUME NEW k \in T, NEW j \in T, j.port = k.port PROVE k.gen <= j.gen
    BY <2>1 DEF Accounts
  <2> QED  BY <2>1 DEF Accounts
<1>3. t = [free |-> q \o r, next |-> p.next]
  <2>1. t = [p EXCEPT !.free = @ \o rnew]
    BY DEF ReleaseAll
  <2> HIDE DEF new
  <2>2. rnew = r
    BY <1>2
  <2> HIDE DEF rnew, r, q
  <2>3. t = [p EXCEPT !.free = @ \o r]
    BY <2>1, <2>2
  <2> HIDE DEF t
  <2> QED  BY <1>1, <2>3
<1>4. /\ I \in SUBSET Nat /\ IsFiniteSet(I) /\ IsFiniteSet(T) /\ Cardinality(I) = n /\ n \in Nat
  <2> DEFINE f == [k \in T |-> k.gen]
  <2>1. f \in Bijection(T, I)
    BY DEF Gens, Bijection, Injection, Surjection, IsInjective
  <2>2. IsFiniteSet(T) /\ n \in Nat
    BY FS_Subset, FS_CardinalityType
  <2>3. ExistsBijection(T, I)
    BY <2>1 DEF ExistsBijection
  <2>4. IsFiniteSet(I) /\ Cardinality(I) = n
    BY <2>2, <2>3, FS_Bijection
  <2>5. I \in SUBSET Nat
    BY DEF Gens
  <2> QED  BY <2>2, <2>4, <2>5
<1>5. \A k \in T : Of(k.gen) = k.port
  OBVIOUS
<1>6. \A g \in I : \E k \in T : k.gen = g
  BY DEF Gens
<1> HIDE DEF Of, I
<1>7. /\ \A j \in 1..n : Nth(I, j) \in I
      /\ \A j, k \in 1..n : Nth(I, j) = Nth(I, k) => j = k
      /\ \A k \in T : \E j \in 1..n : Nth(I, j) = k.gen
  <2>1. \A k \in T : k.gen \in I
    BY DEF I, Gens
  <2> QED  BY <1>4, <2>1, NthFacts
<1>8. \A j \in 1..n : \E k \in T : k.gen = Nth(I, j) /\ r[j] = k.port
  BY <1>5, <1>6, <1>7
<1>9. DOMAIN r = 1..n /\ r = [j \in 1..n |-> r[j]] /\ \A j \in 1..n : r[j] = Of(Nth(I, j))
  OBVIOUS
<1> HIDE DEF r, n
<1>10. r \in Seq(Nat) /\ Len(r) = n
  BY <1>4, <1>8, <1>9
<1>11. Elems(r) = {k.port : k \in T}
  BY <1>5, <1>7, <1>8, <1>9 DEF Elems
<1>12. ASSUME NEW j \in 1..n, NEW k \in 1..n, r[j] = r[k] PROVE j = k
  BY <1>7, <1>8, <1>12 DEF Accounts
<1>13. q \o r \in Seq(Nat) /\ Elems(q \o r) = Elems(q) \cup Elems(r)
  BY <1>1, <1>10, ElemsConcat
<1>14. NoRepeat(q \o r)
  <2> DEFINE w == q \o r
  <2>1. /\ DOMAIN w = 1..(Len(q) + n)
        /\ \A k \in 1..(Len(q) + n) : w[k] = IF k <= Len(q) THEN q[k] ELSE r[k - Len(q)]
    <3> HIDE DEF q
    <3>0. q \in Seq(Nat) /\ r \in Seq(Nat)
      BY <1>1, <1>10
    <3>1. /\ DOMAIN w = 1..(Len(q) + Len(r))
          /\ \A k \in 1..(Len(q) + Len(r)) : w[k] = IF k <= Len(q) THEN q[k] ELSE r[k - Len(q)]
      BY <3>0, ConcatFacts
    <3> QED  BY <1>10, <3>1
  <2> HIDE DEF w
  <2>2. ASSUME NEW k \in DOMAIN w
        PROVE  \/ k \in DOMAIN q /\ k <= Len(q) /\ w[k] = q[k]
               \/ k - Len(q) \in 1..n /\ k \in Nat /\ w[k] = r[k - Len(q)]
    BY <1>1, <1>4, <2>1
  <2>3. \A j \in DOMAIN q, k \in 1..n : q[j] # r[k]
    BY <1>8 DEF Accounts, Elems
  <2>4. ASSUME NEW j \in DOMAIN w, NEW k \in DOMAIN w, w[j] = w[k] PROVE j = k
    <3>1. CASE j \in DOMAIN q /\ w[j] = q[j] /\ k \in DOMAIN q /\ w[k] = q[k]
      BY <2>4, <3>1 DEF Accounts, NoRepeat
    <3>2. CASE /\ j - Len(q) \in 1..n /\ j \in Nat /\ w[j] = r[j - Len(q)]
               /\ k - Len(q) \in 1..n /\ k \in Nat /\ w[k] = r[k - Len(q)]
      <4>1. j - Len(q) = k - Len(q)
        BY <1>12, <2>4, <3>2
      <4> QED  BY <1>1, <3>2, <4>1
    <3> QED  BY <2>2, <2>3, <2>4, <3>1, <3>2
  <2> QED  BY <2>4 DEF NoRepeat, w
<1>15. t.free = q \o r /\ t.next = p.next /\ t \in [free : Seq(Nat), next : Nat \ {0}]
  BY <1>1, <1>3, <1>13
<1>16. Elems(q \o r) \cup {k.port : k \in S \ T} = 1..p.next - 1
  BY <1>11, <1>13 DEF Accounts
<1>17. \A k \in S \ T : k.port \notin Elems(q \o r)
  BY <1>11, <1>13 DEF Accounts
<1> HIDE DEF t
<1> QED  BY <1>14, <1>15, <1>16, <1>17 DEF Accounts, t

\* A port is on the free list or held by one child: counting them.
LEMMA AccountsCount ==
  ASSUME NEW p, NEW S, Accounts(p, S), IsFiniteSet(S)
  PROVE  Len(p.free) + Cardinality(S) = p.next - 1
<1> DEFINE q == p.free
           n == Len(q)
           P == {k.port : k \in S}
           f == [k \in S |-> k.port]
           g == [j \in 1..n |-> q[j]]
<1>1. q \in Seq(Nat) /\ n \in Nat /\ DOMAIN q = 1..n /\ p.next \in Nat \ {0}
  BY DEF Accounts
<1>2. IsFiniteSet(P) /\ Cardinality(P) = Cardinality(S)
  <2>1. f \in Bijection(S, P)
    BY DEF Accounts, Bijection, Injection, Surjection, IsInjective
  <2> QED  BY <2>1, FS_Bijection DEF ExistsBijection
<1>3. IsFiniteSet(Elems(q)) /\ Cardinality(Elems(q)) = n
  <2>1. g \in Bijection(1..n, Elems(q))
    BY <1>1 DEF Accounts, NoRepeat, Elems, Bijection, Injection, Surjection, IsInjective
  <2>2. IsFiniteSet(1..n) /\ Cardinality(1..n) = n
    BY <1>1, FS_Interval
  <2> QED  BY <2>1, <2>2, FS_Bijection DEF ExistsBijection
<1>4. Elems(q) \cap P = {}
  BY DEF Accounts
<1>5. Cardinality(Elems(q) \cup P) = n + Cardinality(S) - 0
  BY <1>2, <1>3, <1>4, FS_Union, FS_EmptySet
<1>6. Cardinality(1..p.next - 1) = p.next - 1
  <2> DEFINE b == p.next - 1
  <2>1. b \in Nat
    BY <1>1
  <2> HIDE DEF b
  <2>2. Cardinality(1..b) = b
    BY <2>1, FS_Interval
  <2> QED  BY <2>2 DEF b
<1>7. Elems(q) \cup P = 1..p.next - 1
  BY DEF Accounts
<1>8. Cardinality(S) \in Nat
  BY FS_CardinalityType
<1>9. p.next - 1 = n + Cardinality(S) - 0
  BY <1>5, <1>6, <1>7
<1> QED  BY <1>1, <1>8, <1>9

-----------------------------------------------------------------------------
(* Bundles.                                                                *)

LEMMA PruneFacts ==
  ASSUME NEW b \in Seq(Sha), NEW P, NEW extra
  PROVE  LET r == Prune(b, P, extra)
         IN /\ r \in Seq(Sha) /\ Elems(r) \subseteq Elems(b)
            /\ \A sha \in Elems(b) : sha \in P => sha \in Elems(r)
<1> DEFINE Newer(j) == {k \in DOMAIN b : k > j /\ b[k] \notin P}
           Stay == {j \in DOMAIN b : b[j] \in P \/ Cardinality(Newer(j)) < extra}
           n == Cardinality(Stay)
           r == [k \in 1..n |-> b[Nth(Stay, k)]]
<1>1. Prune(b, P, extra) = r
  BY DEF Prune
<1>2. DOMAIN b = 1..Len(b) /\ Len(b) \in Nat /\ \A j \in DOMAIN b : b[j] \in Sha
  OBVIOUS
<1>3. Stay \in SUBSET DOMAIN b /\ \A j \in DOMAIN b : b[j] \in P => j \in Stay
  OBVIOUS
<1> HIDE DEF Stay
<1>4. Stay \in SUBSET Nat /\ IsFiniteSet(Stay)
  <2>1. IsFiniteSet(1..Len(b))
    BY <1>2, FS_Interval
  <2> QED  BY <1>2, <1>3, <2>1, FS_Subset
<1>5. /\ n \in Nat
      /\ \A k \in 1..n : Nth(Stay, k) \in Stay
      /\ \A j \in Stay : \E k \in 1..n : Nth(Stay, k) = j
  BY <1>4, NthFacts
<1>6. DOMAIN r = 1..n /\ r = [k \in 1..n |-> r[k]] /\ \A k \in 1..n : r[k] = b[Nth(Stay, k)]
  OBVIOUS
<1> HIDE DEF r, n
<1>7. r \in Seq(Sha)
  BY <1>2, <1>3, <1>5, <1>6
<1>8. Elems(r) \subseteq Elems(b)
  BY <1>3, <1>5, <1>6 DEF Elems
<1>9. ASSUME NEW sha \in Elems(b), sha \in P PROVE sha \in Elems(r)
  <2>1. PICK j \in DOMAIN b : b[j] = sha
    BY DEF Elems
  <2>2. j \in Stay
    BY <1>3, <1>9, <2>1
  <2>3. PICK k \in 1..n : Nth(Stay, k) = j
    BY <1>5, <2>2
  <2> QED  BY <1>6, <2>1, <2>3 DEF Elems
<1> QED  BY <1>1, <1>7, <1>8, <1>9

LEMMA HarvestFacts ==
  ASSUME NEW b \in Seq(Sha), NEW sha \in Sha
  PROVE  /\ Harvest(b, sha) \in Seq(Sha) /\ Elems(b) \subseteq Elems(Harvest(b, sha))
         /\ sha \in Elems(Harvest(b, sha))
BY ElemsAppend DEF Harvest

-----------------------------------------------------------------------------
(* What boot has to do.                                                    *)

LEMMA ListedFacts ==
  ASSUME NEW S, IsFiniteSet(S)
  PROVE  Listed(S) \in Seq(S) /\ Elems(Listed(S)) = S
<1> DEFINE n == Cardinality(S)
           Lists(f) == f \in [1..n -> S] /\ \A x \in S : \E k \in DOMAIN f : f[k] = x
<1>1. n \in Nat /\ ExistsBijection(1..n, S)
  BY FS_CardinalityType
<1>2. PICK f : Lists(f)
  BY <1>1 DEF ExistsBijection, Bijection, Surjection, Injection
<1>3. Listed(S) = CHOOSE g \in [1..n -> S] : \A x \in S : \E k \in DOMAIN g : g[k] = x
  BY DEF Listed
<1>4. Lists(Listed(S))
  BY <1>2, <1>3
<1> HIDE DEF n
<1> DEFINE q == Listed(S)
<1>5. q \in [1..n -> S] /\ \A x \in S : \E k \in DOMAIN q : q[k] = x
  BY <1>4
<1> HIDE DEF q
<1>6. q \in Seq(S)
  BY <1>1, <1>5
<1>7. Elems(q) = S
  BY <1>5 DEF Elems
<1> QED  BY <1>6, <1>7 DEF q

Agendum == {Resolve} \cup Recovery

LEMMA BootFacts ==
  registry \in SUBSET (Name \ Static) /\ file \in [Name -> Sha \cup {None}] =>
    /\ Boot \in Seq([name : Name, ev : Agendum])
    /\ Elems(Boot) = {Message(n, Restored(n)) : n \in {x \in Static : Recoverable(x)} \cup registry}
<1> SUFFICES ASSUME registry \in SUBSET (Name \ Static), file \in [Name -> Sha \cup {None}]
             PROVE  /\ Boot \in Seq([name : Name, ev : Agendum])
                    /\ Elems(Boot) = {Message(n, Restored(n)) :
                                        n \in {x \in Static : Recoverable(x)} \cup registry}
  OBVIOUS
<1> DEFINE S == {n \in Static : Recoverable(n)}
           names == Listed(S) \o Listed(registry)
           b == [k \in DOMAIN names |-> Message(names[k], Restored(names[k]))]
<1>1. S \in SUBSET Name /\ registry \in SUBSET Name /\ IsFiniteSet(S) /\ IsFiniteSet(registry)
  BY StaticAssumption, SlotAssumption, FS_Subset
<1>2. /\ Listed(S) \in Seq(S) /\ Elems(Listed(S)) = S
      /\ Listed(registry) \in Seq(registry) /\ Elems(Listed(registry)) = registry
  BY <1>1, ListedFacts
<1> HIDE DEF S
<1>3. Listed(S) \in Seq(Name) /\ Listed(registry) \in Seq(Name)
  BY <1>1, <1>2
<1>4. names \in Seq(Name) /\ Elems(names) = S \cup registry
  BY <1>2, <1>3, ElemsConcat
<1>5. Boot = b
  BY DEF Boot, S
<1> HIDE DEF names
<1>6. DOMAIN names = 1..Len(names) /\ Len(names) \in Nat /\ \A k \in DOMAIN names : names[k] \in Name
  BY <1>4
<1>7. ASSUME NEW n \in Name PROVE Message(n, Restored(n)) \in [name : Name, ev : Agendum]
  BY DEF Message, Restored, Recoverable, Resolve, Agendum, Recovery
<1>8. b \in Seq([name : Name, ev : Agendum])
  BY <1>6, <1>7
<1>9. Elems(b) = {Message(n, Restored(n)) : n \in S \cup registry}
  BY <1>4 DEF Elems
<1> QED  BY <1>5, <1>8, <1>9 DEF S

-----------------------------------------------------------------------------
(* The inductive invariant.  Ahead are the orders left of the drive under  *)
(* way, Mail the messages in the channel.                                  *)

Todo == IF hand = None THEN <<>> ELSE hand.todo
Ahead == Elems(Todo)
Mail == Elems(chan)
Letter == [name : Name, ev : Posted]
Task == [name : Name, ev : Agendum]
Kid == [name : Name, gen : Nat, sha : Sha, port : Nat]

Types ==
  /\ Sound(app, {}, AnySha) /\ app.out = <<>>
  /\ registry \in SUBSET (Name \ Static) /\ Live = Static \cup registry
  /\ hand = None \/ hand \in [name : Name, todo : Seq(Order)]
  /\ builders \in SUBSET [name : Name, gen : Nat, sha : Sha]
  /\ probes \in SUBSET [name : Name, gen : Nat, port : Nat]
  /\ stoppers \in SUBSET [name : Name, gen : Nat, drain : BOOLEAN]
  /\ chan \in Seq(Letter) /\ agenda \in Seq(Task)
  /\ kids \in SUBSET Kid /\ IsFiniteSet(kids)
  /\ disk \in [Name -> Seq(Sha)] /\ file \in [Name -> Sha \cup {None}]
  /\ head \in [Name -> Sha]

\* Every generation in sight was handed out.
Past(g) == g < app.gen
Handed ==
  /\ \A x \in builders : Past(x.gen)
  /\ \A x \in probes : Past(x.gen)
  /\ \A x \in stoppers : Past(x.gen)
  /\ \A x \in kids : Past(x.gen)
  /\ \A m \in Mail : m.ev.type # "HeadAdvanced" => Past(m.ev.gen)
  /\ \A o \in Ahead : o.act # "RecordRed" => Past(o.gen)

\* An order is about the pipeline as it is.
Fitting(o) ==
  LET i == app.inst[o.name]
      p == i.pipe
  IN /\ o.name \in Live
     /\ o.act = "StartBuild" => p = Building(o.sha, o.gen)
     /\ o.act \in Spawns => /\ p.at = "probing" /\ p.gen = o.gen /\ p.sha = o.sha
                            /\ Tracked(o.name, o.gen) = {}
     /\ o.act = "Promote" => i.serving # None /\ i.serving.gen = o.gen /\ o.name = hand.name
Ordering == OneSpawn(Todo) /\ \A o \in Ahead : Fitting(o)

\* A child that drains, or is killed, is out of use for good.
Retired(n, g) == n \in Live => g \notin InUse(app.inst[n])
Draining ==
  /\ \A t \in stoppers : t.drain => Retired(t.name, t.gen)
  /\ \A m \in Mail : m.ev.type = "DrainComplete" => Retired(m.name, m.ev.gen)
  /\ \A o \in Ahead :
       /\ o.act \in {"StartDrain", "KillStandby"} => Retired(o.name, o.gen)
       /\ o.act = "KillStandby" => o.gen \notin app.inst[o.name].draining

\* The children are those the policy holds, and those about to be killed.
OneChild == \A x, y \in kids : x.name = y.name /\ x.gen = y.gen => x = y
Killed(n, g) == \E o \in Ahead : o.act = "KillStandby" /\ o.name = n /\ o.gen = g
Matched(n) ==
  LET i == app.inst[n]
  IN /\ \A g \in HeldGens(i) : \E k \in kids : k.name = n /\ k.gen = g
     /\ \A k \in kids : k.name = n => k.gen \in HeldGens(i) \cup BootGen(i) \/ Killed(n, k.gen)
     /\ BusyGen(i) \cap HeldGens(i) = {}
     /\ i.serving # None =>
          \E k \in kids : k.name = n /\ k.gen = i.serving.gen /\ k.sha = i.serving.sha
Upstream(n) ==
  LET i == app.inst[n]
  IN IF i.serving = None THEN slot[n] = None
     ELSE \E k \in kids : /\ k.name = n /\ k.gen = i.serving.gen /\ k.sha = i.serving.sha
                          /\ slot[n] = [port |-> k.port, gen |-> k.gen]
Slots ==
  /\ DOMAIN slot = Name
  /\ \A n \in Name \ Live : slot[n] = None
  /\ \A n \in Live : Upstream(n) \/ \E o \in Ahead : o.act = "Promote" /\ o.name = n
Family ==
  /\ OneChild
  /\ \A k \in kids : k.name \in Live
  /\ \A n \in Live : Matched(n)

\* A probe that runs, or has succeeded, is of a child that is there.
Booted(n, g) ==
  n \in Live /\ g \in BusyGen(app.inst[n]) =>
    /\ app.inst[n].pipe.at = "probing"
    /\ \E k \in kids : k.name = n /\ k.gen = g /\ k.sha = app.inst[n].pipe.sha
ProbesOK ==
  /\ \A b \in probes : Booted(b.name, b.gen)
  /\ \A m \in Mail : m.ev.type = "ProbeSucceeded" => Booted(m.name, m.ev.gen)

Pool == Accounts(ports, kids)

\* The bundles in use are there: of a child, of a last green, of a probe, of a
\* build reported green.
OnDisk(n, sha) == sha \in Elems(disk[n])
BuildOf(n, g) == n \in Live /\ app.inst[n].pipe.at = "building" /\ app.inst[n].pipe.gen = g
Bundles ==
  /\ \A k \in kids : OnDisk(k.name, k.sha)
  /\ \A n \in Live : app.inst[n].lastGreen # None => OnDisk(n, app.inst[n].lastGreen)
  /\ \A n \in Live : app.inst[n].pipe.at = "probing" => OnDisk(n, app.inst[n].pipe.sha)
  /\ \A b \in builders : BuildOf(b.name, b.gen) => app.inst[b.name].pipe.sha = b.sha
  /\ \A m \in Mail :
       m.ev.type = "BuildFinished" /\ m.ev.outcome = "green" /\ BuildOf(m.name, m.ev.gen) =>
         OnDisk(m.name, app.inst[m.name].pipe.sha)

\* What boot has left to do.
Booting ==
  /\ \A m \in Elems(agenda) :
       /\ m.name \in Live
       /\ m.ev # Resolve => OnDisk(m.name, m.ev.sha)
  /\ agenda # <<>> => \A o \in Ahead : o.act # "Promote"

\* The state file names the last green, unless its instance is in hand or
\* untouched since the boot.
Untouched(n) == app.inst[n] = NewInstance /\ \A b \in builders : b.name # n
Named(n) ==
  \/ file[n] = app.inst[n].lastGreen
  \/ hand # None /\ hand.name = n
  \/ /\ Untouched(n)
     /\ OnDisk(n, file[n]) =>
          \E m \in Elems(agenda) : m.name = n /\ m.ev = [type |-> "RecoverFromPointer", sha |-> file[n]]
Pointer == \A n \in Static : Named(n)

\* Somebody will answer for the attempt under way.
Builds(n, g) ==
  \/ \E b \in builders : b.name = n /\ b.gen = g
  \/ \E m \in Mail : m.name = n /\ m.ev.type = "BuildFinished" /\ m.ev.gen = g
  \/ \E o \in Ahead : o.act = "StartBuild" /\ o.name = n /\ o.gen = g
Probes(n, g) ==
  \/ \E b \in probes : b.name = n /\ b.gen = g
  \/ \E m \in Mail : m.name = n /\ m.ev.type \in {"ProbeSucceeded", "ProbeFailed"} /\ m.ev.gen = g
  \/ \E o \in Ahead : o.act \in Spawns /\ o.name = n /\ o.gen = g
Answered ==
  \A n \in Live : LET p == app.inst[n].pipe
                  IN (p.at = "building" => Builds(n, p.gen)) /\ (p.at = "probing" => Probes(n, p.gen))

IInv == /\ Types /\ Handed /\ Ordering /\ Draining /\ Family /\ Slots /\ ProbesOK /\ Pool
        /\ Bundles /\ Booting /\ Pointer /\ Answered

-----------------------------------------------------------------------------
(* Typed records.                                                          *)

LEMMA OrderFacts ==
  ASSUME NEW o \in Order
  PROVE  /\ o.name \in Name
         /\ o.act # "RecordRed" => o.gen \in Nat
         /\ o.act \in {"StartBuild", "SpawnAndProbe", "Respawn", "Promote"} => o.sha \in Sha
BY DEF Order

LEMMA LetterFacts ==
  ASSUME NEW m \in Letter
  PROVE  /\ m.name \in Name /\ m.ev \in Posted
         /\ m.ev.type \in {"HeadAdvanced", "BuildFinished", "ProbeSucceeded", "ProbeFailed",
                           "DrainComplete"}
         /\ m.ev.type = "HeadAdvanced" => m.ev.sha \in Sha
         /\ m.ev.type # "HeadAdvanced" => m.ev.gen \in Nat
         /\ m.ev.type = "BuildFinished" => m.ev.outcome \in BuildOutcome
<1>1. m.name \in Name /\ m.ev \in Posted
  BY DEF Letter
<1> DEFINE ev == m.ev
<1>2. ev \in Posted
  BY <1>1
<1> HIDE DEF ev
<1>3. /\ ev.type \in {"HeadAdvanced", "BuildFinished", "ProbeSucceeded", "ProbeFailed",
                      "DrainComplete"}
      /\ ev.type = "HeadAdvanced" => ev.sha \in Sha
      /\ ev.type # "HeadAdvanced" => ev.gen \in Nat
      /\ ev.type = "BuildFinished" => ev.outcome \in BuildOutcome
  BY <1>2 DEF Posted
<1> QED  BY <1>1, <1>3 DEF ev

\* What a live instance of the state has.
LEMMA LiveFacts ==
  ASSUME Types, NEW n \in Live
  PROVE  /\ n \in Name /\ app.inst[n] \in Instance /\ app.inst[n].pipe \in Pipeline
         /\ BusyGen(app.inst[n]) \in SUBSET Nat
         /\ \A g \in BusyGen(app.inst[n]) : Past(g)
         /\ app.inst[n].lastGreen \in Sha \cup {None}
         /\ app.gen \in Nat
<1>1. /\ n \in Name /\ app.inst[n] \in Instance /\ app.inst[n].pipe \in Pipeline
      /\ Fits(app.inst[n], n, Work(app, {}), app.gen, AnySha[n])
      /\ app.inst[n].lastGreen \in Sha \cup {None} /\ app.gen \in Nat
  BY InstanceFacts, SoundFields DEF Types, Live
<1>2. /\ BusyGen(app.inst[n]) \in SUBSET Nat
      /\ \A g \in BusyGen(app.inst[n]) : Past(g)
  BY <1>1, PipeFacts DEF Fits, BusyGen, Past
<1> QED  BY <1>1, <1>2

\* The channel and the orders left, as sets.
LEMMA Sets ==
  Types => /\ Ahead \subseteq Order /\ Mail \subseteq Letter /\ Elems(agenda) \subseteq Task
           /\ Todo \in Seq(Order)
           /\ hand = None => Todo = <<>> /\ Ahead = {}
<1> SUFFICES ASSUME Types
             PROVE  /\ Ahead \subseteq Order /\ Mail \subseteq Letter
                    /\ Elems(agenda) \subseteq Task /\ Todo \in Seq(Order)
                    /\ hand = None => Todo = <<>> /\ Ahead = {}
  OBVIOUS
<1>1. Todo \in Seq(Order)
  BY DEF Types, Todo
<1> QED  BY <1>1, ElemsOf, ElemsEmpty DEF Types, Ahead, Mail, Todo

LEMMA NobodyLost ==
  Answered <=> NothingIsLost
<1>1. \A n, g, act : (hand # None /\ \E o \in Elems(hand.todo) : o.act \in act /\ o.name = n /\ o.gen = g)
                     <=> \E o \in Ahead : o.act \in act /\ o.name = n /\ o.gen = g
  BY ElemsEmpty DEF Ahead, Todo
<1> DEFINE B == {"StartBuild"}
           S == {"SpawnAndProbe", "Respawn"}
           F == {"BuildFinished"}
           P == {"ProbeSucceeded", "ProbeFailed"}
           Expects(n, g, act, W, types) ==
             \/ \E b \in W : b.name = n /\ b.gen = g
             \/ \E m \in Mail : m.name = n /\ m.ev.type \in types /\ m.ev.gen = g
             \/ \E o \in Ahead : o.act \in act /\ o.name = n /\ o.gen = g
<1>2. ASSUME NEW n, NEW g, NEW act, NEW W, NEW types
      PROVE  Awaited(n, g, act, W, types) <=> Expects(n, g, act, W, types)
  <2>1. g \in Gens({b \in W : b.name = n}) <=> \E b \in W : b.name = n /\ b.gen = g
    BY DEF Gens
  <2> QED  BY <1>1, <2>1 DEF Awaited, Mail
<1>3. \A n, g : Expects(n, g, B, builders, F) <=> Builds(n, g)
  BY DEF Builds
<1>4. \A n, g : Expects(n, g, S, probes, P) <=> Probes(n, g)
  BY DEF Probes, Spawns
<1> HIDE DEF Expects, B, S, F, P
<1>5. \A n, g : Awaited(n, g, B, builders, F) <=> Builds(n, g)
  BY <1>2, <1>3
<1>6. \A n, g : Awaited(n, g, S, probes, P) <=> Probes(n, g)
  BY <1>2, <1>4
<1>7. NothingIsLost <=>
        \A n \in Live :
          LET p == app.inst[n].pipe
          IN /\ p.at = "building" => Awaited(n, p.gen, B, builders, F)
             /\ p.at = "probing" => Awaited(n, p.gen, S, probes, P)
  BY DEF NothingIsLost, B, F, S, P
<1> QED  BY <1>5, <1>6, <1>7 DEF Answered

-----------------------------------------------------------------------------
(* The other threads: one of them ends or posts, the control thread rests. *)

\* The message says what is so.
Truthful(m) ==
  /\ m \in Letter
  /\ m.ev.type # "HeadAdvanced" => Past(m.ev.gen)
  /\ m.ev.type = "DrainComplete" => Retired(m.name, m.ev.gen)
  /\ m.ev.type = "ProbeSucceeded" => Booted(m.name, m.ev.gen)
  /\ m.ev.type = "BuildFinished" /\ m.ev.outcome = "green" /\ BuildOf(m.name, m.ev.gen) =>
       app.inst[m.name].pipe.sha \in Elems(disk'[m.name])

\* A thread may go, a bundle may come, and the message m be posted.
Outside(m) ==
  /\ UNCHANGED control /\ UNCHANGED <<file, registry>>
  /\ builders' \subseteq builders /\ probes' \subseteq probes /\ stoppers' \subseteq stoppers
  /\ chan' = chan \/ (chan' = Append(chan, m) /\ Truthful(m))
  /\ disk' \in [Name -> Seq(Sha)] /\ head' \in [Name -> Sha]
  /\ \A n \in Name : Elems(disk[n]) \subseteq Elems(disk'[n])
  /\ \A n \in Name : Elems(disk'[n]) \subseteq Elems(disk[n]) \/ \E b \in builders : b.name = n

\* Whoever went posted its result.
Conveyed(m) ==
  /\ builders' # builders => /\ m \in Mail' /\ m.ev.type = "BuildFinished"
                             /\ \A b \in builders \ builders' : b.name = m.name /\ b.gen = m.ev.gen
  /\ probes' # probes => /\ m \in Mail'
                         /\ m.ev.type \in {"ProbeSucceeded", "ProbeFailed"}
                         /\ \A b \in probes \ probes' : b.name = m.name /\ b.gen = m.ev.gen

LEMMA OutsideKeeps ==
  ASSUME IInv, NEW m, Outside(m), Conveyed(m)
  PROVE  IInv'
<1>1. /\ app' = app /\ hand' = hand /\ agenda' = agenda /\ kids' = kids /\ slot' = slot
      /\ ports' = ports /\ file' = file /\ registry' = registry
  BY DEF Outside, control
<1>2. Live' = Live /\ Todo' = Todo /\ Ahead' = Ahead
  BY <1>1 DEF Live, Todo, Ahead
<1>3. /\ chan' \in Seq(Letter) /\ Mail \subseteq Mail'
      /\ \A x \in Mail' : x \in Mail \/ (x = m /\ Truthful(m))
  <2>1. chan \in Seq(Letter)
    BY DEF IInv, Types
  <2>2. CASE chan' = Append(chan, m) /\ Truthful(m)
    <3>1. m \in Letter
      BY <2>2 DEF Truthful
    <3>2. chan' \in Seq(Letter) /\ Elems(chan') = Elems(chan) \cup {m}
      BY <2>1, <2>2, <3>1, ElemsAppend
    <3> QED  BY <2>2, <3>2 DEF Mail
  <2>3. CASE chan' = chan
    BY <2>1, <2>3 DEF Mail
  <2> QED  BY <2>2, <2>3 DEF Outside
<1>4. /\ builders' \subseteq builders /\ probes' \subseteq probes /\ stoppers' \subseteq stoppers
      /\ \A n \in Name : Elems(disk[n]) \subseteq Elems(disk'[n])
      /\ disk' \in [Name -> Seq(Sha)] /\ head' \in [Name -> Sha]
  BY DEF Outside
<1>5. \A n, g : /\ Retired(n, g)' <=> Retired(n, g)
                /\ Booted(n, g)' <=> Booted(n, g)
                /\ BuildOf(n, g)' <=> BuildOf(n, g)
                /\ n \in Name /\ OnDisk(n, g) => OnDisk(n, g)'
  BY <1>1, <1>2, <1>4 DEF Retired, Booted, BuildOf, OnDisk
<1>6. \A g : Past(g)' <=> Past(g)
  BY <1>1 DEF Past
<1>7. Types'
  BY <1>1, <1>2, <1>3, <1>4 DEF IInv, Types
<1>8. Handed'
  BY <1>2, <1>1, <1>3, <1>4, <1>6 DEF IInv, Handed, Truthful
<1>9. Ordering'
  BY <1>1, <1>2 DEF IInv, Ordering, Fitting, Tracked, KidsOf, ByGen
<1>10. Draining'
  BY <1>1, <1>2, <1>3, <1>4, <1>5 DEF IInv, Draining, Truthful
<1>11. Family'
  BY <1>1, <1>2 DEF IInv, Family, OneChild, Matched, Killed
<1>12. Slots'
  BY <1>1, <1>2 DEF IInv, Slots, Upstream
<1>13. ProbesOK'
  BY <1>3, <1>4, <1>5 DEF IInv, ProbesOK, Truthful
<1>14. Pool'
  BY <1>1 DEF IInv, Pool
<1>15. Bundles'
  <2>1. \A k \in kids : k.name \in Name
    BY DEF IInv, Types, Kid
  <2>2. \A n \in Live : n \in Name
    BY LiveFacts DEF IInv
  <2>3. \A x \in Mail : x.name \in Name
    <3>1. Mail \subseteq Letter
      BY Sets DEF IInv
    <3> QED  BY <3>1, LetterFacts
  <2>4. \A x \in Mail' :
          x.ev.type = "BuildFinished" /\ x.ev.outcome = "green" /\ BuildOf(x.name, x.ev.gen) =>
            OnDisk(x.name, app.inst[x.name].pipe.sha)'
    BY <1>1, <1>3, <1>5, <2>3 DEF IInv, Bundles, Truthful, OnDisk
  <2> QED  BY <1>1, <1>2, <1>4, <1>5, <2>1, <2>2, <2>4 DEF IInv, Bundles
<1>16. Booting'
  <2>1. \A x \in Elems(agenda) : x.name \in Name
    <3>1. Elems(agenda) \subseteq Task
      BY Sets DEF IInv
    <3> QED  BY <3>1 DEF Task
  <2> QED  BY <1>1, <1>2, <1>5, <2>1 DEF IInv, Booting
<1>17. Pointer'
  <2> SUFFICES ASSUME NEW n \in Static PROVE Named(n)'
    BY DEF Pointer
  <2>1. n \in Name /\ Named(n)
    BY StaticAssumption DEF IInv, Pointer
  <2>2. Untouched(n) => Untouched(n)' /\ (OnDisk(n, file[n])' => OnDisk(n, file[n]))
    BY <1>1, <1>4, <2>1 DEF Untouched, OnDisk, Outside
  <2> QED  BY <1>1, <2>1, <2>2 DEF Named
<1>18. Answered'
  <2>1. ASSUME NEW n, NEW g, Builds(n, g) PROVE Builds(n, g)'
    BY <1>2, <1>3, <1>4, <2>1 DEF Builds, Conveyed
  <2>2. ASSUME NEW n, NEW g, Probes(n, g) PROVE Probes(n, g)'
    BY <1>2, <1>3, <1>4, <2>2 DEF Probes, Conveyed
  <2> QED  BY <1>1, <1>2, <2>1, <2>2 DEF IInv, Answered
<1> QED  BY <1>7, <1>8, <1>9, <1>10, <1>11, <1>12, <1>13, <1>14, <1>15, <1>16, <1>17, <1>18
         DEF IInv

LEMMA BuildEndsKeeps ==
  ASSUME IInv, NEW b \in builders, NEW outcome \in BuildOutcome, BuildEnds(b, outcome)
  PROVE  IInv'
<1> DEFINE ev == [type |-> "BuildFinished", gen |-> b.gen, outcome |-> outcome]
           m == Message(b.name, ev)
<1>1. /\ chan' = Append(chan, m) /\ builders' = builders \ {b}
      /\ disk' = IF outcome = "green" THEN [disk EXCEPT ![b.name] = Harvest(@, b.sha)] ELSE disk
      /\ UNCHANGED control /\ UNCHANGED <<probes, stoppers, head, file, registry>>
  BY DEF BuildEnds, Post
<1>2. b.name \in Name /\ b.gen \in Nat /\ b.sha \in Sha /\ chan \in Seq(Letter)
      /\ disk \in [Name -> Seq(Sha)] /\ head \in [Name -> Sha]
  BY DEF IInv, Types
<1>3. ev \in Posted
  BY <1>2 DEF Posted
<1>4. m.name = b.name /\ m.ev = ev /\ m \in Letter
  BY <1>2, <1>3 DEF Message, Letter
<1>5. ev.type = "BuildFinished" /\ ev.gen = b.gen /\ ev.outcome = outcome
  OBVIOUS
<1> HIDE DEF ev, m
<1>6. /\ disk' \in [Name -> Seq(Sha)]
      /\ \A n \in Name : Elems(disk[n]) \subseteq Elems(disk'[n])
      /\ \A n \in Name : n # b.name => disk'[n] = disk[n]
      /\ outcome = "green" => b.sha \in Elems(disk'[b.name])
  <2>1. /\ Harvest(disk[b.name], b.sha) \in Seq(Sha)
        /\ Elems(disk[b.name]) \subseteq Elems(Harvest(disk[b.name], b.sha))
        /\ b.sha \in Elems(Harvest(disk[b.name], b.sha))
    BY <1>2, HarvestFacts
  <2> QED  BY <1>1, <1>2, <2>1
<1>7. Truthful(m)
  <2>1. BuildOf(b.name, b.gen) => app.inst[b.name].pipe.sha = b.sha
    BY DEF IInv, Bundles
  <2>2. Past(b.gen)
    BY DEF IInv, Handed
  <2> QED  BY <1>4, <1>5, <1>6, <2>1, <2>2 DEF Truthful
<1>8. Outside(m)
  BY <1>1, <1>2, <1>6, <1>7 DEF Outside
<1>9. Conveyed(m)
  <2>1. Elems(chan') = Elems(chan) \cup {m}
    BY <1>1, <1>2, <1>4, ElemsAppend
  <2> QED  BY <1>1, <1>4, <1>5, <2>1 DEF Conveyed, Mail
<1> QED  BY <1>8, <1>9, OutsideKeeps

\* A thread that touches neither builds nor bundles.
LEMMA PostKeeps ==
  ASSUME IInv, NEW m, Truthful(m), UNCHANGED control, UNCHANGED durable, UNCHANGED head,
         builders' = builders, stoppers' \subseteq stoppers, probes' \subseteq probes,
         chan' = Append(chan, m),
         \A b \in probes \ probes' : /\ m.ev.type \in {"ProbeSucceeded", "ProbeFailed"}
                                     /\ b.name = m.name /\ b.gen = m.ev.gen
  PROVE  IInv'
<1>1. chan \in Seq(Letter) /\ disk \in [Name -> Seq(Sha)] /\ head \in [Name -> Sha]
  BY DEF IInv, Types
<1>2. m \in Letter
  BY DEF Truthful
<1>3. Elems(chan') = Elems(chan) \cup {m}
  BY <1>1, <1>2, ElemsAppend
<1>4. Outside(m)
  BY <1>1 DEF Outside, durable
<1>5. Conveyed(m)
  BY <1>3 DEF Conveyed, Mail
<1> QED  BY <1>4, <1>5, OutsideKeeps

\* A thread that posts nothing.
LEMMA SilentKeeps ==
  ASSUME IInv, UNCHANGED control, UNCHANGED durable, UNCHANGED chan, head' \in [Name -> Sha],
         builders' = builders, probes' = probes, stoppers' \subseteq stoppers
  PROVE  IInv'
<1>1. disk \in [Name -> Seq(Sha)]
  BY DEF IInv, Types
<1>2. Outside(None)
  BY <1>1 DEF Outside, durable
<1>3. Conveyed(None)
  BY DEF Conveyed
<1> QED  BY <1>2, <1>3, OutsideKeeps

LEMMA ProbeEndsKeeps ==
  ASSUME IInv, NEW b \in probes, ProbeEnds(b)
  PROVE  IInv'
<1> DEFINE good == [type |-> "ProbeSucceeded", gen |-> b.gen]
           bad == ProbeFailed(b.gen)
<1>1. /\ probes' = probes \ {b} /\ UNCHANGED control /\ UNCHANGED durable /\ UNCHANGED head
      /\ builders' = builders /\ stoppers' = stoppers
      /\ \/ chan' = Append(chan, Message(b.name, good))
         \/ chan' = Append(chan, Message(b.name, bad))
  BY DEF ProbeEnds, Post
<1>2. b.name \in Name /\ b.gen \in Nat /\ Past(b.gen) /\ Booted(b.name, b.gen)
  BY DEF IInv, Types, Handed, ProbesOK
<1>3. /\ good \in Posted /\ good.type = "ProbeSucceeded" /\ good.gen = b.gen
      /\ bad \in Posted /\ bad.type = "ProbeFailed" /\ bad.gen = b.gen
  BY <1>2 DEF Posted, ProbeFailed
<1> HIDE DEF good, bad
<1>4. ASSUME NEW ev \in {good, bad}, chan' = Append(chan, Message(b.name, ev))
      PROVE  IInv'
  <2> DEFINE m == Message(b.name, ev)
  <2>1. m.name = b.name /\ m.ev = ev /\ m \in Letter
    BY <1>2, <1>3, <1>4 DEF Message, Letter
  <2> HIDE DEF m
  <2>2. Truthful(m)
    BY <1>2, <1>3, <1>4, <2>1 DEF Truthful
  <2>3. m.ev.type \in {"ProbeSucceeded", "ProbeFailed"} /\ b.name = m.name /\ b.gen = m.ev.gen
    BY <1>3, <1>4, <2>1
  <2>4. \A x \in probes \ probes' : x = b
    BY <1>1
  <2>5. chan' = Append(chan, m)
    BY <1>4 DEF m
  <2> QED  BY <1>1, <2>2, <2>3, <2>4, <2>5, PostKeeps
<1> QED  BY <1>1, <1>4

LEMMA StopEndsKeeps ==
  ASSUME IInv, NEW t \in stoppers, StopEnds(t)
  PROVE  IInv'
<1> DEFINE ev == [type |-> "DrainComplete", gen |-> t.gen]
           m == Message(t.name, ev)
<1>1. /\ stoppers' = stoppers \ {t} /\ UNCHANGED control /\ UNCHANGED durable /\ UNCHANGED head
      /\ builders' = builders /\ probes' = probes
      /\ IF t.drain THEN chan' = Append(chan, m) ELSE chan' = chan
  BY DEF StopEnds, Post
<1>2. t.name \in Name /\ t.gen \in Nat /\ Past(t.gen) /\ (t.drain => Retired(t.name, t.gen))
      /\ head \in [Name -> Sha]
  BY DEF IInv, Types, Handed, Draining
<1>3. ev \in Posted /\ ev.type = "DrainComplete" /\ ev.gen = t.gen
  BY <1>2 DEF Posted
<1> HIDE DEF ev
<1>4. m.name = t.name /\ m.ev = ev /\ m \in Letter
  BY <1>2, <1>3 DEF Message, Letter
<1> HIDE DEF m
<1>5. CASE t.drain
  <2>1. Truthful(m)
    BY <1>2, <1>3, <1>4, <1>5 DEF Truthful
  <2> QED  BY <1>1, <1>5, <2>1, PostKeeps
<1>6. CASE ~t.drain
  BY <1>1, <1>2, <1>6, SilentKeeps
<1> QED  BY <1>5, <1>6

LEMMA PollKeeps ==
  ASSUME IInv, NEW n \in Name, Poll(n)
  PROVE  IInv'
<1> DEFINE ev == [type |-> "HeadAdvanced", sha |-> head[n]]
           m == Message(n, ev)
<1>1. /\ UNCHANGED control /\ UNCHANGED durable /\ UNCHANGED head /\ chan' = Append(chan, m)
      /\ builders' = builders /\ probes' = probes /\ stoppers' = stoppers
  BY DEF Poll, Post, threads
<1>2. head[n] \in Sha
  BY DEF IInv, Types
<1>3. ev \in Posted /\ ev.type = "HeadAdvanced"
  BY <1>2 DEF Posted
<1> HIDE DEF ev
<1>4. m.name = n /\ m.ev = ev /\ m \in Letter
  BY <1>3 DEF Message, Letter
<1> HIDE DEF m
<1>5. Truthful(m)
  BY <1>3, <1>4 DEF Truthful
<1> QED  BY <1>1, <1>5, PostKeeps

LEMMA PushKeeps ==
  ASSUME IInv, NEW n \in Name, NEW sha \in Sha, Push(n, sha)
  PROVE  IInv'
<1>1. head \in [Name -> Sha]
  BY DEF IInv, Types
<1>2. /\ UNCHANGED control /\ UNCHANGED durable /\ UNCHANGED chan
      /\ head' = [head EXCEPT ![n] = sha]
      /\ builders' = builders /\ probes' = probes /\ stoppers' = stoppers
  BY DEF Push, threads
<1>3. head' \in [Name -> Sha]
  BY <1>1, <1>2
<1> QED  BY <1>2, <1>3, SilentKeeps

LEMMA BindKeeps ==
  ASSUME IInv, NEW p \in procs, Bind(p)
  PROVE  IInv'
<1>1. head \in [Name -> Sha]
  BY DEF IInv, Types
<1>2. /\ UNCHANGED control /\ UNCHANGED durable /\ UNCHANGED chan /\ UNCHANGED head
      /\ builders' = builders /\ probes' = probes /\ stoppers' = stoppers
  BY DEF Bind, threads
<1> QED  BY <1>1, <1>2, SilentKeeps

-----------------------------------------------------------------------------
(* The control thread executes one order.                                  *)

LEMMA Popped ==
  ASSUME Types, NEW act, At(act), Done
  PROVE  LET o == Head(hand.todo)
         IN /\ o \in Order /\ o.act \in act /\ Ahead = {o} \cup Ahead'
            /\ hand' \in [name : Name, todo : Seq(Order)] /\ hand' # None /\ hand # None
            /\ hand'.name = hand.name
            /\ OneSpawn(Todo) => /\ OneSpawn(Todo')
                                 /\ o.act \in Spawns => \A x \in Ahead' : x.act \notin Spawns
<1> DEFINE q == hand.todo
           r == Tail(q)
           o == Head(q)
<1>1. /\ hand # None /\ hand \in [name : Name, todo : Seq(Order)] /\ q # <<>> /\ o.act \in act
      /\ hand' = [hand EXCEPT !.todo = r]
  BY DEF Types, At, Done
<1>2. hand = [name |-> hand.name, todo |-> q] /\ q \in Seq(Order) /\ hand.name \in Name
  BY <1>1
<1>3. hand' = [name |-> hand.name, todo |-> r]
  <2> HIDE DEF q, r
  <2> QED  BY <1>1, <1>2
<1>4. /\ r \in Seq(Order) /\ o \in Order /\ Elems(q) = {o} \cup Elems(r)
      /\ DOMAIN r = 1..(Len(q) - 1) /\ DOMAIN q = 1..Len(q) /\ Len(q) \in Nat \ {0}
      /\ \A k \in DOMAIN r : k + 1 \in DOMAIN q /\ r[k] = q[k + 1]
      /\ 1 \in DOMAIN q /\ o = q[1]
  BY <1>1, <1>2, ElemsTail
<1> HIDE DEF q, r, o
<1>5. hand' \in [name : Name, todo : Seq(Order)] /\ hand'.name = hand.name /\ hand'.todo = r
  BY <1>2, <1>3, <1>4
<1>6. hand' # None
  <2>1. Name \in SUBSET Name /\ hand' \in [name : Name, todo : Seq(Order)]
    BY <1>5
  <2> QED  BY <2>1, HandAssumption
<1>7. Todo = q /\ Todo' = r /\ Ahead = Elems(q) /\ Ahead' = Elems(r)
  BY <1>1, <1>5, <1>6 DEF Todo, Ahead, q
<1>8. ASSUME OneSpawn(q)
      PROVE  OneSpawn(r) /\ (o.act \in Spawns => \A x \in Elems(r) : x.act \notin Spawns)
  <2>1. \A k \in DOMAIN r : k \in Int
    BY <1>4
  <2>2. ASSUME NEW j \in DOMAIN r, NEW k \in DOMAIN r, r[j].act \in Spawns, r[k].act \in Spawns
        PROVE  j = k
    <3>1. j + 1 = k + 1
      BY <1>4, <1>8, <2>2 DEF OneSpawn
    <3> QED  BY <2>1, <3>1
  <2>3. ASSUME NEW k \in DOMAIN r, r[k].act \in Spawns, o.act \in Spawns PROVE FALSE
    <3>1. k + 1 = 1
      BY <1>4, <1>8, <2>3 DEF OneSpawn
    <3> QED  BY <1>4, <3>1
  <2> QED  BY <2>2, <2>3 DEF OneSpawn, Elems
<1> QED  BY <1>1, <1>4, <1>5, <1>6, <1>7, <1>8 DEF o, q

\* What no order changes.
Executing == UNCHANGED <<app, agenda, seen, head, registry>>

LEMMA ExecutingKeeps ==
  ASSUME IInv, Executing
  PROVE  /\ Live' = Live /\ AnySha' = AnySha
         /\ \A n, g : Retired(n, g)' <=> Retired(n, g)
         /\ \A n, g : BuildOf(n, g)' <=> BuildOf(n, g)
         /\ \A g : Past(g)' <=> Past(g)
BY DEF Executing, Live, Retired, BuildOf, Past, AnySha

LEMMA StartBuildKeeps ==
  ASSUME IInv, StartBuild
  PROVE  IInv'
<1> DEFINE o == Head(hand.todo)
           b == [name |-> o.name, gen |-> o.gen, sha |-> o.sha]
<1>1. /\ Executing /\ builders' = builders \cup {b} /\ At({"StartBuild"}) /\ Done
      /\ kids' = kids /\ slot' = slot /\ ports' = ports /\ chan' = chan /\ probes' = probes
      /\ stoppers' = stoppers /\ disk' = disk /\ file' = file
  BY DEF StartBuild, durable, Executing
<1>2. /\ o \in Order /\ o.act \in {"StartBuild"} /\ Ahead = {o} \cup Ahead'
      /\ hand' \in [name : Name, todo : Seq(Order)] /\ hand' # None /\ hand # None
      /\ hand'.name = hand.name
      /\ OneSpawn(Todo) => OneSpawn(Todo')
  BY <1>1, Popped DEF IInv
<1> HIDE DEF o
<1>3. /\ o.name \in Name /\ o.gen \in Nat /\ o.sha \in Sha /\ o.act = "StartBuild"
  BY <1>2, OrderFacts
<1>4. b.name = o.name /\ b.gen = o.gen /\ b.sha = o.sha
      /\ b \in [name : Name, gen : Nat, sha : Sha]
  BY <1>3
<1> HIDE DEF b
<1>5. Past(o.gen) /\ o.name \in Live /\ app.inst[o.name].pipe = Building(o.sha, o.gen)
  BY <1>2, <1>3 DEF IInv, Handed, Ordering, Fitting
<1>6. /\ app' = app /\ agenda' = agenda /\ head' = head /\ registry' = registry
      /\ Live' = Live /\ Mail' = Mail
      /\ \A n, g : (Retired(n, g)' <=> Retired(n, g)) /\ (BuildOf(n, g)' <=> BuildOf(n, g))
      /\ \A g : Past(g)' <=> Past(g)
      /\ \A n, g : OnDisk(n, g)' <=> OnDisk(n, g)
      /\ \A n, g : Booted(n, g)' <=> Booted(n, g)
  BY <1>1, ExecutingKeeps DEF Executing, Mail, OnDisk, Booted
<1>7. Types'
  BY <1>1, <1>2, <1>4, <1>6 DEF IInv, Types
<1>8. Handed'
  BY <1>1, <1>2, <1>4, <1>5, <1>6 DEF IInv, Handed
<1>9. Ordering'
  BY <1>1, <1>2, <1>6 DEF IInv, Ordering, Fitting, Tracked, KidsOf, ByGen
<1>10. Draining'
  BY <1>1, <1>2, <1>6 DEF IInv, Draining
<1>11. Family'
  <2>1. ASSUME NEW n \in Live PROVE Matched(n)'
    <3>1. Matched(n)
      BY DEF IInv, Family
    <3>2. \A g : Killed(n, g) => Killed(n, g)'
      BY <1>2, <1>3 DEF Killed
    <3> QED  BY <1>1, <1>6, <3>1, <3>2 DEF Matched
  <2> QED  BY <1>1, <1>6, <2>1 DEF IInv, Family, OneChild
<1>12. Slots'
  BY <1>1, <1>2, <1>3, <1>6 DEF IInv, Slots, Upstream
<1>13. ProbesOK'
  BY <1>1, <1>6 DEF IInv, ProbesOK
<1>14. Pool'
  BY <1>1 DEF IInv, Pool
<1>15. Bundles'
  <2>1. app.inst[b.name].pipe.sha = b.sha
    BY <1>4, <1>5 DEF Building
  <2> QED  BY <1>1, <1>6, <2>1 DEF IInv, Bundles
<1>16. Booting'
  BY <1>2, <1>6 DEF IInv, Booting
<1>17. Pointer'
  <2>1. app.inst[o.name] # NewInstance
    <3>1. app.inst[o.name].pipe.at = "building"
      BY <1>5 DEF Building
    <3> QED  BY <3>1, NewInstanceFacts
  <2>2. \A n : Untouched(n) => Untouched(n)'
    BY <1>1, <1>4, <1>6, <2>1 DEF Untouched
  <2> QED  BY <1>1, <1>2, <1>6, <2>2 DEF IInv, Pointer, Named
<1>18. Answered'
  <2>1. ASSUME NEW n, NEW g, Builds(n, g) PROVE Builds(n, g)'
    BY <1>1, <1>2, <1>4, <1>6, <2>1 DEF Builds
  <2>2. ASSUME NEW n, NEW g, Probes(n, g) PROVE Probes(n, g)'
    BY <1>1, <1>2, <1>3, <1>6, <2>2 DEF Probes, Spawns
  <2> QED  BY <1>6, <2>1, <2>2 DEF IInv, Answered
<1> QED  BY <1>7, <1>8, <1>9, <1>10, <1>11, <1>12, <1>13, <1>14, <1>15, <1>16, <1>17, <1>18
         DEF IInv

LEMMA SpawnAndProbeKeeps ==
  ASSUME IInv, SpawnAndProbe
  PROVE  IInv'
<1> DEFINE o == Head(hand.todo)
           c == [name |-> o.name, gen |-> o.gen, sha |-> o.sha, port |-> NextPort(ports)]
           b == [name |-> o.name, gen |-> o.gen, port |-> c.port]
<1>1. /\ Executing /\ At({"SpawnAndProbe", "Respawn"}) /\ Done /\ HasPort(ports)
      /\ kids' = kids \cup {c} /\ probes' = probes \cup {b} /\ ports' = Alloc(ports)
      /\ slot' = slot /\ chan' = chan /\ builders' = builders
      /\ stoppers' = stoppers /\ disk' = disk /\ file' = file
  BY DEF SpawnAndProbe, durable, Executing
<1>2. /\ o \in Order /\ o.act \in Spawns /\ Ahead = {o} \cup Ahead'
      /\ hand' \in [name : Name, todo : Seq(Order)] /\ hand' # None /\ hand # None
      /\ hand'.name = hand.name
      /\ OneSpawn(Todo) => OneSpawn(Todo') /\ \A x \in Ahead' : x.act \notin Spawns
  BY <1>1, Popped DEF IInv, Spawns
<1> HIDE DEF o
<1>3. /\ o.name \in Name /\ o.gen \in Nat /\ o.sha \in Sha
  BY <1>2, OrderFacts DEF Spawns
<1>4. c.port = NextPort(ports)
  OBVIOUS
<1>5. /\ Accounts(Alloc(ports), kids \cup {c}) /\ c.port \in Nat
      /\ \A x \in kids : x.port # c.port
  <2> HIDE DEF c
  <2> QED  BY <1>1, <1>4, AllocAccounts DEF IInv, Pool
<1>6. /\ c.name = o.name /\ c.gen = o.gen /\ c.sha = o.sha /\ c \in Kid
      /\ b.name = o.name /\ b.gen = o.gen /\ b \in [name : Name, gen : Nat, port : Nat]
  BY <1>3, <1>5 DEF Kid
<1> HIDE DEF c, b
<1>7. /\ Past(o.gen) /\ o.name \in Live /\ app.inst[o.name].pipe.at = "probing"
      /\ app.inst[o.name].pipe.gen = o.gen /\ app.inst[o.name].pipe.sha = o.sha
      /\ ~\E k \in kids : k.name = o.name /\ k.gen = o.gen
  BY <1>2 DEF IInv, Handed, Ordering, Fitting, Spawns, Tracked, KidsOf, ByGen
<1>8. /\ app' = app /\ agenda' = agenda /\ head' = head /\ registry' = registry
      /\ Live' = Live /\ Mail' = Mail
      /\ \A n, g : (Retired(n, g)' <=> Retired(n, g)) /\ (BuildOf(n, g)' <=> BuildOf(n, g))
      /\ \A g : Past(g)' <=> Past(g)
      /\ \A n, g : OnDisk(n, g)' <=> OnDisk(n, g)
      /\ \A n, g : Booted(n, g) => Booted(n, g)'
  BY <1>1, ExecutingKeeps DEF Executing, Mail, OnDisk, Booted
<1>9. Types'
  <2>1. IsFiniteSet(kids \cup {c})
    BY FS_AddElement DEF IInv, Types
  <2> QED  BY <1>1, <1>2, <1>6, <1>8, <2>1 DEF IInv, Types
<1>10. Handed'
  BY <1>1, <1>2, <1>6, <1>7, <1>8 DEF IInv, Handed
<1>11. Ordering'
  <2>1. ASSUME NEW x \in Ahead' PROVE Fitting(x)'
    BY <1>2, <1>8, <2>1 DEF IInv, Ordering, Fitting
  <2> QED  BY <1>2, <2>1 DEF IInv, Ordering
<1>12. Draining'
  BY <1>1, <1>2, <1>8 DEF IInv, Draining
<1>13. Family'
  <2>1. OneChild'
    BY <1>1, <1>6, <1>7 DEF IInv, Family, OneChild
  <2>2. \A k \in kids' : k.name \in Live'
    BY <1>1, <1>6, <1>7, <1>8 DEF IInv, Family
  <2>3. ASSUME NEW n \in Live PROVE Matched(n)'
    <3>1. Matched(n)
      BY DEF IInv, Family
    <3>2. \A g : Killed(n, g) => Killed(n, g)'
      BY <1>2 DEF Killed, Spawns
    <3>3. c.name = n => c.gen \in BootGen(app.inst[n])
      BY <1>6, <1>7 DEF BootGen
    <3> QED  BY <1>1, <1>8, <3>1, <3>2, <3>3 DEF Matched
  <2> QED  BY <1>8, <2>1, <2>2, <2>3 DEF Family
<1>14. Slots'
  <2>1. \A n : Upstream(n) => Upstream(n)'
    BY <1>1, <1>8 DEF Upstream
  <2>2. o.act # "Promote"
    BY <1>2 DEF Spawns
  <2> QED  BY <1>1, <1>2, <1>8, <2>1, <2>2 DEF IInv, Slots
<1>15. ProbesOK'
  <2>1. \A n, g : n = b.name /\ g = b.gen => Booted(n, g)'
    BY <1>1, <1>6, <1>7, <1>8 DEF Booted
  <2> QED  BY <1>1, <1>8, <2>1 DEF IInv, ProbesOK
<1>16. Pool'
  BY <1>1, <1>5 DEF Pool
<1>17. Bundles'
  <2>1. OnDisk(c.name, c.sha)
    BY <1>6, <1>7 DEF IInv, Bundles
  <2> QED  BY <1>1, <1>8, <2>1 DEF IInv, Bundles
<1>18. Booting'
  BY <1>2, <1>8 DEF IInv, Booting
<1>19. Pointer'
  BY <1>1, <1>2, <1>8 DEF IInv, Pointer, Named, Untouched
<1>20. Answered'
  <2>1. ASSUME NEW n, NEW g, Builds(n, g) PROVE Builds(n, g)'
    BY <1>1, <1>2, <1>8, <2>1 DEF Builds, Spawns
  <2>2. ASSUME NEW n, NEW g, Probes(n, g) PROVE Probes(n, g)'
    BY <1>1, <1>2, <1>6, <1>8, <2>2 DEF Probes
  <2> QED  BY <1>8, <2>1, <2>2 DEF IInv, Answered
<1> QED  BY <1>9, <1>10, <1>11, <1>12, <1>13, <1>14, <1>15, <1>16, <1>17, <1>18, <1>19, <1>20
         DEF IInv

\* An order that leaves the children alone.
LEMMA OrderKeeps ==
  ASSUME IInv, Executing, NEW act, At(act), Done,
         act \subseteq {"SpawnAndProbe", "Respawn", "StartDrain", "RecordRed"},
         kids' = kids, slot' = slot, builders' = builders, probes' = probes, disk' = disk,
         file' = file, Accounts(ports', kids),
         stoppers' \in SUBSET [name : Name, gen : Nat, drain : BOOLEAN],
         \A t \in stoppers' : t \in stoppers \/ (Past(t.gen) /\ Retired(t.name, t.gen)),
         chan' \in Seq(Letter), Mail \subseteq Mail',
         \A m \in Mail' : m \in Mail \/ (m.ev.type = "ProbeFailed" /\ Past(m.ev.gen)),
         \A o : o = Head(hand.todo) /\ o.act \in Spawns =>
           \E m \in Mail' : m.name = o.name /\ m.ev.type = "ProbeFailed" /\ m.ev.gen = o.gen
  PROVE  IInv'
<1> DEFINE o == Head(hand.todo)
<1>1. o.act \in Spawns =>
        \E m \in Mail' : m.name = o.name /\ m.ev.type = "ProbeFailed" /\ m.ev.gen = o.gen
  OBVIOUS
<1>2. /\ o \in Order /\ o.act \in act /\ Ahead = {o} \cup Ahead'
      /\ hand' \in [name : Name, todo : Seq(Order)] /\ hand' # None /\ hand # None
      /\ hand'.name = hand.name
      /\ OneSpawn(Todo) => OneSpawn(Todo')
  BY Popped DEF IInv
<1> HIDE DEF o
<1>3. o.act \in {"SpawnAndProbe", "Respawn", "StartDrain", "RecordRed"}
  BY <1>2
<1>4. /\ app' = app /\ agenda' = agenda /\ head' = head /\ registry' = registry
      /\ Live' = Live
      /\ \A n, g : (Retired(n, g)' <=> Retired(n, g)) /\ (BuildOf(n, g)' <=> BuildOf(n, g))
      /\ \A g : Past(g)' <=> Past(g)
      /\ \A n, g : OnDisk(n, g)' <=> OnDisk(n, g)
      /\ \A n, g : Booted(n, g)' <=> Booted(n, g)
  BY ExecutingKeeps DEF Executing, OnDisk, Booted
<1>5. Types'
  BY <1>2, <1>4 DEF IInv, Types
<1>6. Handed'
  BY <1>2, <1>4 DEF IInv, Handed
<1>7. Ordering'
  BY <1>2, <1>4 DEF IInv, Ordering, Fitting, Tracked, KidsOf, ByGen
<1>8. Draining'
  BY <1>2, <1>4 DEF IInv, Draining
<1>9. Family'
  <2>1. ASSUME NEW n \in Live PROVE Matched(n)'
    <3>1. Matched(n)
      BY DEF IInv, Family
    <3>2. \A g : Killed(n, g) => Killed(n, g)'
      BY <1>2, <1>3 DEF Killed
    <3> QED  BY <1>4, <3>1, <3>2 DEF Matched
  <2> QED  BY <1>4, <2>1 DEF IInv, Family, OneChild
<1>10. Slots'
  BY <1>2, <1>3, <1>4 DEF IInv, Slots, Upstream
<1>11. ProbesOK'
  BY <1>4 DEF IInv, ProbesOK
<1>12. Pool'
  BY DEF Pool
<1>13. Bundles'
  BY <1>4 DEF IInv, Bundles
<1>14. Booting'
  BY <1>2, <1>4 DEF IInv, Booting
<1>15. Pointer'
  BY <1>2, <1>4 DEF IInv, Pointer, Named, Untouched
<1>16. Answered'
  <2>1. ASSUME NEW n, NEW g, Builds(n, g) PROVE Builds(n, g)'
    BY <1>2, <1>3, <2>1 DEF Builds
  <2>2. ASSUME NEW n, NEW g, Probes(n, g) PROVE Probes(n, g)'
    BY <1>1, <1>2, <2>2 DEF Probes
  <2> QED  BY <1>4, <2>1, <2>2 DEF IInv, Answered
<1> QED  BY <1>5, <1>6, <1>7, <1>8, <1>9, <1>10, <1>11, <1>12, <1>13, <1>14, <1>15, <1>16
         DEF IInv

LEMMA CannotSpawnKeeps ==
  ASSUME IInv, CannotSpawn
  PROVE  IInv'
<1> DEFINE o == Head(hand.todo)
           act == {"SpawnAndProbe", "Respawn"}
           ev == ProbeFailed(o.gen)
           m == Message(o.name, ev)
<1>1. /\ Executing /\ At(act) /\ Done
      /\ kids' = kids /\ slot' = slot /\ builders' = builders /\ probes' = probes
      /\ stoppers' = stoppers /\ disk' = disk /\ file' = file
      /\ chan' = Append(chan, m)
      /\ ports' = ports \/ (HasPort(ports) /\ ports' = Release(Alloc(ports), NextPort(ports)))
  BY DEF CannotSpawn, durable, threads, Executing, Post
<1>2. o \in Order /\ o.act \in Spawns /\ o \in Ahead
  BY <1>1, Popped DEF IInv, Spawns
<1> HIDE DEF o
<1>3. o.name \in Name /\ o.gen \in Nat /\ Past(o.gen)
  BY <1>2, OrderFacts DEF Spawns, IInv, Handed
<1>4. ev \in Posted /\ ev.type = "ProbeFailed" /\ ev.gen = o.gen
  BY <1>3 DEF Posted, ProbeFailed
<1> HIDE DEF ev
<1>5. m.name = o.name /\ m.ev = ev /\ m \in Letter
  BY <1>3, <1>4 DEF Message, Letter
<1> HIDE DEF m
<1>6. chan' \in Seq(Letter) /\ Mail' = Mail \cup {m}
  <2>1. chan \in Seq(Letter)
    BY DEF IInv, Types
  <2> QED  BY <1>1, <1>5, <2>1, ElemsAppend DEF Mail
<1>7. Accounts(ports', kids)
  BY <1>1, FailedAccounts DEF IInv, Pool
<1>8. stoppers' \in SUBSET [name : Name, gen : Nat, drain : BOOLEAN]
  BY <1>1 DEF IInv, Types
<1>9. \A x : x = Head(hand.todo) /\ x.act \in Spawns =>
        \E y \in Mail' : y.name = x.name /\ y.ev.type = "ProbeFailed" /\ y.ev.gen = x.gen
  BY <1>4, <1>5, <1>6 DEF o
<1>10. /\ \A y \in Mail' : y \in Mail \/ (y.ev.type = "ProbeFailed" /\ Past(y.ev.gen))
       /\ Mail \subseteq Mail'
  BY <1>3, <1>4, <1>5, <1>6
<1>11. act \subseteq {"SpawnAndProbe", "Respawn", "StartDrain", "RecordRed"}
  OBVIOUS
<1> HIDE DEF act
<1> QED  BY <1>1, <1>6, <1>7, <1>8, <1>9, <1>10, <1>11, OrderKeeps

LEMMA StartDrainKeeps ==
  ASSUME IInv, StartDrain
  PROVE  IInv'
<1> DEFINE o == Head(hand.todo)
           act == {"StartDrain"}
<1>1. /\ Executing /\ At(act) /\ Done
      /\ kids' = kids /\ slot' = slot /\ builders' = builders /\ probes' = probes
      /\ disk' = disk /\ file' = file /\ chan' = chan /\ ports' = ports
      /\ Stop(Tracked(o.name, o.gen), TRUE)
  BY DEF StartDrain, durable, Executing
<1>2. o \in Order /\ o.act = "StartDrain" /\ o \in Ahead
  BY <1>1, Popped DEF IInv
<1> HIDE DEF o
<1>3. Retired(o.name, o.gen) /\ kids \subseteq Kid
      /\ stoppers \in SUBSET [name : Name, gen : Nat, drain : BOOLEAN]
      /\ chan \in Seq(Letter) /\ \A k \in kids : Past(k.gen)
  BY <1>2 DEF IInv, Draining, Types, Handed
<1>4. ASSUME NEW t \in stoppers', t \notin stoppers
      PROVE  \E k \in kids : t = [name |-> k.name, gen |-> k.gen, drain |-> TRUE]
                             /\ k.name = o.name /\ k.gen = o.gen
  BY <1>1, <1>4 DEF Stop, Tracked, KidsOf, ByGen
<1>5. ASSUME NEW t \in stoppers', t \notin stoppers
      PROVE  /\ t \in [name : Name, gen : Nat, drain : BOOLEAN]
             /\ Past(t.gen) /\ Retired(t.name, t.gen)
  <2>1. PICK k \in kids : /\ t = [name |-> k.name, gen |-> k.gen, drain |-> TRUE]
                          /\ k.name = o.name /\ k.gen = o.gen
    BY <1>4, <1>5
  <2>2. k.name \in Name /\ k.gen \in Nat /\ Past(k.gen)
    BY <1>3 DEF Kid
  <2>3. t.name = k.name /\ t.gen = k.gen /\ t.drain = TRUE
    BY <2>1
  <2>4. t \in [name : Name, gen : Nat, drain : BOOLEAN]
    BY <2>1, <2>2
  <2>5. Retired(t.name, t.gen)
    BY <1>3, <2>1, <2>3
  <2> QED  BY <2>2, <2>3, <2>4, <2>5
<1>6. stoppers' \in SUBSET [name : Name, gen : Nat, drain : BOOLEAN]
  BY <1>3, <1>5
<1>7. Accounts(ports', kids) /\ Mail' = Mail
  BY <1>1 DEF IInv, Pool, Mail
<1>8. \A x : x = Head(hand.todo) => x.act \notin Spawns
  BY <1>2 DEF Spawns, o
<1>9. act \subseteq {"SpawnAndProbe", "Respawn", "StartDrain", "RecordRed"}
  OBVIOUS
<1> HIDE DEF act
<1> QED  BY <1>1, <1>3, <1>5, <1>6, <1>7, <1>8, <1>9, OrderKeeps

LEMMA RecordRedOrderKeeps ==
  ASSUME IInv, RecordRedOrder
  PROVE  IInv'
<1> DEFINE o == Head(hand.todo)
           act == {"RecordRed"}
<1>1. /\ Executing /\ At(act) /\ Done
      /\ kids' = kids /\ slot' = slot /\ builders' = builders /\ probes' = probes
      /\ disk' = disk /\ file' = file /\ chan' = chan /\ ports' = ports /\ stoppers' = stoppers
  BY DEF RecordRedOrder, durable, threads, Executing
<1>2. o.act = "RecordRed"
  BY <1>1, Popped DEF IInv
<1>3. /\ stoppers \in SUBSET [name : Name, gen : Nat, drain : BOOLEAN]
      /\ chan \in Seq(Letter)
  BY DEF IInv, Types
<1>4. Accounts(ports', kids) /\ Mail' = Mail
  BY <1>1 DEF IInv, Pool, Mail
<1>5. \A x : x = Head(hand.todo) => x.act \notin Spawns
  BY <1>2 DEF Spawns
<1>6. act \subseteq {"SpawnAndProbe", "Respawn", "StartDrain", "RecordRed"}
  OBVIOUS
<1> HIDE DEF act, o
<1> QED  BY <1>1, <1>3, <1>4, <1>5, <1>6, OrderKeeps

\* A prune that spares what its instance protects spares every bundle in use.
Spares ==
  /\ disk' \in [Name -> Seq(Sha)]
  /\ \A n \in Name : Elems(disk'[n]) \subseteq Elems(disk[n])
  /\ \A n \in Live : \A sha \in Protected(app, n) : OnDisk(n, sha) => OnDisk(n, sha)'

LEMMA ProtectedFacts ==
  ASSUME Types, NEW n \in Live
  PROVE  /\ app.inst[n].lastGreen \in Protected(app, n)
         /\ app.inst[n].pipe.at \in {"building", "probing"} => app.inst[n].pipe.sha \in Protected(app, n)
         /\ \A k \in kids : k.name = n => k.sha \in Protected(app, n)
<1>1. app.inst[n].pipe.at \in {"building", "probing"} => app.inst[n].pipe # Idle
  BY DEF Idle
<1> QED  BY <1>1 DEF Protected, KidsOf

LEMMA SparesKeeps ==
  ASSUME IInv, Spares
  PROVE  /\ \A k \in kids : k.sha \in Elems(disk'[k.name])
         /\ \A n \in Live : /\ app.inst[n].lastGreen # None => app.inst[n].lastGreen \in Elems(disk'[n])
                            /\ app.inst[n].pipe.at = "probing" => app.inst[n].pipe.sha \in Elems(disk'[n])
         /\ \A m \in Mail :
              m.ev.type = "BuildFinished" /\ m.ev.outcome = "green" /\ BuildOf(m.name, m.ev.gen) =>
                app.inst[m.name].pipe.sha \in Elems(disk'[m.name])
<1>1. \A n \in Live :
        /\ app.inst[n].lastGreen \in Protected(app, n)
        /\ app.inst[n].pipe.at \in {"building", "probing"} => app.inst[n].pipe.sha \in Protected(app, n)
        /\ \A k \in kids : k.name = n => k.sha \in Protected(app, n)
  BY ProtectedFacts DEF IInv
<1>2. \A n \in Live : \A sha \in Protected(app, n) : OnDisk(n, sha) => OnDisk(n, sha)'
  BY DEF Spares
<1>3. \A k \in kids : k.name \in Live /\ OnDisk(k.name, k.sha)
  BY DEF IInv, Family, Bundles
<1>4. \A n \in Live : /\ app.inst[n].lastGreen # None => OnDisk(n, app.inst[n].lastGreen)
                      /\ app.inst[n].pipe.at = "probing" => OnDisk(n, app.inst[n].pipe.sha)
  BY DEF IInv, Bundles
<1>5. ASSUME NEW m \in Mail, m.ev.type = "BuildFinished", m.ev.outcome = "green",
             BuildOf(m.name, m.ev.gen)
      PROVE  app.inst[m.name].pipe.sha \in Elems(disk'[m.name])
  <2>1. OnDisk(m.name, app.inst[m.name].pipe.sha)
    BY <1>5 DEF IInv, Bundles
  <2>2. m.name \in Live /\ app.inst[m.name].pipe.at = "building"
    BY <1>5 DEF BuildOf
  <2>3. app.inst[m.name].pipe.sha \in Protected(app, m.name)
    BY <1>1, <2>2
  <2> QED  BY <1>2, <2>1, <2>2, <2>3 DEF OnDisk
<1>6. \A k \in kids : k.sha \in Elems(disk'[k.name])
  BY <1>1, <1>2, <1>3 DEF OnDisk
<1>7. \A n \in Live : /\ app.inst[n].lastGreen # None => app.inst[n].lastGreen \in Elems(disk'[n])
                      /\ app.inst[n].pipe.at = "probing" => app.inst[n].pipe.sha \in Elems(disk'[n])
  BY <1>1, <1>2, <1>4 DEF OnDisk
<1> QED  BY <1>5, <1>6, <1>7

LEMMA PromoteKeeps ==
  ASSUME IInv, Promote
  PROVE  IInv'
<1> DEFINE o == Head(hand.todo)
           n == o.name
           now == {[port |-> k.port, gen |-> k.gen] : k \in Tracked(n, o.gen)}
           b == Prune(disk[n], Protected(app, n), 1)
<1>1. /\ Executing /\ At({"Promote"}) /\ Done
      /\ slot' = [slot EXCEPT ![n] = IF now = {} THEN slot[n] ELSE CHOOSE u \in now : TRUE]
      /\ disk' = [disk EXCEPT ![n] = b]
      /\ kids' = kids /\ ports' = ports /\ chan' = chan /\ builders' = builders
      /\ probes' = probes /\ stoppers' = stoppers /\ file' = file
  BY DEF Promote, threads, Executing
<1>2. /\ o \in Order /\ o.act \in {"Promote"} /\ Ahead = {o} \cup Ahead'
      /\ hand' \in [name : Name, todo : Seq(Order)] /\ hand' # None /\ hand # None
      /\ hand'.name = hand.name
      /\ OneSpawn(Todo) => OneSpawn(Todo')
  BY <1>1, Popped DEF IInv
<1> HIDE DEF o
<1>3. /\ n \in Name /\ o.act = "Promote" /\ n \in Live /\ n = hand.name
      /\ app.inst[n].serving # None /\ app.inst[n].serving.gen = o.gen
      /\ \A x \in Ahead : x.act = "Promote" => x.name = n
  BY <1>2, OrderFacts DEF IInv, Ordering, Fitting
<1> HIDE DEF n
<1>4. /\ app' = app /\ agenda' = agenda /\ head' = head /\ registry' = registry
      /\ Live' = Live /\ Mail' = Mail
      /\ \A m, g : (Retired(m, g)' <=> Retired(m, g)) /\ (BuildOf(m, g)' <=> BuildOf(m, g))
      /\ \A g : Past(g)' <=> Past(g)
      /\ \A m, g : Booted(m, g)' <=> Booted(m, g)
  BY <1>1, ExecutingKeeps DEF Executing, Mail, Booted
<1>5. agenda = <<>>
  BY <1>2, <1>3 DEF IInv, Booting
<1>6. Spares /\ \A m \in Name : m # n => disk'[m] = disk[m]
  <2>1. disk \in [Name -> Seq(Sha)]
    BY DEF IInv, Types
  <2>2. disk[n] \in Seq(Sha)
    BY <1>3, <2>1
  <2>3. /\ b \in Seq(Sha) /\ Elems(b) \subseteq Elems(disk[n])
        /\ \A sha \in Elems(disk[n]) : sha \in Protected(app, n) => sha \in Elems(b)
    BY <2>2, PruneFacts
  <2> HIDE DEF b
  <2>4. disk' \in [Name -> Seq(Sha)] /\ disk'[n] = b /\ \A m \in Name : m # n => disk'[m] = disk[m]
    BY <1>1, <1>3, <2>1, <2>3
  <2>5. \A m \in Name : Elems(disk'[m]) \subseteq Elems(disk[m])
    BY <2>3, <2>4
  <2>6. Live \subseteq Name
    BY LiveFacts DEF IInv
  <2>7. \A m \in Live : \A sha \in Protected(app, m) :
          sha \in Elems(disk[m]) => sha \in Elems(disk'[m])
    BY <2>3, <2>4, <2>6
  <2> QED  BY <2>4, <2>5, <2>7 DEF Spares, OnDisk
<1> HIDE DEF b
<1>7. Types'
  BY <1>1, <1>2, <1>4, <1>6 DEF IInv, Types, Spares
<1>8. Handed'
  BY <1>1, <1>2, <1>4 DEF IInv, Handed
<1>9. Ordering'
  BY <1>1, <1>2, <1>4 DEF IInv, Ordering, Fitting, Tracked, KidsOf, ByGen
<1>10. Draining'
  BY <1>1, <1>2, <1>4 DEF IInv, Draining
<1>11. Family'
  <2>1. ASSUME NEW m \in Live PROVE Matched(m)'
    <3>1. Matched(m)
      BY DEF IInv, Family
    <3>2. \A g : Killed(m, g) => Killed(m, g)'
      BY <1>2, <1>3 DEF Killed
    <3> QED  BY <1>1, <1>4, <3>1, <3>2 DEF Matched
  <2> QED  BY <1>1, <1>4, <2>1 DEF IInv, Family, OneChild
<1>12. Slots'
  <2>1. DOMAIN slot = Name
    BY DEF IInv, Slots
  <2>2. PICK k \in kids : k.name = n /\ k.gen = app.inst[n].serving.gen
                          /\ k.sha = app.inst[n].serving.sha
    BY <1>3 DEF IInv, Family, Matched
  <2>3. Tracked(n, o.gen) = {k}
    BY <1>3, <2>2 DEF IInv, Family, OneChild, Tracked, KidsOf, ByGen
  <2> DEFINE u == [port |-> k.port, gen |-> k.gen]
  <2>4. now = {u}
    BY <2>3
  <2> HIDE DEF now
  <2>5. slot'[n] = u /\ DOMAIN slot' = Name /\ \A m \in Name : m # n => slot'[m] = slot[m]
    <3> HIDE DEF u
    <3>1. now # {} /\ (CHOOSE x \in now : TRUE) = u
      BY <2>4
    <3> QED  BY <1>1, <1>3, <2>1, <3>1
  <2>6. ASSUME NEW m \in Live, m = n PROVE Upstream(m)'
    <3>1. app.inst[m].serving # None /\ slot'[m] = u
      BY <1>3, <2>5, <2>6
    <3>2. k.name = m /\ k.gen = app.inst[m].serving.gen /\ k.sha = app.inst[m].serving.sha
      BY <2>2, <2>6
    <3> QED  BY <1>1, <1>4, <3>1, <3>2 DEF Upstream
  <2>7. ASSUME NEW m \in Live, m # n PROVE Upstream(m)'
    <3>1. Upstream(m)
      BY <1>3, <2>7 DEF IInv, Slots
    <3>2. m \in Name
      BY LiveFacts DEF IInv
    <3> QED  BY <1>1, <1>4, <2>5, <2>7, <3>1, <3>2 DEF Upstream
  <2>8. \A m \in Name \ Live : slot'[m] = None
    BY <1>3, <2>5 DEF IInv, Slots
  <2> QED  BY <1>4, <2>5, <2>6, <2>7, <2>8 DEF Slots
<1>13. ProbesOK'
  BY <1>1, <1>4 DEF IInv, ProbesOK
<1>14. Pool'
  BY <1>1 DEF IInv, Pool
<1>15. Bundles'
  <2>1. Spares
    BY <1>6
  <2>2. \A k \in kids : k.sha \in Elems(disk'[k.name])
    BY <2>1, SparesKeeps
  <2>3. \A m \in Live : app.inst[m].lastGreen # None => app.inst[m].lastGreen \in Elems(disk'[m])
    BY <2>1, SparesKeeps
  <2>4. \A m \in Live : app.inst[m].pipe.at = "probing" => app.inst[m].pipe.sha \in Elems(disk'[m])
    BY <2>1, SparesKeeps
  <2>5. \A m \in Mail :
          m.ev.type = "BuildFinished" /\ m.ev.outcome = "green" /\ BuildOf(m.name, m.ev.gen) =>
            app.inst[m.name].pipe.sha \in Elems(disk'[m.name])
    BY <2>1, SparesKeeps
  <2> QED  BY <1>1, <1>4, <2>2, <2>3, <2>4, <2>5 DEF IInv, Bundles, OnDisk
<1>16. Booting'
  BY <1>4, <1>5, ElemsEmpty DEF Booting
<1>17. Pointer'
  <2> SUFFICES ASSUME NEW m \in Static PROVE Named(m)'
    BY DEF Pointer
  <2>1. m \in Name /\ Named(m)
    BY StaticAssumption DEF IInv, Pointer
  <2>2. CASE m = n
    BY <1>2, <1>3, <2>2 DEF Named
  <2>3. CASE m # n
    <3>1. disk'[m] = disk[m]
      BY <1>6, <2>1, <2>3
    <3> QED  BY <1>1, <1>2, <1>3, <1>4, <2>1, <2>3, <3>1 DEF Named, Untouched, OnDisk
  <2> QED  BY <2>2, <2>3
<1>18. Answered'
  <2>1. ASSUME NEW m, NEW g, Builds(m, g) PROVE Builds(m, g)'
    BY <1>1, <1>2, <1>3, <1>4, <2>1 DEF Builds
  <2>2. ASSUME NEW m, NEW g, Probes(m, g) PROVE Probes(m, g)'
    BY <1>1, <1>2, <1>3, <1>4, <2>2 DEF Probes, Spawns
  <2> QED  BY <1>4, <2>1, <2>2 DEF IInv, Answered
<1> QED  BY <1>7, <1>8, <1>9, <1>10, <1>11, <1>12, <1>13, <1>14, <1>15, <1>16, <1>17, <1>18
         DEF IInv

LEMMA PersistKeeps ==
  ASSUME IInv, Persist
  PROVE  IInv'
<1>1. /\ Executing /\ hand # None /\ hand.todo = <<>> /\ hand' = None
      /\ file' = IF hand.name \in Live THEN [file EXCEPT ![hand.name] = app.inst[hand.name].lastGreen]
                 ELSE file
      /\ kids' = kids /\ slot' = slot /\ ports' = ports /\ chan' = chan /\ builders' = builders
      /\ probes' = probes /\ stoppers' = stoppers /\ disk' = disk
  BY DEF Persist, threads, Executing
<1>2. Ahead = {} /\ Ahead' = {} /\ Todo' = <<>>
  BY <1>1, ElemsEmpty DEF Ahead, Todo
<1>3. /\ app' = app /\ agenda' = agenda /\ head' = head /\ registry' = registry
      /\ Live' = Live /\ Mail' = Mail
      /\ \A m, g : (Retired(m, g)' <=> Retired(m, g)) /\ (BuildOf(m, g)' <=> BuildOf(m, g))
      /\ \A g : Past(g)' <=> Past(g)
      /\ \A m, g : Booted(m, g)' <=> Booted(m, g)
      /\ \A m, sha : OnDisk(m, sha)' <=> OnDisk(m, sha)
  BY <1>1, ExecutingKeeps DEF Executing, Mail, Booted, OnDisk
<1>4. /\ file' \in [Name -> Sha \cup {None}]
      /\ \A m \in Name : file'[m] = IF m = hand.name /\ m \in Live THEN app.inst[m].lastGreen
                                    ELSE file[m]
  <2>1. file \in [Name -> Sha \cup {None}]
    BY DEF IInv, Types
  <2>2. CASE hand.name \in Live
    <3>1. hand.name \in Name /\ app.inst[hand.name].lastGreen \in Sha \cup {None}
      BY <2>2, LiveFacts DEF IInv
    <3> QED  BY <1>1, <2>1, <2>2, <3>1
  <2>3. CASE hand.name \notin Live
    BY <1>1, <2>1, <2>3
  <2> QED  BY <2>2, <2>3
<1>5. Types'
  BY <1>1, <1>3, <1>4 DEF IInv, Types
<1>6. Handed'
  BY <1>1, <1>2, <1>3 DEF IInv, Handed
<1>7. Ordering'
  BY <1>2 DEF Ordering, OneSpawn
<1>8. Draining'
  BY <1>1, <1>2, <1>3 DEF IInv, Draining
<1>9. Family'
  <2>1. ASSUME NEW m \in Live PROVE Matched(m)'
    <3>1. Matched(m)
      BY DEF IInv, Family
    <3>2. \A g : ~Killed(m, g)
      BY <1>2 DEF Killed
    <3> QED  BY <1>1, <1>3, <3>1, <3>2 DEF Matched
  <2> QED  BY <1>1, <1>3, <2>1 DEF IInv, Family, OneChild
<1>10. Slots'
  BY <1>1, <1>2, <1>3 DEF IInv, Slots, Upstream
<1>11. ProbesOK'
  BY <1>1, <1>3 DEF IInv, ProbesOK
<1>12. Pool'
  BY <1>1 DEF IInv, Pool
<1>13. Bundles'
  BY <1>1, <1>3 DEF IInv, Bundles
<1>14. Booting'
  BY <1>2, <1>3 DEF IInv, Booting
<1>15. Pointer'
  <2> SUFFICES ASSUME NEW m \in Static PROVE Named(m)'
    BY DEF Pointer
  <2>1. m \in Name /\ Named(m) /\ m \in Live
    BY StaticAssumption DEF IInv, Pointer, Types
  <2>2. CASE m = hand.name
    BY <1>3, <1>4, <2>1, <2>2 DEF Named
  <2>3. CASE m # hand.name
    BY <1>1, <1>3, <1>4, <2>1, <2>3 DEF Named, Untouched
  <2> QED  BY <2>2, <2>3
<1>16. Answered'
  BY <1>1, <1>2, <1>3 DEF IInv, Answered, Builds, Probes
<1> QED  BY <1>5, <1>6, <1>7, <1>8, <1>9, <1>10, <1>11, <1>12, <1>13, <1>14, <1>15, <1>16
         DEF IInv

\* The children stopped are forgotten, their ports given back.
LEMMA ForgottenPool ==
  ASSUME IInv, NEW T \in SUBSET kids, kids' = kids \ T, ports' = ReleaseAll(ports, T),
         \A x, y \in T : x.gen = y.gen => x = y
  PROVE  Pool' /\ kids' \in SUBSET Kid /\ IsFiniteSet(kids')
<1>1. Accounts(ports, kids) /\ kids \in SUBSET Kid /\ IsFiniteSet(kids)
  BY DEF IInv, Pool, Types
<1>2. \A k \in T : k.gen \in Nat /\ k.port \in Nat
  BY <1>1 DEF Kid
<1>3. Accounts(ReleaseAll(ports, T), kids \ T)
  BY <1>1, <1>2, ReleaseAllAccounts
<1>4. IsFiniteSet(kids \ T)
  BY <1>1, FS_Subset
<1> QED  BY <1>1, <1>3, <1>4 DEF Pool

\* Of one instance, a child is known by its generation.
LEMMA TrackedOne ==
  IInv => \A n, g : \A x, y \in Tracked(n, g) : x = y
BY DEF IInv, Family, OneChild, Tracked, KidsOf, ByGen

LEMMA KillStandbyKeeps ==
  ASSUME IInv, KillStandby
  PROVE  IInv'
<1> DEFINE o == Head(hand.todo)
           n == o.name
           T == Tracked(n, o.gen)
<1>1. /\ Executing /\ At({"KillStandby"}) /\ Done
      /\ kids' = kids \ T /\ Stop(T, FALSE) /\ ports' = ReleaseAll(ports, T)
      /\ slot' = slot /\ chan' = chan /\ builders' = builders /\ probes' = probes
      /\ disk' = disk /\ file' = file
  BY DEF KillStandby, durable, Executing
<1>2. /\ o \in Order /\ o.act \in {"KillStandby"} /\ Ahead = {o} \cup Ahead'
      /\ hand' \in [name : Name, todo : Seq(Order)] /\ hand' # None /\ hand # None
      /\ hand'.name = hand.name
      /\ OneSpawn(Todo) => OneSpawn(Todo')
  BY <1>1, Popped DEF IInv
<1> HIDE DEF o
<1>3. /\ n \in Name /\ o.gen \in Nat /\ o.act = "KillStandby" /\ n \in Live
      /\ Past(o.gen) /\ o.gen \notin InUse(app.inst[n]) /\ o.gen \notin app.inst[n].draining
  BY <1>2, OrderFacts DEF IInv, Ordering, Fitting, Draining, Retired, Handed
<1> HIDE DEF n
<1>4. /\ T \in SUBSET kids /\ \A k \in kids : k \in T <=> k.name = n /\ k.gen = o.gen
  BY DEF Tracked, KidsOf, ByGen
<1>5. \A x, y \in T : x.gen = y.gen => x = y
  BY TrackedOne
<1> HIDE DEF T
<1>6. Pool' /\ kids' \in SUBSET Kid /\ IsFiniteSet(kids')
  BY <1>1, <1>4, <1>5, ForgottenPool
<1>7. /\ app' = app /\ agenda' = agenda /\ head' = head /\ registry' = registry
      /\ Live' = Live /\ Mail' = Mail
      /\ \A m, g : (Retired(m, g)' <=> Retired(m, g)) /\ (BuildOf(m, g)' <=> BuildOf(m, g))
      /\ \A g : Past(g)' <=> Past(g)
      /\ \A m, sha : OnDisk(m, sha)' <=> OnDisk(m, sha)
  BY <1>1, ExecutingKeeps DEF Executing, Mail, OnDisk
<1>8. \A k \in kids : ~(k.name = n /\ k.gen = o.gen) => k \in kids'
  BY <1>1, <1>4
<1>9. \A t \in stoppers' : t \in stoppers \/ \E k \in kids :
                                               t = [name |-> k.name, gen |-> k.gen, drain |-> FALSE]
  BY <1>1, <1>4 DEF Stop
<1>10. kids' \subseteq kids
  BY <1>1
<1>11. ASSUME NEW t \in stoppers', t \notin stoppers
       PROVE  /\ t \in [name : Name, gen : Nat, drain : BOOLEAN] /\ Past(t.gen) /\ ~t.drain
  <2>1. PICK k \in kids : t = [name |-> k.name, gen |-> k.gen, drain |-> FALSE]
    BY <1>9, <1>11
  <2>2. k.name \in Name /\ k.gen \in Nat /\ Past(k.gen)
    BY DEF IInv, Types, Kid, Handed
  <2>3. t.name = k.name /\ t.gen = k.gen /\ t.drain = FALSE
    BY <2>1
  <2>4. t \in [name : Name, gen : Nat, drain : BOOLEAN]
    BY <2>1, <2>2
  <2> QED  BY <2>2, <2>3, <2>4
<1>12. Types'
  <2>1. stoppers \in SUBSET [name : Name, gen : Nat, drain : BOOLEAN]
    BY DEF IInv, Types
  <2>2. stoppers' \in SUBSET [name : Name, gen : Nat, drain : BOOLEAN]
    BY <1>11, <2>1
  <2> QED  BY <1>1, <1>2, <1>6, <1>7, <2>2 DEF IInv, Types
<1>13. Handed'
  BY <1>1, <1>2, <1>7, <1>10, <1>11 DEF IInv, Handed
<1>14. Ordering'
  BY <1>1, <1>2, <1>7, <1>10 DEF IInv, Ordering, Fitting, Tracked, KidsOf, ByGen
<1>15. Draining'
  BY <1>1, <1>2, <1>7, <1>11 DEF IInv, Draining
<1>16. \A g : g \in HeldGens(app.inst[n]) \cup BusyGen(app.inst[n]) => g # o.gen
  BY <1>3 DEF HeldGens, InUse
<1>17. Family'
  <2>1. ASSUME NEW m \in Live PROVE Matched(m)'
    <3>1. Matched(m)
      BY DEF IInv, Family
    <3>2. \A g : Killed(m, g) => Killed(m, g)' \/ (m = n /\ g = o.gen)
      BY <1>2 DEF Killed, n
    <3>3. \A k \in kids' : k.name = m => k.gen \in HeldGens(app.inst[m]) \cup BootGen(app.inst[m])
                                         \/ Killed(m, k.gen)'
      BY <1>1, <1>4, <3>1, <3>2 DEF Matched
    <3>4. \A g \in HeldGens(app.inst[m]) : \E k \in kids' : k.name = m /\ k.gen = g
      BY <1>8, <1>16, <3>1 DEF Matched
    <3>5. app.inst[m].serving # None =>
            /\ app.inst[m].serving.gen \in HeldGens(app.inst[m])
            /\ \E k \in kids : /\ k.name = m /\ k.gen = app.inst[m].serving.gen
                               /\ k.sha = app.inst[m].serving.sha
      BY <3>1 DEF Matched, HeldGens, ServingGen
    <3>6. app.inst[m].serving # None =>
            \E k \in kids' : /\ k.name = m /\ k.gen = app.inst[m].serving.gen
                             /\ k.sha = app.inst[m].serving.sha
      BY <1>8, <1>16, <3>5
    <3> QED  BY <1>7, <3>1, <3>3, <3>4, <3>6 DEF Matched
  <2> QED  BY <1>7, <1>10, <2>1 DEF IInv, Family, OneChild
<1>18. Slots'
  <2>1. ASSUME NEW m \in Live, Upstream(m) PROVE Upstream(m)'
    <3>1. app.inst[m].serving # None => app.inst[m].serving.gen \in HeldGens(app.inst[m])
      BY DEF HeldGens, ServingGen
    <3> QED  BY <1>1, <1>7, <1>8, <1>16, <2>1, <3>1 DEF Upstream
  <2> QED  BY <1>1, <1>2, <1>3, <1>7, <2>1 DEF IInv, Slots
<1>19. \A m, g : Booted(m, g) => Booted(m, g)'
  BY <1>7, <1>8, <1>16 DEF Booted
<1>20. ProbesOK'
  BY <1>1, <1>7, <1>19 DEF IInv, ProbesOK
<1>21. Bundles'
  BY <1>1, <1>7, <1>10 DEF IInv, Bundles
<1>22. Booting'
  BY <1>2, <1>7 DEF IInv, Booting
<1>23. Pointer'
  BY <1>1, <1>2, <1>7 DEF IInv, Pointer, Named, Untouched
<1>24. Answered'
  <2>1. ASSUME NEW m, NEW g, Builds(m, g) PROVE Builds(m, g)'
    BY <1>1, <1>2, <1>3, <1>7, <2>1 DEF Builds
  <2>2. ASSUME NEW m, NEW g, Probes(m, g) PROVE Probes(m, g)'
    BY <1>1, <1>2, <1>3, <1>7, <2>2 DEF Probes, Spawns
  <2> QED  BY <1>7, <2>1, <2>2 DEF IInv, Answered
<1> QED  BY <1>6, <1>12, <1>13, <1>14, <1>15, <1>17, <1>18, <1>20, <1>21, <1>22, <1>23, <1>24
         DEF IInv

-----------------------------------------------------------------------------
(* The control thread starts a drive.                                      *)

\* The policy went from app to t, and its orders are in hand.
Driven(n, ev, t) ==
  /\ Sound(app', {}, AnySha) /\ app'.out = <<>> /\ app'.inst = t.inst /\ app'.gen = t.gen
  /\ hand' \in [name : Name, todo : Seq(Order)] /\ hand' # None /\ hand'.name = n
  /\ Todo' = t.out /\ Ahead' = Orders(t)
  /\ Live' = Live /\ app.gen \in Nat /\ t.gen \in Nat /\ app.gen <= t.gen
  /\ n \in Live => Effect(app, t, n, ev)
  /\ n \notin Live => t.inst = app.inst /\ t.gen = app.gen /\ t.out = <<>>

LEMMA LiveApart ==
  IInv /\ hand = None =>
    \A n \in Live : Apart(app.inst[n], app.gen)
<1> SUFFICES ASSUME IInv, hand = None, NEW n \in Live PROVE Apart(app.inst[n], app.gen)
  OBVIOUS
<1>1. Matched(n) /\ \A k \in kids : k.gen < app.gen
  BY DEF IInv, Family, Handed, Past
<1>2. \A g \in HeldGens(app.inst[n]) : g < app.gen
  BY <1>1 DEF Matched
<1> QED  BY <1>1, <1>2 DEF Apart, Matched

LEMMA EffectReset ==
  ASSUME NEW s, NEW r, r.inst = s.inst, r.gen = s.gen, NEW t, NEW n, NEW ev, Effect(r, t, n, ev)
  PROVE  Effect(s, t, n, ev)
<1>1. \A m : Moves(r, t, m, n, ev) <=> Moves(s, t, m, n, ev)
  BY DEF Moves
<1>2. \A o : Timely(r, ev, o) <=> Timely(s, ev, o)
  BY DEF Timely
<1>3. Announced(r, t, n, ev) <=> Announced(s, t, n, ev)
  BY DEF Announced
<1> QED  BY <1>1, <1>2, <1>3 DEF Effect

LEMMA DriveIs ==
  ASSUME IInv, hand = None, NEW n \in Name, NEW ev \in Posted \cup Recovery, Drive(n, ev)
  PROVE  Driven(n, ev, StepApp(app, n, ev))
<1> DEFINE t == StepApp(app, n, ev)
           r == Reset(app)
<1>1. app' = Reset(t) /\ hand' = [name |-> n, todo |-> t.out]
  BY DEF Drive, Reset
<1>2. Sound(app, {}, AnySha)
  BY DEF IInv, Types
<1>3. n \in Live => Apart(app.inst[n], app.gen)
  BY LiveApart
<1>4. /\ Sound(t, {}, AnySha)
      /\ n \in Live => Effect(r, t, n, ev)
      /\ n \notin Live => t = r
  BY <1>2, <1>3, StepEffect DEF Live
<1>5. r.inst = app.inst /\ r.gen = app.gen /\ r = [inst |-> app.inst, queue |-> app.queue,
        building |-> app.building, gen |-> app.gen, out |-> <<>>]
  BY <1>2, ResetFacts
<1>6. r.out = <<>>
  <2> HIDE DEF r
  <2> QED  BY <1>5
<1> HIDE DEF r, t
<1>7. n \in Live => Effect(app, t, n, ev)
  BY <1>4, <1>5, EffectReset
<1>8. /\ Sound(Reset(t), {}, AnySha) /\ Reset(t).inst = t.inst /\ Reset(t).gen = t.gen
      /\ Reset(t) = [inst |-> t.inst, queue |-> t.queue, building |-> t.building,
                     gen |-> t.gen, out |-> <<>>]
      /\ t.out \in Seq(Order) /\ t.gen \in Nat /\ app.gen \in Nat
  BY <1>2, <1>4, ResetFacts, SoundFields
<1>9. app'.out = <<>>
  <2> DEFINE q == Reset(t)
  <2>1. q.out = <<>>
    <3> HIDE DEF q
    <3>1. q = [inst |-> t.inst, queue |-> t.queue, building |-> t.building,
               gen |-> t.gen, out |-> <<>>]
      BY <1>8 DEF q
    <3> QED  BY <3>1
  <2> QED  BY <1>1, <2>1
<1>10. hand' \in [name : Name, todo : Seq(Order)] /\ hand'.name = n /\ hand'.todo = t.out
  BY <1>1, <1>8
<1>11. hand' # None
  BY <1>10, HandAssumption
<1>12. Todo' = t.out /\ Ahead' = Orders(t)
  BY <1>10, <1>11 DEF Todo, Ahead, Elems, Orders
<1>13. Live' = Live /\ app.gen <= t.gen
  BY <1>1, <1>4, <1>5, <1>7, <1>8 DEF Live, Effect
<1> QED  BY <1>1, <1>4, <1>5, <1>6, <1>7, <1>8, <1>9, <1>10, <1>11, <1>12, <1>13 DEF Driven, t

\* What the drive of n did to the instance m.
Turned(m, n, ev) ==
  LET i == app.inst[m]
      j == app'.inst[m]
      p == j.pipe
      Asks(act) == [act |-> act, name |-> m, sha |-> p.sha, gen |-> p.gen] \in Ahead'
  IN /\ m # n => SameChildren(i, j)
     /\ m = n => Heeds(i, j, ev)
     /\ Busy(i.pipe) => p = i.pipe \/ (m = n /\ Answers(i.pipe, ev))
     /\ \/ p = i.pipe /\ (m = n => ~Answers(i.pipe, ev))
        \/ p.at \in {"idle", "queued"}
        \/ p.at = "building" /\ app.gen <= p.gen /\ Asks("StartBuild")
        \/ /\ m = n /\ Answers(i.pipe, ev) /\ ev.type = "BuildFinished" /\ ev.outcome = "green"
           /\ p.at = "probing" /\ p.sha = i.pipe.sha /\ p.gen = i.pipe.gen
           /\ Asks("SpawnAndProbe")
        \/ m = n /\ p.at = "probing" /\ p.sha = j.lastGreen /\ app.gen <= p.gen /\ Asks("Respawn")

LEMMA TurnedIs ==
  ASSUME NEW n, NEW ev, NEW t, Driven(n, ev, t), NEW m \in Live
  PROVE  Turned(m, n, ev) /\ (m # n => app'.inst[m] = app.inst[m] \/ app.inst[m].pipe.at = "queued")
<1>1. app'.inst = t.inst /\ Ahead' = Orders(t)
  BY DEF Driven
<1>2. CASE n \in Live
  <2>1. /\ Moves(app, t, m, n, ev)
        /\ m # n => /\ SameChildren(app.inst[m], t.inst[m])
                    /\ t.inst[m] = app.inst[m] \/ app.inst[m].pipe.at = "queued"
        /\ Heeds(app.inst[n], t.inst[n], ev)
    BY <1>2 DEF Driven, Effect, Live
  <2> QED  BY <1>1, <2>1 DEF Turned, Moves
<1>3. CASE n \notin Live
  <2>1. app'.inst[m] = app.inst[m] /\ m # n
    BY <1>1, <1>3 DEF Driven
  <2> QED  BY <2>1 DEF Turned, SameChildren
<1> QED  BY <1>2, <1>3

LEMMA TurnedGens ==
  ASSUME Types, NEW n, NEW ev, NEW t, Driven(n, ev, t), NEW m \in Live
  PROVE  LET i == app.inst[m]
             j == app'.inst[m]
         IN /\ \A g \in BusyGen(j) : app.gen <= g \/ (g \in BusyGen(i) /\ (j.pipe = i.pipe \/ i.pipe.at = "building"))
            /\ \A g \in InUse(j) : app.gen <= g \/ g \in InUse(i)
            /\ \A g \in BusyGen(j) \cup HeldGens(j) \cup HeldGens(i) \cup BusyGen(i) : g \in Nat
<1> DEFINE i == app.inst[m]
           j == app'.inst[m]
           p == j.pipe
<1>1. Turned(m, n, ev)
  BY TurnedIs
<1>2. /\ m # n => SameChildren(i, j)
      /\ m = n => Heeds(i, j, ev)
      /\ \/ p = i.pipe
         \/ p.at \in {"idle", "queued"}
         \/ p.at = "building" /\ app.gen <= p.gen
         \/ /\ Answers(i.pipe, ev) /\ ev.type = "BuildFinished"
            /\ p.at = "probing" /\ p.gen = i.pipe.gen
         \/ p.at = "probing" /\ app.gen <= p.gen
  BY <1>1 DEF Turned
<1>3. i \in Instance /\ j \in Instance
  <2>1. Sound(app, {}, AnySha)
    BY DEF Types
  <2>2. Sound(app', {}, AnySha) /\ m \in DOMAIN app'.inst
    BY DEF Driven, Live
  <2>3. i \in Instance
    BY <2>1, InstanceFacts DEF Live
  <2> QED  BY <2>2, <2>3, InstanceFacts
<1> HIDE DEF i, j
<1>4. \A x \in Instance : \A g \in BusyGen(x) \cup HeldGens(x) : g \in Nat
  <2> SUFFICES ASSUME NEW x \in Instance PROVE \A g \in BusyGen(x) \cup HeldGens(x) : g \in Nat
    OBVIOUS
  <2>1. x.pipe \in Pipeline /\ x.serving \in Child \cup {None} /\ x.draining \in SUBSET Nat
    BY DEF Instance
  <2>2. \A g \in BusyGen(x) : g \in Nat
    BY <2>1, PipeFacts DEF BusyGen
  <2>3. \A g \in HeldGens(x) : g \in Nat
    BY <2>1 DEF HeldGens, ServingGen, Child
  <2> QED  BY <2>2, <2>3
<1>5. \A g \in BusyGen(j) :
        app.gen <= g \/ (g \in BusyGen(i) /\ (j.pipe = i.pipe \/ i.pipe.at = "building"))
  <2>1. CASE p = i.pipe
    BY <2>1 DEF BusyGen
  <2>2. CASE p.at \in {"idle", "queued"}
    BY <2>2 DEF BusyGen
  <2>3. CASE (p.at = "building" /\ app.gen <= p.gen) \/ (p.at = "probing" /\ app.gen <= p.gen)
    BY <2>3 DEF BusyGen
  <2>4. CASE /\ Answers(i.pipe, ev) /\ ev.type = "BuildFinished"
             /\ p.at = "probing" /\ p.gen = i.pipe.gen
    BY <2>4 DEF BusyGen, Answers
  <2> QED  BY <1>2, <2>1, <2>2, <2>3, <2>4
<1>6. \A g \in ServingGen(j) : g \in InUse(i)
  <2>1. CASE j.serving = i.serving
    BY <2>1 DEF ServingGen, InUse
  <2>2. CASE m = n /\ Promotes(i.pipe, ev)
    <3>1. j.serving = [sha |-> i.pipe.sha, gen |-> i.pipe.gen]
      BY <1>2, <2>2 DEF Heeds
    <3>2. j.serving.gen = i.pipe.gen /\ i.pipe.at = "probing"
      BY <2>2, <3>1 DEF Promotes, Answers
    <3> QED  BY <3>2 DEF ServingGen, InUse, BusyGen
  <2> QED  BY <1>2, <2>1, <2>2 DEF Heeds, SameChildren
<1>7. \A g \in InUse(j) : app.gen <= g \/ g \in InUse(i)
  BY <1>5, <1>6 DEF InUse
<1> QED  BY <1>3, <1>4, <1>5, <1>7 DEF i, j

\* A generation out of use stays so.
LEMMA RetiredStays ==
  ASSUME Types, NEW n, NEW ev, NEW t, Driven(n, ev, t), NEW m, NEW g \in Nat, Past(g), Retired(m, g)
  PROVE  Retired(m, g)' /\ Past(g)'
<1>1. Live' = Live /\ app.gen \in Nat /\ app'.gen \in Nat /\ app.gen <= app'.gen
  BY DEF Driven
<1>2. Past(g)'
  BY <1>1 DEF Past
<1>3. ASSUME m \in Live PROVE g \notin InUse(app'.inst[m])
  <2>1. g \notin InUse(app.inst[m]) /\ g < app.gen
    BY <1>3 DEF Retired, Past
  <2> HIDE DEF Retired
  <2>2. \A x \in InUse(app'.inst[m]) : app.gen <= x \/ x \in InUse(app.inst[m])
    BY <1>3, TurnedGens
  <2> QED  BY <1>1, <2>1, <2>2
<1> QED  BY <1>1, <1>2, <1>3 DEF Retired

\* What the control thread does besides: it forgets the child that drained, and
\* may prune.
Gone(n, ev) == IF ev.type = "DrainComplete" THEN Tracked(n, ev.gen) ELSE {}
Fed(n, ev) ==
  /\ hand = None /\ n \in Name /\ ev \in Posted \cup Recovery
  /\ Message(n, ev) \in Mail \/ ev.type \in {"HeadAdvanced", "RecoverFromPointer"}
  /\ ev.type = "RecoverFromPointer" => ev.sha \in Elems(disk'[n])
  /\ kids' = kids \ Gone(n, ev) /\ Pool' /\ kids' \in SUBSET Kid /\ IsFiniteSet(kids')
  /\ Spares
  /\ chan' \in Seq(Letter) /\ Mail' \subseteq Mail /\ Mail \subseteq Mail' \cup {Message(n, ev)}
  /\ agenda' \in Seq(Task)
  /\ \A x \in Elems(agenda') : x.name \in Live /\ (x.ev # Resolve => x.ev.sha \in Elems(disk'[x.name]))
  /\ \A x \in Elems(agenda) : x.name # n => x \in Elems(agenda')
  /\ agenda' # <<>> => ev.type \in {"HeadAdvanced", "RecoverFromPointer"}
  /\ UNCHANGED <<slot, threads, head, file, registry>>

\* The message tells what is so.
LEMMA FedFacts ==
  ASSUME IInv, NEW n, NEW ev, Fed(n, ev)
  PROVE  /\ ev.type \in {"BuildFinished", "ProbeSucceeded", "ProbeFailed", "DrainComplete"} =>
              Message(n, ev) \in Mail /\ ev.gen \in Nat /\ Past(ev.gen)
         /\ ev.type = "DrainComplete" => Retired(n, ev.gen)
         /\ ev.type = "ProbeSucceeded" => Booted(n, ev.gen)
         /\ kids' \subseteq kids
         /\ \A k \in kids : k \in kids' \/ (k.name = n /\ k.gen = ev.gen /\ ev.type = "DrainComplete")
<1> DEFINE x == Message(n, ev)
<1>1. x.name = n /\ x.ev = ev
  BY DEF Message
<1>2. x \in Mail \/ ev.type \in {"HeadAdvanced", "RecoverFromPointer"}
  BY DEF Fed
<1> HIDE DEF x
<1>3. Mail \subseteq Letter
  BY Sets DEF IInv
<1>4. x \in Mail /\ ev.type # "HeadAdvanced" => ev.gen \in Nat
  BY <1>1, <1>3, LetterFacts
<1>5. x \in Mail => /\ ev.type # "HeadAdvanced" => Past(ev.gen)
                    /\ ev.type = "DrainComplete" => Retired(n, ev.gen)
                    /\ ev.type = "ProbeSucceeded" => Booted(n, ev.gen)
  BY <1>1 DEF IInv, Handed, Draining, ProbesOK
<1>6. kids' = kids \ Gone(n, ev)
  BY DEF Fed
<1>7. \A k \in Gone(n, ev) : k.name = n /\ k.gen = ev.gen /\ ev.type = "DrainComplete"
  BY DEF Gone, Tracked, KidsOf, ByGen
<1>8. \A k \in kids : k \in kids' \/ (k.name = n /\ k.gen = ev.gen /\ ev.type = "DrainComplete")
  BY <1>6, <1>7
<1> QED  BY <1>2, <1>4, <1>5, <1>6, <1>8 DEF x

LEMMA FedTypes ==
  ASSUME IInv, NEW n, NEW ev, Fed(n, ev), NEW t, Driven(n, ev, t)
  PROVE  Types' /\ Handed' /\ Draining'
<1>1. /\ Live' = Live /\ Sound(app', {}, AnySha) /\ app'.out = <<>>
      /\ hand' \in [name : Name, todo : Seq(Order)]
      /\ app.gen \in Nat /\ app'.gen \in Nat /\ app.gen <= app'.gen
      /\ Ahead' = Orders(t)
  BY DEF Driven
<1>2. /\ builders' = builders /\ probes' = probes /\ stoppers' = stoppers
      /\ head' = head /\ file' = file /\ registry' = registry /\ slot' = slot
      /\ chan' \in Seq(Letter) /\ agenda' \in Seq(Task) /\ Mail' \subseteq Mail
      /\ kids' \in SUBSET Kid /\ IsFiniteSet(kids') /\ disk' \in [Name -> Seq(Sha)]
  BY DEF Fed, threads, Spares
<1>3. kids' \subseteq kids
  BY FedFacts
<1>4. Types
  BY DEF IInv
<1>5. Types'
  <2>1. AnySha' = AnySha
    BY DEF AnySha
  <2> QED  BY <1>1, <1>2, <1>4, <2>1 DEF Types
<1>6. \A g \in Nat : Past(g) => Past(g)'
  BY <1>1 DEF Past
<1>7. Mail \subseteq Letter
  BY <1>4, Sets
<1>8. \A m \in Mail : m.ev.type # "HeadAdvanced" => m.ev.gen \in Nat
  BY <1>7, LetterFacts
<1>9. \A o \in Ahead' : Apt(t, n, o)
  <2>1. CASE n \in Live
    BY <1>1, <2>1 DEF Driven, Effect
  <2>2. CASE n \notin Live
    BY <1>1, <2>2 DEF Driven, Orders
  <2> QED  BY <2>1, <2>2
<1>10. app'.inst = t.inst /\ app'.gen = t.gen
  BY DEF Driven
<1>11. Handed'
  <2>1. \A x \in builders' : Past(x.gen)'
    BY <1>2, <1>4, <1>6 DEF Types, IInv, Handed
  <2>2. \A x \in probes' : Past(x.gen)'
    BY <1>2, <1>4, <1>6 DEF Types, IInv, Handed
  <2>3. \A x \in stoppers' : Past(x.gen)'
    BY <1>2, <1>4, <1>6 DEF Types, IInv, Handed
  <2>4. \A x \in kids' : Past(x.gen)'
    BY <1>3, <1>4, <1>6 DEF Types, Kid, IInv, Handed
  <2>5. \A m \in Mail' : m.ev.type # "HeadAdvanced" => Past(m.ev.gen)'
    BY <1>2, <1>6, <1>8 DEF IInv, Handed
  <2>6. \A o \in Ahead' : o.act # "RecordRed" => Past(o.gen)'
    BY <1>9, <1>10 DEF Apt, Past
  <2> QED  BY <2>1, <2>2, <2>3, <2>4, <2>5, <2>6 DEF Handed
<1>12. Draining'
  <2>1. ASSUME NEW x \in stoppers', x.drain PROVE Retired(x.name, x.gen)'
    <3>1. x.gen \in Nat /\ Past(x.gen) /\ Retired(x.name, x.gen)
      BY <1>2, <1>4, <2>1 DEF Types, IInv, Handed, Draining
    <3> QED  BY <1>4, <3>1, RetiredStays
  <2>2. ASSUME NEW m \in Mail', m.ev.type = "DrainComplete" PROVE Retired(m.name, m.ev.gen)'
    <3>1. m \in Mail /\ m.ev.gen \in Nat
      BY <1>2, <1>8, <2>2
    <3>2. Past(m.ev.gen) /\ Retired(m.name, m.ev.gen)
      BY <2>2, <3>1 DEF IInv, Handed, Draining
    <3> QED  BY <1>4, <3>1, <3>2, RetiredStays
  <2>3. ASSUME NEW o \in Ahead'
        PROVE  /\ o.act \in {"StartDrain", "KillStandby"} => Retired(o.name, o.gen)'
               /\ o.act = "KillStandby" => o.gen \notin app'.inst[o.name].draining
    BY <1>9, <1>10 DEF Apt, Retired
  <2> QED  BY <2>1, <2>2, <2>3 DEF Draining
<1> QED  BY <1>5, <1>11, <1>12

LEMMA FedOrdering ==
  ASSUME IInv, NEW n, NEW ev, Fed(n, ev), NEW t, Driven(n, ev, t)
  PROVE  Ordering' /\ (\A o \in Ahead' : o.act = "Promote" => ev.type = "ProbeSucceeded")
<1>1. /\ Live' = Live /\ Ahead' = Orders(t) /\ Todo' = t.out /\ hand'.name = n
      /\ app'.inst = t.inst /\ app'.gen = t.gen
  BY DEF Driven
<1>2. CASE n \notin Live
  <2>1. Ahead' = {} /\ Todo' = <<>>
    BY <1>1, <1>2, ElemsEmpty DEF Driven, Orders, Elems
  <2> QED  BY <2>1 DEF Ordering, OneSpawn
<1>3. CASE n \in Live
  <2>1. /\ OneSpawn(t.out) /\ DOMAIN t.inst = Live
        /\ \A o \in Ahead' : Apt(t, n, o) /\ Timely(app, ev, o)
    BY <1>1, <1>3 DEF Driven, Effect, Live
  <2>2. ASSUME NEW o \in Ahead', o.act \in Spawns
        PROVE  \A k \in kids : ~(k.name = o.name /\ k.gen = o.gen)
    <3>1. o.name \in Live
      BY <2>1 DEF Apt
    <3>2. \/ app.gen <= o.gen
          \/ app.inst[o.name].pipe.at = "building" /\ app.inst[o.name].pipe.gen = o.gen
      BY <2>1, <2>2 DEF Timely
    <3>3. ASSUME NEW k \in kids, k.name = o.name, k.gen = o.gen PROVE FALSE
      <4>1. k.gen \in Nat /\ k.gen < app.gen /\ app.gen \in Nat
        BY LiveFacts, <3>1 DEF IInv, Types, Kid, Handed, Past
      <4>2. app.inst[o.name].pipe.at = "building" /\ app.inst[o.name].pipe.gen = o.gen
        BY <3>2, <3>3, <4>1
      <4>3. Matched(o.name) /\ \A g : ~Killed(o.name, g)
        BY <3>1 DEF IInv, Family, Fed, Killed, Ahead, Todo, Elems
      <4>4. k.gen \in HeldGens(app.inst[o.name]) \cup BootGen(app.inst[o.name])
        BY <3>3, <4>3 DEF Matched
      <4>5. o.gen \in BusyGen(app.inst[o.name]) /\ BootGen(app.inst[o.name]) = {}
        BY <4>2 DEF BusyGen, BootGen
      <4> QED  BY <3>3, <4>3, <4>4, <4>5 DEF Matched
    <3> QED  BY <3>3
  <2>3. kids' \subseteq kids
    BY FedFacts
  <2>4. ASSUME NEW o \in Ahead' PROVE Fitting(o)'
    <3>1. Apt(t, n, o) /\ o.name \in Live
      BY <2>1 DEF Apt
    <3>2. o.act \in Spawns => \A k \in kids' : ~(k.name = o.name /\ k.gen = o.gen)
      BY <2>2, <2>3
    <3>3. o.act \in Spawns => Tracked(o.name, o.gen)' = {}
      BY <3>2 DEF Tracked, KidsOf, ByGen
    <3> QED  BY <1>1, <3>1, <3>3 DEF Fitting, Apt
  <2>5. \A o \in Ahead' : o.act = "Promote" => ev.type = "ProbeSucceeded"
    BY <2>1 DEF Timely
  <2> QED  BY <1>1, <2>1, <2>4, <2>5 DEF Ordering
<1> QED  BY <1>2, <1>3

\* Between two drives no child is about to be killed.
LEMMA RestFacts ==
  IInv /\ hand = None =>
    \A m \in Live : /\ Upstream(m)
                    /\ \A k \in kids : k.name = m =>
                         k.gen \in HeldGens(app.inst[m]) \cup BootGen(app.inst[m])
                    /\ \A g \in HeldGens(app.inst[m]) : g \in Nat /\ g < app.gen
                    /\ app.inst[m].draining \subseteq HeldGens(app.inst[m])
<1> SUFFICES ASSUME IInv, hand = None, NEW m \in Live
             PROVE  /\ Upstream(m)
                    /\ \A k \in kids : k.name = m =>
                         k.gen \in HeldGens(app.inst[m]) \cup BootGen(app.inst[m])
                    /\ \A g \in HeldGens(app.inst[m]) : g \in Nat /\ g < app.gen
                    /\ app.inst[m].draining \subseteq HeldGens(app.inst[m])
  OBVIOUS
<1>1. Ahead = {}
  BY ElemsEmpty DEF Ahead, Todo
<1>2. Upstream(m)
  BY <1>1 DEF IInv, Slots
<1>3. Matched(m) /\ \A k \in kids : k.gen \in Nat /\ k.gen < app.gen
  BY DEF IInv, Family, Types, Kid, Handed, Past
<1>4. \A g : ~Killed(m, g)
  BY <1>1 DEF Killed
<1> QED  BY <1>2, <1>3, <1>4 DEF Matched, HeldGens

\* Of the instance in hand.
LEMMA FedMatchedSelf ==
  ASSUME IInv, NEW n \in Live, NEW ev, Fed(n, ev), NEW t, Driven(n, ev, t)
  PROVE  Matched(n)'
<1> DEFINE i == app.inst[n]
           j == app'.inst[n]
<1>1. Turned(n, n, ev) /\ Effect(app, t, n, ev) /\ Ahead' = Orders(t)
  BY TurnedIs DEF Driven
<1>2. Heeds(i, j, ev)
  BY <1>1 DEF Turned
<1>3. /\ \A g \in HeldGens(i) : \E k \in kids : k.name = n /\ k.gen = g
      /\ BusyGen(i) \cap HeldGens(i) = {}
      /\ i.serving # None =>
           \E k \in kids : k.name = n /\ k.gen = i.serving.gen /\ k.sha = i.serving.sha
  BY DEF IInv, Family, Matched
<1>4. /\ \A k \in kids : k.name = n => k.gen \in HeldGens(i) \cup BootGen(i)
      /\ \A g \in HeldGens(i) : g \in Nat /\ g < app.gen
  BY RestFacts DEF Fed
<1>5. /\ \A g \in BusyGen(j) :
           app.gen <= g \/ (g \in BusyGen(i) /\ (j.pipe = i.pipe \/ i.pipe.at = "building"))
      /\ \A g \in BusyGen(j) \cup HeldGens(j) \cup HeldGens(i) \cup BusyGen(i) : g \in Nat
  BY TurnedGens DEF IInv
<1>6. /\ ev.type = "DrainComplete" => Retired(n, ev.gen)
      /\ ev.type = "ProbeSucceeded" => Booted(n, ev.gen)
      /\ kids' \subseteq kids
      /\ \A k \in kids : k \in kids' \/ (k.name = n /\ k.gen = ev.gen /\ ev.type = "DrainComplete")
  BY FedFacts
<1>7. app.gen \in Nat /\ \A g \in BusyGen(i) : g < app.gen
  BY LiveFacts DEF IInv, Past
<1>8. CASE Promotes(i.pipe, ev)
  <2> DEFINE g == i.pipe.gen
  <2>1. /\ i.pipe.at = "probing" /\ ev.gen = g /\ ev.type = "ProbeSucceeded" /\ Answers(i.pipe, ev)
    BY <1>8 DEF Promotes, Answers
  <2>2. /\ j.serving = [sha |-> i.pipe.sha, gen |-> g]
        /\ j.draining = i.draining \cup ServingGen(i)
    BY <1>2, <1>8 DEF Heeds
  <2>3. j.serving.gen = g /\ j.serving.sha = i.pipe.sha /\ j.serving # None
    <3>1. i.pipe.sha \in Sha /\ g \in Nat
      BY <2>1, LiveFacts, PipeFacts DEF IInv
    <3>2. j.serving \in Child
      BY <2>2, <3>1 DEF Child
    <3> QED  BY <2>2, <3>2, NoneAssumption
  <2>4. HeldGens(j) = HeldGens(i) \cup {g} /\ g \in BusyGen(i) /\ BootGen(i) = {g}
    BY <2>1, <2>2, <2>3 DEF HeldGens, ServingGen, BusyGen, BootGen
  <2>5. PICK c \in kids : c.name = n /\ c.gen = g /\ c.sha = i.pipe.sha
    BY <1>6, <2>1, <2>4 DEF Booted
  <2>6. kids' = kids
    BY <2>1 DEF Fed, Gone
  <2>7. j.pipe # i.pipe
    <3>1. ~(j.pipe = i.pipe /\ ~Answers(i.pipe, ev))
      BY <2>1
    <3>2. CASE j.pipe.at \in {"idle", "queued", "building"}
      BY <2>1, <3>2
    <3>3. CASE j.pipe.at = "probing" /\ app.gen <= j.pipe.gen
      <4>1. g \in Nat /\ g < app.gen /\ app.gen \in Nat
        BY <1>5, <1>7, <2>4
      <4>2. j.pipe.gen # g
        <5> DEFINE x == j.pipe.gen
        <5>1. app.gen <= x
          BY <3>3
        <5> HIDE DEF x, g
        <5>2. x # g
          BY <4>1, <5>1
        <5> QED  BY <5>2 DEF x
      <4> QED  BY <4>2
    <3> QED  BY <1>1, <2>1, <3>1, <3>2, <3>3 DEF Turned
  <2>8. \A x \in BusyGen(j) : app.gen <= x
    BY <1>5, <2>1, <2>7
  <2>9. BusyGen(j) \cap HeldGens(j) = {}
    BY <1>4, <1>5, <1>7, <2>4, <2>8
  <2>10. \A x \in HeldGens(j) : \E k \in kids' : k.name = n /\ k.gen = x
    BY <1>3, <2>4, <2>5, <2>6
  <2>11. \A k \in kids' : k.name = n => k.gen \in HeldGens(j)
    BY <1>4, <2>4, <2>6
  <2> QED  BY <2>3, <2>5, <2>6, <2>9, <2>10, <2>11 DEF Matched
<1>9. CASE ~Promotes(i.pipe, ev)
  <2>1. /\ j.serving = i.serving
        /\ j.draining = IF ev.type = "DrainComplete" THEN i.draining \ {ev.gen} ELSE i.draining
    BY <1>2, <1>9 DEF Heeds
  <2>2. ServingGen(j) = ServingGen(i) /\ HeldGens(j) \subseteq HeldGens(i)
    BY <2>1 DEF ServingGen, HeldGens
  <2>3. \A g \in HeldGens(i) : g \in HeldGens(j) \/ (g = ev.gen /\ ev.type = "DrainComplete")
    BY <2>1, <2>2 DEF HeldGens
  <2>4. ev.type = "DrainComplete" => ev.gen \notin ServingGen(i) /\ ev.gen \notin BusyGen(i)
                                     /\ ev.gen \notin HeldGens(j)
    BY <1>6, <2>1, <2>2 DEF Retired, InUse, HeldGens
  <2>5. \A g \in HeldGens(j) : \E k \in kids' : k.name = n /\ k.gen = g
    BY <1>3, <1>6, <2>2, <2>4
  <2>6. j.serving # None =>
          \E k \in kids' : k.name = n /\ k.gen = j.serving.gen /\ k.sha = j.serving.sha
    <3>1. i.serving # None => i.serving.gen \in ServingGen(i)
      BY DEF ServingGen
    <3> QED  BY <1>3, <1>6, <2>1, <2>4, <3>1
  <2>7. BusyGen(j) \cap HeldGens(j) = {}
    BY <1>3, <1>4, <1>5, <1>7, <2>2
  <2>8. ASSUME NEW g \in BootGen(i)
        PROVE  g \in BootGen(j) \/ Killed(n, g)'
    <3>1. i.pipe.at = "probing" /\ g = i.pipe.gen
      BY DEF BootGen
    <3>2. CASE j.pipe = i.pipe
      BY <3>2 DEF BootGen
    <3>3. CASE j.pipe # i.pipe
      <4>1. Answers(i.pipe, ev)
        BY <1>1, <3>1, <3>3 DEF Turned, Busy
      <4>2. Fails(i.pipe, ev)
        BY <1>9, <3>1, <4>1 DEF Fails, Answers, Promotes
      <4>3. [act |-> "KillStandby", name |-> n, gen |-> i.pipe.gen] \in Ahead'
        BY <1>1, <4>2 DEF Effect, Announced
      <4> QED  BY <3>1, <4>3 DEF Killed
    <3> QED  BY <3>2, <3>3
  <2>9. \A k \in kids' : k.name = n => k.gen \in HeldGens(j) \cup BootGen(j) \/ Killed(n, k.gen)'
    <3> SUFFICES ASSUME NEW k \in kids', k.name = n
                 PROVE  k.gen \in HeldGens(j) \cup BootGen(j) \/ Killed(n, k.gen)'
      OBVIOUS
    <3>1. k \in kids /\ k.gen \in HeldGens(i) \cup BootGen(i)
      BY <1>4, <1>6
    <3>2. ~(k.gen = ev.gen /\ ev.type = "DrainComplete")
      BY <3>1 DEF Fed, Gone, Tracked, KidsOf, ByGen
    <3> QED  BY <2>3, <2>8, <3>1, <3>2
  <2> QED  BY <2>5, <2>6, <2>7, <2>9 DEF Matched
<1> QED  BY <1>8, <1>9

\* Of another one.
LEMMA FedMatchedOther ==
  ASSUME IInv, NEW n, NEW ev, Fed(n, ev), NEW t, Driven(n, ev, t), NEW m \in Live, m # n
  PROVE  Matched(m)'
<1> DEFINE i == app.inst[m]
           j == app'.inst[m]
<1>1. Turned(m, n, ev)
  BY TurnedIs
<1>2. SameChildren(i, j) /\ (Busy(i.pipe) => j.pipe = i.pipe)
  BY <1>1 DEF Turned
<1>3. Matched(m)
  BY DEF IInv, Family
<1>4. /\ \A k \in kids : k.name = m => k.gen \in HeldGens(i) \cup BootGen(i)
      /\ \A g \in HeldGens(i) : g \in Nat /\ g < app.gen
  BY RestFacts DEF Fed
<1>5. /\ \A g \in BusyGen(j) : app.gen <= g \/ g \in BusyGen(i)
      /\ \A g \in BusyGen(j) : g \in Nat
  BY TurnedGens DEF IInv
<1>6. kids' \subseteq kids /\ \A k \in kids : k.name = m => k \in kids'
  BY FedFacts
<1>7. app.gen \in Nat
  BY LiveFacts DEF IInv
<1>8. HeldGens(j) = HeldGens(i) /\ ServingGen(j) = ServingGen(i) /\ j.serving = i.serving
  BY <1>2 DEF HeldGens, ServingGen, SameChildren
<1>9. BootGen(i) \subseteq BootGen(j)
  BY <1>2 DEF BootGen, Busy
<1>10. BusyGen(j) \cap HeldGens(j) = {}
  BY <1>3, <1>4, <1>5, <1>7, <1>8 DEF Matched
<1> HIDE DEF i, j
<1>11. \A k \in kids' : k.name = m => k.gen \in HeldGens(j) \cup BootGen(j)
  BY <1>4, <1>6, <1>8, <1>9
<1>12. \A g \in HeldGens(j) : \E k \in kids' : k.name = m /\ k.gen = g
  BY <1>3, <1>6, <1>8 DEF Matched, i
<1>13. j.serving # None =>
         \E k \in kids' : k.name = m /\ k.gen = j.serving.gen /\ k.sha = j.serving.sha
  BY <1>3, <1>6, <1>8 DEF Matched, i
<1> QED  BY <1>10, <1>11, <1>12, <1>13 DEF Matched, j

LEMMA FedFamily ==
  ASSUME IInv, NEW n, NEW ev, Fed(n, ev), NEW t, Driven(n, ev, t)
  PROVE  Family'
<1>1. Live' = Live
  BY DEF Driven
<1>2. kids' \subseteq kids
  BY FedFacts
<1>3. \A m \in Live : Matched(m)'
  BY FedMatchedSelf, FedMatchedOther
<1> QED  BY <1>1, <1>2, <1>3 DEF IInv, Family, OneChild

LEMMA FedSlots ==
  ASSUME IInv, NEW n, NEW ev, Fed(n, ev), NEW t, Driven(n, ev, t)
  PROVE  Slots'
<1>1. Live' = Live /\ slot' = slot
  BY DEF Driven, Fed
<1>2. ASSUME NEW m \in Live
      PROVE  Upstream(m)' \/ \E o \in Ahead' : o.act = "Promote" /\ o.name = m
  <2> DEFINE i == app.inst[m]
             j == app'.inst[m]
  <2>1. Upstream(m)
    BY RestFacts DEF Fed
  <2>2. CASE j.serving = i.serving
    <3>1. i.serving # None => i.serving.gen \in InUse(i)
      BY DEF InUse, ServingGen
    <3>2. \A k \in kids : k \in kids' \/ (k.name = n /\ k.gen = ev.gen /\ ev.type = "DrainComplete")
      BY FedFacts
    <3>3. ev.type = "DrainComplete" /\ m = n => ev.gen \notin InUse(i)
      BY FedFacts DEF Retired
    <3>4. ASSUME NEW k \in kids, k.name = m, i.serving # None, k.gen = i.serving.gen
          PROVE  k \in kids'
      BY <3>1, <3>2, <3>3, <3>4
    <3> QED  BY <1>1, <2>1, <2>2, <3>4 DEF Upstream
  <2>3. CASE j.serving # i.serving
    <3>1. Turned(m, n, ev)
      BY TurnedIs
    <3>2. m = n /\ Promotes(i.pipe, ev)
      BY <2>3, <3>1 DEF Turned, SameChildren, Heeds
    <3>3. [act |-> "Promote", name |-> m, sha |-> i.pipe.sha, gen |-> i.pipe.gen] \in Ahead'
      BY <3>2 DEF Driven, Effect, Announced
    <3> QED  BY <3>3
  <2> QED  BY <2>2, <2>3
<1> QED  BY <1>1, <1>2 DEF IInv, Slots

LEMMA FedProbes ==
  ASSUME IInv, NEW n, NEW ev, Fed(n, ev), NEW t, Driven(n, ev, t)
  PROVE  ProbesOK'
<1>1. Live' = Live /\ probes' = probes /\ Mail' \subseteq Mail
  BY DEF Driven, Fed, threads
<1>2. ASSUME NEW m, NEW g \in Nat, Past(g), Booted(m, g)
      PROVE  Booted(m, g)'
  <2> SUFFICES ASSUME m \in Live, g \in BusyGen(app'.inst[m])
               PROVE  /\ app'.inst[m].pipe.at = "probing"
                      /\ \E k \in kids' : k.name = m /\ k.gen = g /\ k.sha = app'.inst[m].pipe.sha
    BY <1>1 DEF Booted
  <2> DEFINE i == app.inst[m]
             j == app'.inst[m]
  <2>1. app.gen <= g \/ (g \in BusyGen(i) /\ (j.pipe = i.pipe \/ i.pipe.at = "building"))
    BY TurnedGens DEF IInv
  <2>2. g \in BusyGen(i) /\ (j.pipe = i.pipe \/ i.pipe.at = "building")
    <3>1. app.gen \in Nat
      BY LiveFacts DEF IInv
    <3> QED  BY <1>2, <2>1, <3>1 DEF Past
  <2>3. i.pipe.at = "probing" /\ \E k \in kids : k.name = m /\ k.gen = g /\ k.sha = i.pipe.sha
    BY <1>2, <2>2 DEF Booted
  <2>4. j.pipe = i.pipe
    BY <2>2, <2>3
  <2>5. \A k \in kids : k \in kids' \/ (k.name = n /\ k.gen = ev.gen /\ ev.type = "DrainComplete")
    BY FedFacts
  <2>6. ev.type = "DrainComplete" /\ m = n => ev.gen # g
    BY <2>2, FedFacts DEF Retired, InUse
  <2> QED  BY <2>3, <2>4, <2>5, <2>6
<1>3. ASSUME NEW b \in probes PROVE Booted(b.name, b.gen)'
  <2>1. b.gen \in Nat /\ Past(b.gen) /\ Booted(b.name, b.gen)
    BY DEF IInv, Types, Handed, ProbesOK
  <2> QED  BY <1>2, <2>1
<1>4. ASSUME NEW x \in Mail, x.ev.type = "ProbeSucceeded" PROVE Booted(x.name, x.ev.gen)'
  <2>1. Mail \subseteq Letter
    BY Sets DEF IInv
  <2>2. x.ev.gen \in Nat
    BY <1>4, <2>1, LetterFacts
  <2>3. Past(x.ev.gen) /\ Booted(x.name, x.ev.gen)
    BY <1>4 DEF IInv, Handed, ProbesOK
  <2> QED  BY <1>2, <2>2, <2>3
<1> QED  BY <1>1, <1>3, <1>4 DEF ProbesOK

\* The attempt of an instance whose answer is not in: it is the same as before.
LEMMA FedBuilding ==
  ASSUME IInv, NEW n, NEW ev, Fed(n, ev), NEW t, Driven(n, ev, t), NEW m, NEW g \in Nat, Past(g),
         BuildOf(m, g)'
  PROVE  BuildOf(m, g) /\ app'.inst[m].pipe = app.inst[m].pipe
<1>1. m \in Live /\ app'.inst[m].pipe.at = "building" /\ app'.inst[m].pipe.gen = g
  BY DEF BuildOf, Driven
<1>2. app.gen \in Nat /\ g < app.gen
  BY <1>1, LiveFacts DEF IInv, Past
<1>3. Turned(m, n, ev)
  BY <1>1, TurnedIs
<1>4. app'.inst[m].pipe = app.inst[m].pipe
  BY <1>1, <1>2, <1>3 DEF Turned
<1> QED  BY <1>1, <1>4 DEF BuildOf

LEMMA FedBundles ==
  ASSUME IInv, NEW n, NEW ev, Fed(n, ev), NEW t, Driven(n, ev, t)
  PROVE  Bundles'
<1>1. /\ Live' = Live /\ builders' = builders /\ Mail' \subseteq Mail /\ kids' \subseteq kids
      /\ Spares
  BY FedFacts DEF Driven, Fed, threads
<1>2. \A k \in kids : k.sha \in Elems(disk'[k.name])
  BY <1>1, SparesKeeps
<1>3. \A m \in Live :
        /\ app.inst[m].lastGreen # None => app.inst[m].lastGreen \in Elems(disk'[m])
        /\ app.inst[m].pipe.at = "probing" => app.inst[m].pipe.sha \in Elems(disk'[m])
  BY <1>1, SparesKeeps
<1>4. \A x \in Mail :
        x.ev.type = "BuildFinished" /\ x.ev.outcome = "green" /\ BuildOf(x.name, x.ev.gen) =>
          app.inst[x.name].pipe.sha \in Elems(disk'[x.name])
  BY <1>1, SparesKeeps
<1>5. ASSUME NEW m \in Live, app'.inst[m].lastGreen # None
      PROVE  app'.inst[m].lastGreen \in Elems(disk'[m])
  <2>1. Turned(m, n, ev)
    BY TurnedIs
  <2>2. CASE app'.inst[m].lastGreen = app.inst[m].lastGreen
    BY <1>3, <1>5, <2>2
  <2>3. CASE app'.inst[m].lastGreen # app.inst[m].lastGreen
    <3>1. m = n /\ Heeds(app.inst[m], app'.inst[m], ev)
      BY <2>1, <2>3 DEF Turned, SameChildren
    <3>2. CASE Promotes(app.inst[m].pipe, ev)
      <4>1. app'.inst[m].lastGreen = app.inst[m].pipe.sha /\ app.inst[m].pipe.at = "probing"
        BY <3>1, <3>2 DEF Heeds, Promotes, Answers
      <4> QED  BY <1>3, <4>1
    <3>3. CASE ~Promotes(app.inst[m].pipe, ev)
      <4>1. ev.type = "RecoverFromPointer" /\ app'.inst[m].lastGreen = ev.sha
        BY <2>3, <3>1, <3>3 DEF Heeds
      <4> QED  BY <3>1, <4>1 DEF Fed
    <3> QED  BY <3>2, <3>3
  <2> QED  BY <2>2, <2>3
<1>6. ASSUME NEW m \in Live, app'.inst[m].pipe.at = "probing"
      PROVE  app'.inst[m].pipe.sha \in Elems(disk'[m])
  <2> DEFINE i == app.inst[m]
             j == app'.inst[m]
  <2>1. Turned(m, n, ev)
    BY TurnedIs
  <2>2. CASE j.pipe = i.pipe
    BY <1>3, <1>6, <2>2
  <2>3. CASE m = n /\ Answers(i.pipe, ev) /\ ev.type = "BuildFinished" /\ ev.outcome = "green"
             /\ j.pipe.sha = i.pipe.sha
    <3>1. BuildOf(n, ev.gen)
      BY <2>3 DEF BuildOf, Answers
    <3>2. Message(n, ev) \in Mail /\ Message(n, ev).name = n /\ Message(n, ev).ev = ev
      BY <2>3 DEF Fed, Message
    <3> QED  BY <1>4, <2>3, <3>1, <3>2
  <2>4. CASE j.pipe.sha = j.lastGreen
    <3>1. Sound(app', {}, AnySha) /\ m \in DOMAIN app'.inst
      BY DEF Driven, Live
    <3>2. j.pipe \in Pipeline
      BY <3>1, InstanceFacts
    <3>3. j.pipe.sha # None
      BY <1>6, <3>2, PipeFacts, NoneAssumption
    <3> QED  BY <1>5, <2>4, <3>3
  <2> QED  BY <1>6, <2>1, <2>2, <2>3, <2>4 DEF Turned
<1>7. ASSUME NEW b \in builders, BuildOf(b.name, b.gen)'
      PROVE  app'.inst[b.name].pipe.sha = b.sha
  <2>1. b.gen \in Nat /\ Past(b.gen)
    BY DEF IInv, Types, Handed
  <2>2. BuildOf(b.name, b.gen) /\ app'.inst[b.name].pipe = app.inst[b.name].pipe
    BY <1>7, <2>1, FedBuilding
  <2> QED  BY <2>2 DEF IInv, Bundles
<1>8. ASSUME NEW x \in Mail, x.ev.type = "BuildFinished", x.ev.outcome = "green",
             BuildOf(x.name, x.ev.gen)'
      PROVE  app'.inst[x.name].pipe.sha \in Elems(disk'[x.name])
  <2>1. Mail \subseteq Letter
    BY Sets DEF IInv
  <2>2. x.ev.gen \in Nat
    BY <1>8, <2>1, LetterFacts
  <2>3. Past(x.ev.gen)
    BY <1>8 DEF IInv, Handed
  <2>4. BuildOf(x.name, x.ev.gen) /\ app'.inst[x.name].pipe = app.inst[x.name].pipe
    BY <1>8, <2>2, <2>3, FedBuilding
  <2> QED  BY <1>4, <1>8, <2>4
<1> QED  BY <1>1, <1>2, <1>5, <1>6, <1>7, <1>8 DEF Bundles, OnDisk

LEMMA FedBooting ==
  ASSUME IInv, NEW n, NEW ev, Fed(n, ev), NEW t, Driven(n, ev, t)
  PROVE  Booting'
<1>1. Live' = Live
  BY DEF Driven
<1>2. /\ \A x \in Elems(agenda') : /\ x.name \in Live
                                   /\ x.ev # Resolve => x.ev.sha \in Elems(disk'[x.name])
      /\ agenda' # <<>> => ev.type # "ProbeSucceeded"
  BY DEF Fed
<1>3. \A o \in Ahead' : o.act = "Promote" => ev.type = "ProbeSucceeded"
  BY FedOrdering
<1> QED  BY <1>1, <1>2, <1>3 DEF Booting, OnDisk

LEMMA FedPointer ==
  ASSUME IInv, NEW n, NEW ev, Fed(n, ev), NEW t, Driven(n, ev, t)
  PROVE  Pointer'
<1>1. hand' # None /\ hand'.name = n /\ hand = None /\ file' = file /\ builders' = builders
  BY DEF Driven, Fed, threads
<1> SUFFICES ASSUME NEW m \in Static PROVE Named(m)'
  BY DEF Pointer
<1>2. m \in Live /\ m \in Name /\ Named(m)
  BY StaticAssumption DEF IInv, Types, Pointer
<1>3. CASE m = n
  BY <1>1, <1>3 DEF Named
<1>4. CASE m # n
  <2>1. /\ Turned(m, n, ev)
        /\ app'.inst[m] = app.inst[m] \/ app.inst[m].pipe.at = "queued"
    BY <1>2, <1>4, TurnedIs
  <2>2. app'.inst[m].lastGreen = app.inst[m].lastGreen
    BY <1>4, <2>1 DEF Turned, SameChildren
  <2>3. CASE file[m] = app.inst[m].lastGreen
    BY <1>1, <2>2, <2>3 DEF Named
  <2>4. CASE file[m] # app.inst[m].lastGreen
    <3>1. /\ Untouched(m)
          /\ OnDisk(m, file[m]) =>
               \E x \in Elems(agenda) :
                 x.name = m /\ x.ev = [type |-> "RecoverFromPointer", sha |-> file[m]]
      BY <1>1, <1>2, <2>4 DEF Named
    <3>2. app'.inst[m] = app.inst[m]
      BY <2>1, <3>1, NewInstanceFacts DEF Untouched
    <3>3. Untouched(m)'
      BY <1>1, <3>1, <3>2 DEF Untouched
    <3>4. OnDisk(m, file[m])' => OnDisk(m, file[m])
      BY <1>1, <1>2 DEF Fed, Spares, OnDisk
    <3>5. \A x \in Elems(agenda) : x.name = m => x \in Elems(agenda')
      BY <1>4 DEF Fed
    <3> QED  BY <1>1, <3>1, <3>3, <3>4, <3>5 DEF Named
  <2> QED  BY <2>3, <2>4
<1> QED  BY <1>3, <1>4

LEMMA FedAnswered ==
  ASSUME IInv, NEW n, NEW ev, Fed(n, ev), NEW t, Driven(n, ev, t)
  PROVE  Answered'
<1>1. Live' = Live /\ builders' = builders /\ probes' = probes /\ Ahead = {}
  BY ElemsEmpty DEF Driven, Fed, threads, Ahead, Todo
<1>2. \A x \in Mail : x \in Mail' \/ (x.name = n /\ x.ev = ev)
  BY DEF Fed, Message
<1> SUFFICES ASSUME NEW m \in Live, NEW g, g = app'.inst[m].pipe.gen
             PROVE  /\ app'.inst[m].pipe.at = "building" => Builds(m, g)'
                    /\ app'.inst[m].pipe.at = "probing" => Probes(m, g)'
  BY <1>1 DEF Answered
<1> DEFINE i == app.inst[m]
           j == app'.inst[m]
           p == j.pipe
<1>3. Turned(m, n, ev)
  BY TurnedIs
<1>4. /\ i.pipe.at = "building" => Builds(m, i.pipe.gen)
      /\ i.pipe.at = "probing" => Probes(m, i.pipe.gen)
  BY DEF IInv, Answered
<1>5. CASE p = i.pipe /\ (m = n => ~Answers(i.pipe, ev))
  <2>1. ASSUME p.at = "building" PROVE Builds(m, g)'
    <3>1. \/ \E b \in builders : b.name = m /\ b.gen = p.gen
          \/ \E x \in Mail : x.name = m /\ x.ev.type = "BuildFinished" /\ x.ev.gen = p.gen
      BY <1>1, <1>4, <1>5, <2>1 DEF Builds
    <3>2. \A x \in Mail : x.name = m /\ x.ev.type = "BuildFinished" /\ x.ev.gen = p.gen => x \in Mail'
      BY <1>2, <1>5, <2>1 DEF Answers
    <3> QED  BY <1>1, <3>1, <3>2 DEF Builds
  <2>2. ASSUME p.at = "probing" PROVE Probes(m, g)'
    <3> DEFINE types == {"ProbeSucceeded", "ProbeFailed"}
    <3>1. \/ \E b \in probes : b.name = m /\ b.gen = p.gen
          \/ \E x \in Mail : x.name = m /\ x.ev.type \in types /\ x.ev.gen = p.gen
      BY <1>1, <1>4, <1>5, <2>2 DEF Probes
    <3>2. \A x \in Mail : x.name = m /\ x.ev.type \in types /\ x.ev.gen = p.gen => x \in Mail'
      BY <1>2, <1>5, <2>2 DEF Answers
    <3> QED  BY <1>1, <3>1, <3>2 DEF Probes
  <2> QED  BY <2>1, <2>2
<1>6. CASE p.at \in {"idle", "queued"}
  BY <1>6
<1>7. CASE p.at = "building" /\ [act |-> "StartBuild", name |-> m, sha |-> p.sha, gen |-> p.gen] \in Ahead'
  BY <1>7 DEF Builds
<1>8. ASSUME NEW act \in Spawns, p.at = "probing",
             [act |-> act, name |-> m, sha |-> p.sha, gen |-> p.gen] \in Ahead'
      PROVE  Probes(m, g)'
  BY <1>8 DEF Probes
<1>9. "SpawnAndProbe" \in Spawns /\ "Respawn" \in Spawns
  BY DEF Spawns
<1> QED  BY <1>3, <1>5, <1>6, <1>7, <1>8, <1>9 DEF Turned

LEMMA FedKeeps ==
  ASSUME IInv, NEW n, NEW ev, Fed(n, ev), NEW t, Driven(n, ev, t)
  PROVE  IInv'
<1>1. Types' /\ Handed' /\ Draining'
  BY FedTypes
<1>2. Ordering'
  BY FedOrdering
<1>3. Family'
  BY FedFamily
<1>4. Slots'
  BY FedSlots
<1>5. ProbesOK'
  BY FedProbes
<1>6. Pool'
  BY DEF Fed
<1>7. Bundles'
  BY FedBundles
<1>8. Booting'
  BY FedBooting
<1>9. Pointer'
  BY FedPointer
<1>10. Answered'
  BY FedAnswered
<1> QED  BY <1>1, <1>2, <1>3, <1>4, <1>5, <1>6, <1>7, <1>8, <1>9, <1>10 DEF IInv

\* The pressure prune spares too.
LEMMA PressureSpares ==
  ASSUME IInv, NEW n, disk' = PressurePrune(n)
  PROVE  Spares
<1>1. disk \in [Name -> Seq(Sha)]
  BY DEF IInv, Types
<1>2. ASSUME NEW m \in Name
      PROVE  /\ disk'[m] \in Seq(Sha) /\ Elems(disk'[m]) \subseteq Elems(disk[m])
             /\ m \in Live => \A sha \in Elems(disk[m]) : sha \in Protected(app, m) => sha \in Elems(disk'[m])
  <2> DEFINE b == Prune(disk[m], Protected(app, m), 0)
  <2>1. disk'[m] = disk[m] \/ disk'[m] = b
    BY DEF PressurePrune
  <2>2. disk[m] \in Seq(Sha)
    BY <1>1
  <2>3. /\ b \in Seq(Sha) /\ Elems(b) \subseteq Elems(disk[m])
        /\ \A sha \in Elems(disk[m]) : sha \in Protected(app, m) => sha \in Elems(b)
    BY <2>2, PruneFacts
  <2> HIDE DEF b
  <2> QED  BY <2>1, <2>2, <2>3
<1>3. disk' = [m \in Name |-> disk'[m]]
  BY DEF PressurePrune
<1>4. disk' \in [Name -> Seq(Sha)]
  BY <1>2, <1>3
<1>5. Live \subseteq Name
  BY LiveFacts DEF IInv
<1>6. \A m \in Live : \A sha \in Protected(app, m) :
        sha \in Elems(disk[m]) => sha \in Elems(disk'[m])
  BY <1>2, <1>5
<1> QED  BY <1>2, <1>4, <1>6 DEF Spares, OnDisk

LEMMA SameSpares ==
  ASSUME IInv, disk' = disk
  PROVE  Spares
BY DEF IInv, Types, Spares, OnDisk

LEMMA TakeEventKeeps ==
  ASSUME IInv, TakeEvent
  PROVE  IInv'
<1> DEFINE x == Head(chan)
           n == x.name
           ev == x.ev
           full == ev.type = "BuildFinished" /\ ev.outcome = "enospc"
<1>1. /\ hand = None /\ agenda = <<>> /\ chan # <<>> /\ chan' = Tail(chan) /\ agenda' = agenda
      /\ kids' = kids \ Gone(n, ev) /\ ports' = ReleaseAll(ports, Gone(n, ev))
      /\ disk' = IF full THEN PressurePrune(n) ELSE disk
      /\ Drive(n, ev)
      /\ UNCHANGED <<slot, threads, head, file, registry>>
  BY DEF TakeEvent, Ready, Gone
<1>2. chan \in Seq(Letter)
  BY DEF IInv, Types
<1>3. x \in Letter /\ Tail(chan) \in Seq(Letter) /\ Elems(chan) = {x} \cup Elems(Tail(chan))
  BY <1>1, <1>2, ElemsTail
<1>4. Spares
  BY <1>1, PressureSpares, SameSpares
<1> HIDE DEF x
<1>5. n \in Name /\ ev \in Posted /\ x = Message(n, ev)
  BY <1>3 DEF Letter, Message
<1>6. ev.type # "RecoverFromPointer"
  BY <1>3, LetterFacts
<1>7. Mail = {x} \cup Mail' /\ chan' \in Seq(Letter)
  BY <1>1, <1>3 DEF Mail
<1> HIDE DEF n, ev
<1>8. Gone(n, ev) \in SUBSET kids /\ \A y, z \in Gone(n, ev) : y.gen = z.gen => y = z
  <2>1. \A y, z \in Tracked(n, ev.gen) : y = z
    BY TrackedOne
  <2> QED  BY <2>1 DEF Gone, Tracked, KidsOf, ByGen
<1> DEFINE T == Gone(n, ev)
<1> HIDE DEF T
<1>9. Pool' /\ kids' \in SUBSET Kid /\ IsFiniteSet(kids')
  <2>1. T \in SUBSET kids /\ (\A y, z \in T : y.gen = z.gen => y = z) /\ kids' = kids \ T
        /\ ports' = ReleaseAll(ports, T)
    BY <1>1, <1>8 DEF T
  <2> QED  BY <2>1, ForgottenPool
<1>10. agenda' \in Seq(Task) /\ Elems(agenda') = {} /\ Elems(agenda) = {}
  BY <1>1, ElemsEmpty
<1>11. Fed(n, ev)
  BY <1>1, <1>4, <1>5, <1>6, <1>7, <1>9, <1>10 DEF Fed
<1>12. Driven(n, ev, StepApp(app, n, ev))
  BY <1>1, <1>5, DriveIs
<1> QED  BY <1>11, <1>12, FedKeeps

LEMMA FromAgendaKeeps ==
  ASSUME IInv, FromAgenda
  PROVE  IInv'
<1> DEFINE x == Head(agenda)
           n == x.name
           r == Tail(agenda)
           add == IF n \in Static THEN <<>> ELSE <<Message(n, Resolve)>>
           go == [type |-> "HeadAdvanced", sha |-> head[n]]
<1>1. /\ hand = None /\ agenda # <<>>
      /\ IF x.ev.type = "Resolve" THEN Drive(n, go) /\ agenda' = r
         ELSE Drive(n, x.ev) /\ agenda' = add \o r
      /\ UNCHANGED <<kids, slot, ports, chan, threads, disk, head, file, registry>>
  BY DEF FromAgenda, durable
<1>2. agenda \in Seq(Task)
  BY DEF IInv, Types
<1>3. x \in Task /\ r \in Seq(Task) /\ Elems(agenda) = {x} \cup Elems(r)
  BY <1>1, <1>2, ElemsTail
<1> HIDE DEF x, r
<1>4. n \in Name /\ x.ev \in Agendum /\ x \in Elems(agenda)
  BY <1>3 DEF Task
<1>5. \A y \in Elems(agenda) : y.name \in Live /\ (y.ev # Resolve => y.ev.sha \in Elems(disk[y.name]))
  BY DEF IInv, Booting, OnDisk
<1>6. head[n] \in Sha
  BY <1>4 DEF IInv, Types
<1> HIDE DEF n
<1>7. /\ Spares /\ Pool' /\ kids' \in SUBSET Kid /\ IsFiniteSet(kids') /\ kids' = kids
      /\ chan' \in Seq(Letter) /\ Mail' = Mail /\ disk' = disk
  BY <1>1, SameSpares DEF IInv, Pool, Types, Mail
<1>8. CASE x.ev.type = "Resolve"
  <2>1. go \in Posted /\ go.type = "HeadAdvanced"
    BY <1>6 DEF Posted
  <2>2. Drive(n, go) /\ agenda' = r
    BY <1>1, <1>8
  <2> HIDE DEF go
  <2>3. \A y \in Elems(agenda) : y.name # n => y \in Elems(agenda')
    BY <1>3, <2>2 DEF n
  <2>4. Gone(n, go) = {}
    BY <2>1 DEF Gone
  <2>5. Fed(n, go)
    BY <1>1, <1>3, <1>4, <1>5, <1>7, <2>1, <2>2, <2>3, <2>4 DEF Fed
  <2>6. Driven(n, go, StepApp(app, n, go))
    BY <1>1, <1>4, <2>1, <2>2, DriveIs
  <2> QED  BY <2>5, <2>6, FedKeeps
<1>9. CASE x.ev.type # "Resolve"
  <2> DEFINE ev == x.ev
  <2>1. ev # Resolve /\ ev \in Recovery /\ ev.type = "RecoverFromPointer" /\ ev.sha \in Elems(disk[n])
    <3>1. ev # Resolve
      BY <1>9 DEF Resolve
    <3>2. ev \in Recovery
      BY <1>4, <3>1 DEF Agendum
    <3> QED  BY <1>4, <1>5, <3>1, <3>2 DEF Recovery, n
  <2>2. Drive(n, ev) /\ agenda' = add \o r
    BY <1>1, <1>9
  <2> HIDE DEF ev
  <2> DEFINE y == Message(n, Resolve)
  <2>3. y \in Task /\ y.name = n /\ y.ev = Resolve
    BY <1>4 DEF Message, Task, Agendum
  <2>4. add = <<>> \/ add = <<y>>
    OBVIOUS
  <2> HIDE DEF y
  <2>5. add \in Seq(Task) /\ Elems(add) \subseteq {y}
    BY <2>3, <2>4 DEF Elems
  <2> HIDE DEF add
  <2>6. agenda' \in Seq(Task) /\ Elems(agenda') = Elems(add) \cup Elems(r)
    BY <1>3, <2>2, <2>5, ElemsConcat
  <2>7. \A z \in Elems(agenda) : z.name # n => z \in Elems(agenda')
    BY <1>3, <2>6 DEF n
  <2>8. n \in Live
    BY <1>4, <1>5 DEF n
  <2>9. \A z \in Elems(agenda') : z.name \in Live /\ (z.ev # Resolve => z.ev.sha \in Elems(disk'[z.name]))
    BY <1>3, <1>5, <1>7, <2>3, <2>5, <2>6, <2>8
  <2>10. Gone(n, ev) = {}
    BY <2>1 DEF Gone
  <2>11. Fed(n, ev)
    BY <1>1, <1>4, <1>7, <2>1, <2>6, <2>7, <2>9, <2>10 DEF Fed
  <2>12. Driven(n, ev, StepApp(app, n, ev))
    BY <1>1, <1>4, <2>1, <2>2, DriveIs
  <2> QED  BY <2>11, <2>12, FedKeeps
<1> QED  BY <1>8, <1>9

-----------------------------------------------------------------------------
(* Previews come and go, between two drives.                               *)

Enrolled(n) ==
  /\ hand = None /\ hand' = None /\ n \in Name \ Static
  /\ Sound(app', {}, AnySha) /\ app'.out = <<>> /\ app'.gen = app.gen
  /\ Live \ {n} \subseteq Live' /\ Live' \subseteq Live \cup {n}
  /\ \A m \in Live \ {n} : app'.inst[m] = app.inst[m]
  /\ n \in Live' => app'.inst[n] = NewInstance
  /\ registry' \in SUBSET (Name \ Static) /\ Live' = Static \cup registry'
  /\ kids' = {k \in kids : k.name # n} /\ Pool' /\ IsFiniteSet(kids')
  /\ DOMAIN slot' = Name /\ slot'[n] = None /\ \A m \in Name : m # n => slot'[m] = slot[m]
  /\ disk' \in [Name -> Seq(Sha)] /\ \A m \in Name : m # n => disk'[m] = disk[m]
  /\ stoppers' \in SUBSET [name : Name, gen : Nat, drain : BOOLEAN]
  /\ \A x \in stoppers' : x \in stoppers \/ (Past(x.gen) /\ ~x.drain)
  /\ agenda = <<>> /\ agenda' \in Seq(Task)
  /\ \A x \in Elems(agenda') : x.name \in Live' /\ x.ev = Resolve
  /\ UNCHANGED <<chan, builders, probes, head, file>>

LEMMA EnrolledKeeps ==
  ASSUME IInv, NEW n, Enrolled(n)
  PROVE  IInv'
<1>1. /\ hand = None /\ hand' = None /\ n \in Name \ Static
      /\ Ahead = {} /\ Ahead' = {} /\ Todo' = <<>>
      /\ chan' = chan /\ builders' = builders /\ probes' = probes /\ head' = head /\ file' = file
      /\ Mail' = Mail
  BY ElemsEmpty DEF Enrolled, Ahead, Todo, Mail
<1>2. /\ Live \ {n} \subseteq Live' /\ Live' \subseteq Live \cup {n}
      /\ \A m \in Live \ {n} : app'.inst[m] = app.inst[m]
      /\ n \in Live' => app'.inst[n] = NewInstance
      /\ \A k \in kids' : k \in kids /\ k.name # n
      /\ \A k \in kids : k.name # n => k \in kids'
  BY DEF Enrolled
<1>3. /\ NewInstance.pipe.at = "idle" /\ NewInstance.serving = None
      /\ HeldGens(NewInstance) = {} /\ BusyGen(NewInstance) = {} /\ BootGen(NewInstance) = {}
      /\ InUse(NewInstance) = {} /\ NewInstance.lastGreen = None
  <2>1. NewInstance.draining = {}
    BY DEF NewInstance
  <2> QED  BY <2>1, NewInstanceFacts DEF HeldGens, BusyGen, BootGen, InUse, ServingGen
<1>4. \A m \in Live' : m # n => m \in Live /\ app'.inst[m] = app.inst[m]
  BY <1>2
<1>5. \A g : Past(g)' <=> Past(g)
  BY DEF Enrolled, Past
<1>6. \A m, g : Retired(m, g) => Retired(m, g)'
  BY <1>2, <1>3, <1>4 DEF Retired
<1>7. \A m, g : BuildOf(m, g)' => BuildOf(m, g) /\ m # n /\ app'.inst[m] = app.inst[m]
  BY <1>2, <1>3, <1>4 DEF BuildOf
<1>8. Live \subseteq Name /\ Live' \subseteq Name
  <2>1. Live \subseteq Name
    BY LiveFacts DEF IInv
  <2> QED  BY <1>1, <1>2, <2>1
<1>9. \A m \in Name : \A sha : m # n => (OnDisk(m, sha)' <=> OnDisk(m, sha))
  BY DEF Enrolled, OnDisk
<1>10. Types'
  <2>1. AnySha' = AnySha /\ kids \in SUBSET Kid
    BY DEF AnySha, IInv, Types
  <2> QED  BY <1>1, <1>2, <2>1 DEF IInv, Types, Enrolled
<1>11. Handed'
  BY <1>1, <1>2, <1>5 DEF IInv, Handed, Enrolled
<1>12. Ordering'
  BY <1>1 DEF Ordering, OneSpawn
<1>13. Draining'
  BY <1>1, <1>6 DEF IInv, Draining, Enrolled
<1>14. Family'
  <2>1. OneChild'
    BY <1>2 DEF IInv, Family, OneChild
  <2>2. \A k \in kids' : k.name \in Live'
    BY <1>2 DEF IInv, Family
  <2>3. ASSUME NEW m \in Live' PROVE Matched(m)'
    <3>1. CASE m = n
      BY <1>2, <1>3, <2>3, <3>1 DEF Matched
    <3>2. CASE m # n
      <4>1. m \in Live /\ app'.inst[m] = app.inst[m]
        BY <1>4, <2>3, <3>2
      <4>2. Matched(m) /\ \A g : ~Killed(m, g)
        BY <1>1, <4>1 DEF IInv, Family, Killed
      <4> QED  BY <1>2, <3>2, <4>1, <4>2 DEF Matched
    <3> QED  BY <3>1, <3>2
  <2> QED  BY <2>1, <2>2, <2>3 DEF Family
<1>15. Slots'
  <2>1. \A m \in Name \ Live' : slot'[m] = None
    BY <1>2 DEF IInv, Slots, Enrolled
  <2>2. ASSUME NEW m \in Live' PROVE Upstream(m)'
    <3>1. CASE m = n
      BY <1>2, <1>3, <2>2, <3>1 DEF Upstream, Enrolled
    <3>2. CASE m # n
      <4>1. m \in Live /\ app'.inst[m] = app.inst[m] /\ slot'[m] = slot[m]
        BY <1>4, <1>8, <2>2, <3>2 DEF Enrolled
      <4>2. Upstream(m)
        BY <1>1, <4>1 DEF IInv, Slots
      <4> QED  BY <1>2, <3>2, <4>1, <4>2 DEF Upstream
    <3> QED  BY <3>1, <3>2
  <2> QED  BY <2>1, <2>2 DEF Slots, Enrolled
<1>16. ProbesOK'
  <2>1. \A m, g : Booted(m, g) => Booted(m, g)'
    BY <1>2, <1>3, <1>4 DEF Booted
  <2> QED  BY <1>1, <2>1 DEF IInv, ProbesOK
<1>17. Pool'
  BY DEF Enrolled
<1>18. Bundles'
  <2>1. \A k \in kids' : OnDisk(k.name, k.sha)'
    BY <1>2, <1>9 DEF IInv, Bundles, Types, Kid
  <2>2. ASSUME NEW m \in Live'
        PROVE  /\ app'.inst[m].lastGreen # None => \A sha : sha = app'.inst[m].lastGreen => OnDisk(m, sha)'
               /\ app'.inst[m].pipe.at = "probing" => \A sha : sha = app'.inst[m].pipe.sha => OnDisk(m, sha)'
    <3>1. CASE m = n
      BY <1>2, <1>3, <2>2, <3>1
    <3>2. CASE m # n
      BY <1>4, <1>8, <1>9, <2>2, <3>2 DEF IInv, Bundles
    <3> QED  BY <3>1, <3>2
  <2>3. \A b \in builders' : BuildOf(b.name, b.gen)' => app'.inst[b.name].pipe.sha = b.sha
    BY <1>1, <1>7 DEF IInv, Bundles
  <2>4. ASSUME NEW x \in Mail, x.ev.type = "BuildFinished", x.ev.outcome = "green",
               BuildOf(x.name, x.ev.gen)'
        PROVE  \A sha : sha = app'.inst[x.name].pipe.sha => OnDisk(x.name, sha)'
    <3>1. BuildOf(x.name, x.ev.gen) /\ x.name # n /\ app'.inst[x.name] = app.inst[x.name]
      BY <1>7, <2>4
    <3>2. x.name \in Name
      BY <1>8, <3>1 DEF BuildOf
    <3> QED  BY <1>9, <2>4, <3>1, <3>2 DEF IInv, Bundles
  <2> QED  BY <1>1, <2>1, <2>2, <2>3, <2>4 DEF Bundles
<1>19. Booting'
  BY <1>1 DEF Booting, Enrolled
<1>20. Pointer'
  <2> SUFFICES ASSUME NEW m \in Static PROVE Named(m)'
    BY DEF Pointer
  <2>1. m # n /\ m \in Live /\ m \in Name /\ Named(m) /\ app'.inst[m] = app.inst[m]
    BY <1>1, <1>2, StaticAssumption DEF IInv, Pointer, Types
  <2>2. Elems(agenda) = {}
    BY ElemsEmpty DEF Enrolled
  <2> QED  BY <1>1, <1>9, <2>1, <2>2 DEF Named, Untouched
<1>21. Answered'
  BY <1>1, <1>2, <1>3, <1>4 DEF IInv, Answered, Builds, Probes
<1> QED  BY <1>10, <1>11, <1>12, <1>13, <1>14, <1>15, <1>16, <1>17, <1>18, <1>19, <1>20, <1>21
         DEF IInv

LEMMA AddPreviewKeeps ==
  ASSUME IInv, NEW n \in Name, AddPreview(n)
  PROVE  IInv'
<1> DEFINE t == AddInstance(app, n)
           x == Message(n, Resolve)
<1>1. /\ hand = None /\ agenda = <<>> /\ n \notin Live /\ hand' = hand
      /\ app' = t /\ registry' = registry \cup {n} /\ agenda' = <<x>>
      /\ kids' = kids /\ slot' = slot /\ ports' = ports /\ disk' = disk /\ stoppers' = stoppers
      /\ UNCHANGED <<chan, builders, probes, head, file>>
  BY DEF AddPreview, Ready, threads
<1>2. Sound(app, {}, AnySha) /\ registry \in SUBSET (Name \ Static) /\ Live = Static \cup registry
  BY DEF IInv, Types
<1>3. /\ Sound(t, {}, AnySha) /\ DOMAIN t.inst = Live \cup {n} /\ t.inst[n] = NewInstance
      /\ \A m \in Live : t.inst[m] = app.inst[m]
  BY <1>1, <1>2, AddSound DEF Live
<1>4. t.gen = app.gen /\ t.out = <<>>
  <2> DEFINE f == [m \in DOMAIN app.inst \cup {n} |->
                     IF m \in DOMAIN app.inst THEN app.inst[m] ELSE NewInstance]
  <2>1. t = [app EXCEPT !.inst = f, !.out = <<>>]
    BY DEF AddInstance
  <2>2. app = [inst |-> app.inst, queue |-> app.queue, building |-> app.building,
               gen |-> app.gen, out |-> app.out]
    BY <1>2, SoundFields
  <2> HIDE DEF f, t
  <2>3. t = [inst |-> f, queue |-> app.queue, building |-> app.building, gen |-> app.gen, out |-> <<>>]
    BY <2>1, <2>2
  <2> QED  BY <2>3
<1> HIDE DEF t
<1>5. Live' = Live \cup {n}
  BY <1>1, <1>3 DEF Live
<1>6. x \in Task /\ x.name = n /\ x.ev = Resolve
  BY DEF Message, Task, Agendum
<1> HIDE DEF x
<1>7. agenda' \in Seq(Task) /\ \A y \in Elems(agenda') : y.name \in Live' /\ y.ev = Resolve
  BY <1>1, <1>5, <1>6 DEF Elems
<1>8. \A k \in kids : k.name # n
  BY <1>1 DEF IInv, Family
<1>9. Pool' /\ IsFiniteSet(kids') /\ DOMAIN slot = Name /\ slot[n] = None
      /\ disk' \in [Name -> Seq(Sha)]
      /\ stoppers' \in SUBSET [name : Name, gen : Nat, drain : BOOLEAN]
  BY <1>1 DEF IInv, Pool, Types, Slots
<1>10. AnySha' = AnySha
  BY DEF AnySha
<1>11. Enrolled(n)
  BY <1>1, <1>2, <1>3, <1>4, <1>5, <1>7, <1>8, <1>9, <1>10 DEF Enrolled, Live
<1> QED  BY <1>11, EnrolledKeeps

LEMMA RemovePreviewKeeps ==
  ASSUME IInv, NEW n \in Name, RemovePreview(n)
  PROVE  IInv'
<1> DEFINE t == RemoveInstance(app, n)
           T == KidsOf(n)
<1>1. /\ hand = None /\ agenda = <<>> /\ n \in Live \ Static /\ hand' = hand /\ agenda' = agenda
      /\ app' = t /\ registry' = registry \ {n}
      /\ kids' = kids \ T /\ Stop(T, FALSE) /\ ports' = ReleaseAll(ports, T)
      /\ slot' = [slot EXCEPT ![n] = None] /\ disk' = [disk EXCEPT ![n] = <<>>]
      /\ UNCHANGED <<chan, builders, probes, head, file>>
  BY DEF RemovePreview, Ready
<1>2. Sound(app, {}, AnySha) /\ registry \in SUBSET (Name \ Static) /\ Live = Static \cup registry
  BY DEF IInv, Types
<1>3. /\ Sound(t, {}, AnySha) /\ DOMAIN t.inst = Live \ {n}
      /\ \A m \in Live \ {n} : t.inst[m] = app.inst[m]
  BY <1>2, RemoveSound DEF Live
<1>4. t.gen = app.gen /\ t.out = <<>>
  <2> DEFINE f == [m \in DOMAIN app.inst \ {n} |-> app.inst[m]]
             q == Leave(app.queue, n)
             b == app.building \ {n}
  <2>1. t = [app EXCEPT !.inst = f, !.queue = q, !.building = b, !.out = <<>>]
    BY DEF RemoveInstance
  <2>2. app = [inst |-> app.inst, queue |-> app.queue, building |-> app.building,
               gen |-> app.gen, out |-> app.out]
    BY <1>2, SoundFields
  <2> HIDE DEF f, q, b, t
  <2>3. t = [inst |-> f, queue |-> q, building |-> b, gen |-> app.gen, out |-> <<>>]
    BY <2>1, <2>2
  <2> QED  BY <2>3
<1> HIDE DEF t
<1>5. Live' = Live \ {n}
  BY <1>1, <1>3 DEF Live
<1>6. T \in SUBSET kids /\ \A k \in kids : k \in T <=> k.name = n
  BY DEF KidsOf
<1>7. \A x, y \in T : x.gen = y.gen => x = y
  BY DEF KidsOf, IInv, Family, OneChild
<1> HIDE DEF T
<1>8. Pool' /\ IsFiniteSet(kids') /\ kids' = {k \in kids : k.name # n}
  <2>1. Pool' /\ IsFiniteSet(kids')
    BY <1>1, <1>6, <1>7, ForgottenPool
  <2> QED  BY <1>1, <1>6, <2>1
<1>9. /\ DOMAIN slot' = Name /\ slot'[n] = None /\ \A m \in Name : m # n => slot'[m] = slot[m]
  BY <1>1 DEF IInv, Slots
<1>10. disk' \in [Name -> Seq(Sha)] /\ \A m \in Name : m # n => disk'[m] = disk[m]
  <2> DEFINE e == <<>>
  <2>1. e \in Seq(Sha) /\ disk' = [disk EXCEPT ![n] = e] /\ disk \in [Name -> Seq(Sha)]
    BY <1>1 DEF IInv, Types
  <2> HIDE DEF e
  <2> QED  BY <2>1
<1>11. \A x \in stoppers' : x \in stoppers \/ \E k \in kids :
                                                x = [name |-> k.name, gen |-> k.gen, drain |-> FALSE]
  BY <1>1, <1>6 DEF Stop
<1>12. ASSUME NEW x \in stoppers', x \notin stoppers
       PROVE  /\ x \in [name : Name, gen : Nat, drain : BOOLEAN] /\ Past(x.gen) /\ ~x.drain
  <2>1. PICK k \in kids : x = [name |-> k.name, gen |-> k.gen, drain |-> FALSE]
    BY <1>11, <1>12
  <2>2. k.name \in Name /\ k.gen \in Nat /\ Past(k.gen)
    BY DEF IInv, Types, Kid, Handed
  <2>3. x.name = k.name /\ x.gen = k.gen /\ x.drain = FALSE
    BY <2>1
  <2>4. x \in [name : Name, gen : Nat, drain : BOOLEAN]
    BY <2>1, <2>2
  <2> QED  BY <2>2, <2>3, <2>4
<1>13. stoppers' \in SUBSET [name : Name, gen : Nat, drain : BOOLEAN]
  <2>1. stoppers \in SUBSET [name : Name, gen : Nat, drain : BOOLEAN]
    BY DEF IInv, Types
  <2> QED  BY <1>12, <2>1
<1>14. agenda' \in Seq(Task) /\ Elems(agenda') = {}
  BY <1>1, ElemsEmpty DEF IInv, Types
<1>15. AnySha' = AnySha
  BY DEF AnySha
<1>16. Enrolled(n)
  BY <1>1, <1>2, <1>3, <1>4, <1>5, <1>8, <1>9, <1>10, <1>12, <1>13, <1>14, <1>15
     DEF Enrolled, Live
<1> QED  BY <1>16, EnrolledKeeps

-----------------------------------------------------------------------------
(* The daemon starts.                                                      *)

Fresh ==
  /\ app = NewApp(Static \cup registry)
  /\ hand = None /\ agenda = Boot
  /\ kids = {} /\ slot = [n \in Name |-> None] /\ ports = FreshPorts
  /\ chan = <<>> /\ builders = {} /\ probes = {} /\ stoppers = {}
  /\ registry \in SUBSET (Name \ Static)
  /\ disk \in [Name -> Seq(Sha)] /\ file \in [Name -> Sha \cup {None}] /\ head \in [Name -> Sha]

LEMMA NewSound ==
  ASSUME NEW S \in SUBSET Name
  PROVE  LET t == NewApp(S)
         IN /\ Sound(t, {}, AnySha) /\ DOMAIN t.inst = S /\ \A m \in S : t.inst[m] = NewInstance
            /\ t.gen = 1 /\ t.out = <<>>
<1> DEFINE f == [n \in S |-> NewInstance]
           t == NewApp(S)
<1>1. t = [inst |-> f, queue |-> <<>>, building |-> {}, gen |-> 1, out |-> <<>>]
  BY DEF NewApp
<1>2. DOMAIN f = S /\ f = [n \in DOMAIN f |-> f[n]] /\ \A n \in S : f[n] = NewInstance
  OBVIOUS
<1> HIDE DEF f, t
<1>3. t.inst = f /\ t.queue = <<>> /\ t.building = {} /\ t.gen = 1 /\ t.out = <<>>
  BY <1>1
<1>4. Orders(t) = {}
  BY <1>3 DEF Orders
<1>5. Work(t, {}) = {}
  BY <1>4, OrderedIs DEF Work
<1>6. Shape(t)
  <2>1. t \in [inst : {t.inst}, queue : Seq(Name), building : SUBSET Name, gen : Nat,
               out : Seq(Order)]
    BY <1>1, <1>3
  <2> QED  BY <1>2, <1>3, <2>1 DEF Shape
<1>7. QueueOK(t)
  BY <1>3 DEF QueueOK
<1>8. SlotsOK(t)
  BY <1>3, FS_EmptySet, SlotAssumption DEF SlotsOK
<1>9. \A n \in DOMAIN t.inst : Fits(t.inst[n], n, Work(t, {}), t.gen, AnySha[n])
  BY <1>2, <1>3, NewFits
<1>10. Sound(t, {}, AnySha)
  BY <1>5, <1>6, <1>7, <1>8, <1>9 DEF Sound
<1> QED  BY <1>2, <1>3, <1>10 DEF t

LEMMA FreshAccounts == Accounts(FreshPorts, {})
<1> DEFINE p == FreshPorts
<1>1. p = [free |-> <<>>, next |-> 1]
  BY DEF FreshPorts
<1> HIDE DEF p
<1>2. p.free = <<>> /\ p.next = 1 /\ p \in [free : Seq(Nat), next : Nat \ {0}]
  BY <1>1
<1>3. Elems(p.free) = {} /\ DOMAIN p.free = {}
  BY <1>2, ElemsEmpty
<1>4. 1..p.next - 1 = {}
  BY <1>2
<1> QED  BY <1>2, <1>3, <1>4, PortAssumption DEF Accounts, NoRepeat, p

LEMMA FreshInv ==
  Fresh => IInv
<1> SUFFICES ASSUME Fresh PROVE IInv
  OBVIOUS
<1> DEFINE S == Static \cup registry
<1>1. /\ hand = None /\ agenda = Boot /\ kids = {} /\ ports = FreshPorts /\ chan = <<>>
      /\ builders = {} /\ probes = {} /\ stoppers = {} /\ slot = [n \in Name |-> None]
      /\ registry \in SUBSET (Name \ Static) /\ disk \in [Name -> Seq(Sha)]
      /\ file \in [Name -> Sha \cup {None}] /\ head \in [Name -> Sha]
      /\ app = NewApp(S)
  BY DEF Fresh
<1>2. S \in SUBSET Name
  BY <1>1, StaticAssumption
<1> HIDE DEF S
<1>3. /\ Sound(app, {}, AnySha) /\ app.out = <<>> /\ Live = S
      /\ \A m \in Live : app.inst[m] = NewInstance
  BY <1>1, <1>2, NewSound DEF Live
<1>4. Mail = {} /\ Ahead = {} /\ Todo = <<>>
  BY <1>1, ElemsEmpty DEF Mail, Ahead, Todo
<1>5. /\ NewInstance.pipe.at = "idle" /\ NewInstance.serving = None /\ NewInstance.lastGreen = None
      /\ HeldGens(NewInstance) = {} /\ BusyGen(NewInstance) = {} /\ BootGen(NewInstance) = {}
  <2>1. NewInstance.draining = {}
    BY DEF NewInstance
  <2> QED  BY <2>1, NewInstanceFacts DEF HeldGens, BusyGen, BootGen, ServingGen
<1>6. /\ Boot \in Seq(Task)
      /\ Elems(Boot) = {Message(n, Restored(n)) : n \in {x \in Static : Recoverable(x)} \cup registry}
  BY <1>1, BootFacts DEF Task
<1>7. Types
  BY <1>1, <1>3, <1>6, FS_EmptySet DEF Types, S
<1>8. Handed
  BY <1>1, <1>4 DEF Handed
<1>9. Ordering
  BY <1>4 DEF Ordering, OneSpawn
<1>10. Draining
  BY <1>1, <1>4 DEF Draining
<1>11. Family
  BY <1>1, <1>3, <1>5 DEF Family, OneChild, Matched
<1>12. Slots
  BY <1>1, <1>2, <1>3, <1>5 DEF Slots, Upstream
<1>13. ProbesOK
  BY <1>1, <1>4 DEF ProbesOK
<1>14. Pool
  BY <1>1, FreshAccounts DEF Pool
<1>15. Bundles
  BY <1>1, <1>3, <1>4, <1>5 DEF Bundles
<1>16. Booting
  <2>1. ASSUME NEW x \in Elems(agenda)
        PROVE  x.name \in Live /\ (x.ev # Resolve => OnDisk(x.name, x.ev.sha))
    <3>1. PICK n \in {y \in Static : Recoverable(y)} \cup registry : x = Message(n, Restored(n))
      BY <1>1, <1>6, <2>1
    <3>2. x.name = n /\ x.ev = Restored(n)
      BY <3>1 DEF Message
    <3>3. n \in Live
      BY <1>3, <3>1 DEF S
    <3>4. x.ev # Resolve => Recoverable(n) /\ x.ev.sha = file[n]
      BY <3>2 DEF Restored
    <3> QED  BY <3>2, <3>3, <3>4 DEF Recoverable, OnDisk
  <2> QED  BY <1>4, <2>1 DEF Booting
<1>17. Pointer
  <2> SUFFICES ASSUME NEW n \in Static PROVE Named(n)
    BY DEF Pointer
  <2>1. n \in Name /\ n \in Live /\ Untouched(n)
    BY <1>1, <1>3, StaticAssumption DEF S, Untouched
  <2>2. ASSUME OnDisk(n, file[n])
        PROVE  \E m \in Elems(agenda) :
                 m.name = n /\ m.ev = [type |-> "RecoverFromPointer", sha |-> file[n]]
    <3>1. Elems(disk[n]) \subseteq Sha
      BY <1>1, <2>1, ElemsOf
    <3>2. Recoverable(n)
      BY <2>2, <3>1, NoneAssumption DEF Recoverable, OnDisk
    <3>3. Message(n, Restored(n)) \in Elems(agenda)
      BY <1>1, <1>6, <3>2
    <3> QED  BY <3>2, <3>3 DEF Message, Restored
  <2> QED  BY <2>1, <2>2 DEF Named
<1>18. Answered
  BY <1>3, <1>5 DEF Answered
<1> QED  BY <1>7, <1>8, <1>9, <1>10, <1>11, <1>12, <1>13, <1>14, <1>15, <1>16, <1>17, <1>18
         DEF IInv

LEMMA InitInv ==
  Init => IInv
<1> SUFFICES ASSUME Init PROVE IInv
  OBVIOUS
<1>1. /\ disk = [n \in Name |-> <<>>] /\ file = [n \in Name |-> None]
  BY DEF Init
<1>2. disk \in [Name -> Seq(Sha)] /\ file \in [Name -> Sha \cup {None}]
  BY <1>1
<1>3. Fresh
  BY <1>2 DEF Init, Fresh
<1> QED  BY <1>3, FreshInv

LEMMA RestartKeeps ==
  IInv /\ Restart => IInv'
<1>1. IInv /\ Restart => Fresh'
  <2> SUFFICES ASSUME IInv, Restart PROVE Fresh'
    OBVIOUS
  <2>1. /\ registry \in SUBSET (Name \ Static)
        /\ disk \in [Name -> Seq(Sha)] /\ file \in [Name -> Sha \cup {None}] /\ head \in [Name -> Sha]
    BY DEF IInv, Types
  <2>2. disk' = disk /\ file' = file /\ registry' = registry /\ head' = head
    BY DEF Restart, durable
  <2>3. Boot' = Boot
    BY <2>2 DEF Boot, Restored, Recoverable
  <2> QED  BY <2>1, <2>2, <2>3 DEF Restart, Fresh
<1> QED  BY <1>1, FreshInv, PTL

-----------------------------------------------------------------------------
(* The theorems.                                                           *)

LEMMA NextKeeps ==
  ASSUME IInv, [Next]_vars
  PROVE  IInv'
<1>1. CASE Control
  <2>1. CASE StartBuild
    BY <2>1, StartBuildKeeps
  <2>2. CASE SpawnAndProbe
    BY <2>2, SpawnAndProbeKeeps
  <2>3. CASE CannotSpawn
    BY <2>3, CannotSpawnKeeps
  <2>4. CASE Promote
    BY <2>4, PromoteKeeps
  <2>5. CASE StartDrain
    BY <2>5, StartDrainKeeps
  <2>6. CASE KillStandby
    BY <2>6, KillStandbyKeeps
  <2>7. CASE RecordRedOrder
    BY <2>7, RecordRedOrderKeeps
  <2>8. CASE Persist
    BY <2>8, PersistKeeps
  <2>9. CASE FromAgenda
    BY <2>9, FromAgendaKeeps
  <2>10. CASE TakeEvent
    BY <2>10, TakeEventKeeps
  <2> QED  BY <1>1, <2>1, <2>2, <2>3, <2>4, <2>5, <2>6, <2>7, <2>8, <2>9, <2>10 DEF Control
<1>2. ASSUME NEW n \in Name, AddPreview(n) \/ RemovePreview(n) \/ Poll(n)
      PROVE  IInv'
  BY <1>2, AddPreviewKeeps, RemovePreviewKeeps, PollKeeps
<1>3. ASSUME NEW b \in builders, NEW outcome \in BuildOutcome, BuildEnds(b, outcome)
      PROVE  IInv'
  BY <1>3, BuildEndsKeeps
<1>4. ASSUME NEW p \in procs, Bind(p)
      PROVE  IInv'
  BY <1>4, BindKeeps
<1>5. ASSUME NEW b \in probes, ProbeEnds(b)
      PROVE  IInv'
  BY <1>5, ProbeEndsKeeps
<1>6. ASSUME NEW t \in stoppers, StopEnds(t)
      PROVE  IInv'
  BY <1>6, StopEndsKeeps
<1>7. ASSUME NEW n \in Name, NEW sha \in Sha, Push(n, sha)
      PROVE  IInv'
  BY <1>7, PushKeeps
<1>8. CASE Restart
  BY <1>8, RestartKeeps
<1>9. CASE UNCHANGED vars
  <2>1. /\ UNCHANGED control /\ UNCHANGED durable /\ UNCHANGED chan /\ head' = head
        /\ builders' = builders /\ probes' = probes /\ stoppers' = stoppers
    BY <1>9 DEF vars, threads
  <2>2. head' \in [Name -> Sha]
    BY <2>1 DEF IInv, Types
  <2> QED  BY <2>1, <2>2, SilentKeeps
<1> QED  BY <1>1, <1>2, <1>3, <1>4, <1>5, <1>6, <1>7, <1>8, <1>9 DEF Next

LEMMA AlwaysSound == Spec => []IInv
<1>1. IInv /\ [Next]_vars => IInv'
  BY NextKeeps
<1> QED  BY <1>1, InitInv, PTL DEF Spec

\* The records of the ports and the children are what TypeOK says.
LEMMA PoolTypes ==
  ASSUME IInv
  PROVE  /\ ports.next \in 1..PortEnd + 1 /\ ports.free \in Seq(1..PortEnd)
         /\ \A k \in kids : k.port \in 1..PortEnd
<1> DEFINE q == ports.free
           next == ports.next
<1>1. /\ q \in Seq(Nat) /\ next \in Nat \ {0} /\ next <= PortEnd + 1
      /\ Elems(q) \cup {k.port : k \in kids} = 1..next - 1
  BY DEF IInv, Pool, Accounts
<1>2. PortEnd \in Nat
  BY PortAssumption
<1> HIDE DEF q, next
<1>3. next \in 1..PortEnd + 1 /\ 1..next - 1 \subseteq 1..PortEnd
  BY <1>1, <1>2
<1>4. q \in [1..Len(q) -> 1..PortEnd] /\ Len(q) \in Nat
  <2>1. Elems(q) \subseteq 1..PortEnd
    BY <1>1, <1>3
  <2>2. q \in [1..Len(q) -> Nat] /\ Len(q) \in Nat
    BY <1>1
  <2>3. \A j \in 1..Len(q) : q[j] \in Elems(q)
    BY <2>2 DEF Elems
  <2> QED  BY <2>1, <2>2, <2>3
<1>5. q \in Seq(1..PortEnd)
  <2> DEFINE n == Len(q)
             S == 1..PortEnd
             r == [j \in 1..n |-> q[j]]
  <2>1. r = q /\ n \in Nat /\ \A j \in 1..n : q[j] \in S
    BY <1>4
  <2> HIDE DEF n, S
  <2>2. r \in Seq(S)
    BY <2>1
  <2> QED  BY <2>1, <2>2 DEF S
<1>6. \A k \in kids : k.port \in 1..PortEnd
  BY <1>1, <1>3
<1> QED  BY <1>3, <1>5, <1>6 DEF q, next

(* Every value the daemon, the state file and the registry hold is of its  *)
(* type; a child is of a live instance and has a port of the range.        *)
THEOREM DaemonTypes == Spec => []TypeOK
<1>1. IInv => TypeOK
  <2> SUFFICES ASSUME IInv  PROVE TypeOK
    OBVIOUS
  <2>1. \A n \in Live : n \in Name /\ app.inst[n] \in Instance
    BY LiveFacts DEF IInv
  <2>2. kids \subseteq [name : Live, gen : Nat, sha : Sha, port : 1..PortEnd]
    <3>1. \A k \in kids : k \in Kid /\ k.name \in Live /\ k.port \in 1..PortEnd
      BY PoolTypes DEF IInv, Types, Family
    <3> QED  BY <3>1 DEF Kid
  <2>3. /\ disk \in [Name -> Seq(Sha)] /\ file \in [Name -> Sha \cup {None}]
        /\ registry \in SUBSET (Name \ Static)
    BY DEF IInv, Types
  <2>4. \A n \in Name : disk[n] \in Seq(Sha) /\ file[n] \in Sha \cup {None}
    BY <2>3
  <2> QED  BY <2>1, <2>2, <2>3, <2>4, PoolTypes DEF TypeOK
<1> QED  BY <1>1, AlwaysSound, PTL

(* Whichever way a child ends (drained, killed, removed with its preview,  *)
(* never spawned), its port comes back once: PortAllocator loses no port   *)
(* and hands none out twice, for every range.                              *)
THEOREM NoPortIsLost == Spec => []PortsAccounted
<1>1. IInv => PortsAccounted
  <2> SUFFICES ASSUME IInv  PROVE PortsAccounted
    OBVIOUS
  <2>1. Accounts(ports, kids) /\ IsFiniteSet(kids)
    BY DEF IInv, Pool, Types
  <2>2. Len(ports.free) + Cardinality(kids) = ports.next - 1
    BY <2>1, AccountsCount
  <2>3. Elems(ports.free) \cup {k.port : k \in kids} = 1..ports.next - 1
    BY <2>1 DEF Accounts
  <2> QED  BY <2>2, <2>3 DEF PortsAccounted
<1> QED  BY <1>1, AlwaysSound, PTL

(* Between two events Runtime::children holds the child that serves, the   *)
(* one that boots and those that drain and no others, and the proxy points *)
(* at the one that serves, whatever fails, is superseded or removed.       *)
THEOREM ChildrenAlwaysMatch == Spec => []ChildrenMatch
<1>1. IInv => ChildrenMatch
  <2> SUFFICES ASSUME IInv, hand = None, NEW n \in Live
               PROVE  LET i == app.inst[n]
                          held == ServingGen(i) \cup i.draining
                          boots == IF i.pipe.at = "probing" THEN {i.pipe.gen} ELSE {}
                      IN /\ held \subseteq Gens(KidsOf(n)) /\ Gens(KidsOf(n)) \subseteq held \cup boots
                         /\ IF i.serving = None THEN slot[n] = None
                            ELSE \E k \in KidsOf(n) :
                                   /\ k.gen = i.serving.gen /\ k.sha = i.serving.sha
                                   /\ slot[n] = [port |-> k.port, gen |-> k.gen]
    BY DEF ChildrenMatch
  <2> DEFINE i == app.inst[n]
  <2>1. Ahead = {}
    BY Sets DEF IInv
  <2>2. Matched(n) /\ Upstream(n)
    BY <2>1 DEF IInv, Family, Slots
  <2>3. /\ \A g \in HeldGens(i) : \E k \in kids : k.name = n /\ k.gen = g
        /\ \A k \in kids : k.name = n => k.gen \in HeldGens(i) \cup BootGen(i)
    BY <2>1, <2>2 DEF Matched, Killed
  <2>4. IF i.serving = None THEN slot[n] = None
        ELSE \E k \in KidsOf(n) : /\ k.gen = i.serving.gen /\ k.sha = i.serving.sha
                                  /\ slot[n] = [port |-> k.port, gen |-> k.gen]
    BY <2>2 DEF Upstream, KidsOf
  <2>5. HeldGens(i) \subseteq Gens(KidsOf(n)) /\ Gens(KidsOf(n)) \subseteq HeldGens(i) \cup BootGen(i)
    BY <2>3 DEF Gens, KidsOf
  <2> QED  BY <2>4, <2>5 DEF HeldGens, BootGen
<1> QED  BY <1>1, AlwaysSound, PTL

(* No prune, neither that of a promotion nor that of a full disk, deletes  *)
(* the bundle a tracked child runs from or the last green's, from which a  *)
(* respawn would start.                                                    *)
THEOREM NoBundleInUseIsPruned == Spec => []BundlesOutliveTheirUsers
<1>1. IInv => BundlesOutliveTheirUsers
  <2> SUFFICES ASSUME IInv  PROVE BundlesOutliveTheirUsers
    OBVIOUS
  <2>1. /\ \A k \in kids : k.sha \in Elems(disk[k.name])
        /\ \A n \in Live : app.inst[n].lastGreen # None => app.inst[n].lastGreen \in Elems(disk[n])
    BY DEF IInv, Bundles, OnDisk
  <2> QED  BY <2>1 DEF BundlesOutliveTheirUsers
<1> QED  BY <1>1, AlwaysSound, PTL

(* While a pipeline is busy the order, the thread or its message in the    *)
(* channel exists: no failed spawn, removal or superseded attempt leaves   *)
(* the policy waiting for an answer nobody will give.                      *)
THEOREM NobodyWaitsInVain == Spec => []NothingIsLost
<1>1. IInv => NothingIsLost
  BY NobodyLost DEF IInv
<1> QED  BY <1>1, AlwaysSound, PTL

\* Only a promotion of the instance itself prunes what the state file names.
LEMMA RecoveryStep ==
  ASSUME IInv, [Next]_vars, NEW n \in Static, file[n] \in Elems(disk[n]),
         file[n] \notin Elems(disk'[n])
  PROVE  At({"Promote"}) /\ hand.name = n
<1>1. /\ disk \in [Name -> Seq(Sha)] /\ n \in Name /\ n \in Live
      /\ builders \in SUBSET [name : Name, gen : Nat, sha : Sha]
  BY StaticAssumption DEF IInv, Types
<1>2. disk' # disk
  OBVIOUS
<1>3. ASSUME Promote  PROVE At({"Promote"}) /\ hand.name = n
  <2> DEFINE o == Head(hand.todo)
  <2>1. At({"Promote"}) /\ Done /\ \A m \in Name : m # o.name => disk'[m] = disk[m]
    BY <1>1, <1>3 DEF Promote
  <2>2. o \in Order /\ o.act \in {"Promote"} /\ Ahead = {o} \cup Ahead'
    BY <2>1, Popped DEF IInv
  <2> HIDE DEF o
  <2>3. o.name = hand.name
    BY <2>2 DEF IInv, Ordering, Fitting
  <2> QED  BY <1>1, <2>1, <2>3
<1>4. ASSUME TakeEvent  PROVE FALSE
  <2>1. hand = None /\ agenda = <<>> /\ \E m : disk' = disk \/ disk' = PressurePrune(m)
    BY <1>4 DEF TakeEvent, Ready
  <2>2. PICK m : disk' = PressurePrune(m)
    BY <1>2, <2>1
  <2>3. Named(n) /\ ~ \E x \in Elems(agenda) : TRUE
    BY <2>1, ElemsEmpty DEF IInv, Pointer
  <2>4. file[n] = app.inst[n].lastGreen
    BY <2>1, <2>3 DEF Named, OnDisk
  <2>5. file[n] \in Protected(app, n)
    BY <1>1, <2>4, ProtectedFacts DEF IInv
  <2> QED  BY <1>1, <2>2, <2>5, PressureSpares DEF Spares, OnDisk
<1>5. ASSUME NEW m \in Name, RemovePreview(m)  PROVE FALSE
  <2>1. m # n /\ disk' = [disk EXCEPT ![m] = <<>>]
    BY <1>5 DEF RemovePreview
  <2> QED  BY <1>1, <2>1
<1>6. ASSUME NEW b \in builders, NEW outcome \in BuildOutcome, BuildEnds(b, outcome)  PROVE FALSE
  <2>1. b.name \in Name /\ b.sha \in Sha
    BY <1>1
  <2>2. disk[b.name] \in Seq(Sha)
    BY <1>1, <2>1
  <2>3. Elems(disk[b.name]) \subseteq Elems(Harvest(disk[b.name], b.sha))
    BY <2>1, <2>2, HarvestFacts
  <2>4. disk' = disk \/ disk' = [disk EXCEPT ![b.name] = Harvest(disk[b.name], b.sha)]
    BY <1>6 DEF BuildEnds
  <2> QED  BY <1>1, <1>2, <2>1, <2>3, <2>4
<1>7. CASE Control
  <2>1. disk' # disk => Promote \/ TakeEvent
    BY <1>7 DEF Control, StartBuild, SpawnAndProbe, CannotSpawn, StartDrain, KillStandby,
       RecordRedOrder, Persist, FromAgenda, durable
  <2> QED  BY <1>2, <1>3, <1>4, <2>1
<1>8. ASSUME NEW m \in Name, AddPreview(m) \/ RemovePreview(m) \/ Poll(m)  PROVE FALSE
  BY <1>2, <1>5, <1>8 DEF AddPreview, Poll, durable
<1>9. CASE \/ \E p \in procs : Bind(p)
           \/ \E b \in probes : ProbeEnds(b)
           \/ \E t \in stoppers : StopEnds(t)
           \/ \E m \in Name, sha \in Sha : Push(m, sha)
           \/ Restart \/ UNCHANGED vars
  BY <1>2, <1>9 DEF Bind, ProbeEnds, StopEnds, Push, Restart, durable, vars
<1> QED  BY <1>6, <1>7, <1>8, <1>9 DEF Next

(* The bundle the state file names for a static instance, from which a     *)
(* restart serves, goes in no step but a promotion of that instance, whose *)
(* own Persist is next: no pressure prune, failed build, removal or other  *)
(* instance takes it (prune_bundles, protected_shas).                      *)
THEOREM RecoveryStaysPut == Spec => RecoveryStays
<1>1. IInv /\ [Next]_vars =>
        [\A n \in Static :
           /\ file[n] \in Elems(disk[n]) /\ file[n] \notin Elems(disk'[n])
           => At({"Promote"}) /\ hand.name = n]_vars
  <2> SUFFICES ASSUME IInv, [Next]_vars, NEW n \in Static, file[n] \in Elems(disk[n]),
                      file[n] \notin Elems(disk'[n])
               PROVE  At({"Promote"}) /\ hand.name = n
    OBVIOUS
  <2> QED  BY RecoveryStep
<1> QED  BY <1>1, AlwaysSound, PTL DEF Spec, RecoveryStays
=============================================================================
