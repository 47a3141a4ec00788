-------------------------- MODULE AppMachine_proofs --------------------------
(***************************************************************************)
(* What holds of the app-serve lifecycle for every set of instances and    *)
(* commits, every number of build slots and every history: builds          *)
(* converge, a promotion is earned, the newest head is not forgotten, no   *)
(* slot is left idle beside a waiter.                                      *)
(***************************************************************************)
EXTENDS AppMachine, TLAPS, FiniteSetTheorems

-----------------------------------------------------------------------------
(* The invariant of a state s in the middle of a step: A are the attempts  *)
(* under way when the step began, G[n] the commits n has seen green.       *)

Attempting == {"StartBuild", "SpawnAndProbe", "Respawn"}
AttemptOf(o) == [kind |-> IF o.act = "StartBuild" THEN "build" ELSE "probe",
                 name |-> o.name, sha |-> o.sha, gen |-> o.gen]
Work(s, A) == A \cup Ordered(s)

\* What an attempt may still have to do with its instance's pipeline.
Matches(a, p) ==
  /\ a.kind = "build" /\ p.at = "building" /\ p.gen = a.gen => p.sha = a.sha
  /\ a.kind = "probe" /\ p.at = "probing" /\ p.gen = a.gen => p.sha = a.sha
  /\ a.kind = "probe" /\ p.at = "building" => p.gen # a.gen

Fits(i, n, B, g, greens) ==
  /\ i \in Instance
  /\ i.pipe.at \in {"building", "probing"} => i.pipe.gen < g
  /\ \A a \in B : a.name = n => Matches(a, i.pipe)
  /\ i.pipe.at = "probing" => i.pipe.sha \in greens
  /\ i.lastGreen \in greens \cup {None}

Shape(s) ==
  /\ s \in [inst : {s.inst}, queue : Seq(Name), building : SUBSET Name, gen : Nat, out : Seq(Order)]
  /\ DOMAIN s.inst \in SUBSET Name
  /\ s.inst = [n \in DOMAIN s.inst |-> s.inst[n]]

QueueOK(s) ==
  /\ \A k \in 1..Len(s.queue) : /\ s.queue[k] \in DOMAIN s.inst
                                /\ s.inst[s.queue[k]].pipe.at = "queued"
  /\ \A j, k \in 1..Len(s.queue) : s.queue[j] = s.queue[k] => j = k

SlotsOK(s) ==
  /\ \A n \in s.building : n \in DOMAIN s.inst /\ s.inst[n].pipe.at = "building"
  /\ Cardinality(s.building) <= MaxConcurrent

Sound(s, A, G) ==
  /\ Shape(s) /\ QueueOK(s) /\ SlotsOK(s)
  /\ \A a \in Work(s, A) : a \in Attempt /\ a.gen < s.gen
  /\ \A n \in DOMAIN s.inst : Fits(s.inst[n], n, Work(s, A), s.gen, G[n])

\* What the operators that settle a pipeline leave alone.
Same(i, j) ==
  /\ j.serving = i.serving /\ j.draining = i.draining /\ j.lastGreen = i.lastGreen
  /\ j.enospc = i.enospc /\ j.indeterminate = i.indeterminate

Kept(s, t) ==
  /\ DOMAIN t.inst = DOMAIN s.inst
  /\ \A m \in DOMAIN s.inst : Same(s.inst[m], t.inst[m])
  /\ s.gen <= t.gen
  /\ Orders(s) \subseteq Orders(t)
  /\ \A a \in Ordered(t) : a \in Ordered(s) \/ s.gen <= a.gen

-----------------------------------------------------------------------------
(* Records and orders.                                                     *)

LEMMA PipeFacts ==
  ASSUME NEW p \in Pipeline
  PROVE  /\ p.at \in {"idle", "queued", "building", "probing"}
         /\ p.at = "idle" <=> p = Idle
         /\ p.at # "idle" => p.sha \in Sha
         /\ p.at \in {"building", "probing"} => p.gen \in Nat
BY DEF Pipeline, Idle

LEMMA RestTypes ==
  ASSUME NEW sha \in Sha
  PROVE  /\ Idle \in Pipeline /\ Queued(sha) \in Pipeline
         /\ Idle.at = "idle"
         /\ Queued(sha).at = "queued" /\ Queued(sha).sha = sha
BY DEF Pipeline, Idle, Queued

LEMMA BuildingType ==
  ASSUME NEW sha \in Sha, NEW g \in Nat
  PROVE  /\ Building(sha, g) \in Pipeline
         /\ Building(sha, g).at = "building" /\ Building(sha, g).sha = sha
         /\ Building(sha, g).gen = g
BY DEF Pipeline, Building

\* r is q without its first k elements.
IsTail(r, q, k, S) ==
  /\ r \in Seq(S) /\ Len(r) = Len(q) - k
  /\ \A j \in 1..Len(r) : k + j \in 1..Len(q) /\ r[j] = q[k + j]

LEMMA TailFacts ==
  ASSUME NEW S, NEW q \in Seq(S), NEW k \in Nat, k <= Len(q)
  PROVE  IsTail(SubSeq(q, k + 1, Len(q)), q, k, S)
<1>1. Len(q) \in Nat
  OBVIOUS
<1>2. Len(SubSeq(q, k + 1, Len(q))) = Len(q) - k
  BY <1>1
<1>3. ASSUME NEW j \in 1..(Len(q) - k)
      PROVE  k + j \in 1..Len(q) /\ SubSeq(q, k + 1, Len(q))[j] = q[k + j]
  BY <1>1
<1>4. SubSeq(q, k + 1, Len(q)) \in Seq(S)
  BY <1>1, <1>2, <1>3
<1> QED  BY <1>2, <1>3, <1>4 DEF IsTail

LEMMA SoundFields ==
  ASSUME NEW s, NEW A, NEW G, Sound(s, A, G)
  PROVE  /\ s = [inst |-> s.inst, queue |-> s.queue, building |-> s.building,
                 gen |-> s.gen, out |-> s.out]
         /\ s.queue \in Seq(Name) /\ s.building \in SUBSET Name /\ s.gen \in Nat
         /\ s.out \in Seq(Order)
         /\ IsFiniteSet(s.building) /\ Cardinality(s.building) \in Nat
<1>1. Shape(s)
  BY DEF Sound
<1>2. s \in [inst : {s.inst}, queue : Seq(Name), building : SUBSET Name, gen : Nat,
             out : Seq(Order)]
  BY <1>1 DEF Shape
<1>3. s.building \in SUBSET Name /\ s.gen \in Nat /\ s.queue \in Seq(Name)
      /\ s.out \in Seq(Order)
  BY <1>2
<1>4. IsFiniteSet(s.building) /\ Cardinality(s.building) \in Nat
  BY <1>3, SlotAssumption, FS_Subset, FS_CardinalityType
<1>5. s = [inst |-> s.inst, queue |-> s.queue, building |-> s.building,
           gen |-> s.gen, out |-> s.out]
  BY <1>2
<1> QED  BY <1>3, <1>4, <1>5

\* The orders are a set of records with their fields.
LEMMA OrderFields ==
  ASSUME NEW o \in Order
  PROVE  /\ o.act \in Attempting => AttemptOf(o) \in Attempt
         /\ o.act \in {"StartBuild", "SpawnAndProbe", "Respawn", "Promote", "StartDrain",
                       "KillStandby", "RecordRed"}
BY DEF Order, Attempting, AttemptOf, Attempt

LEMMA OrderedIs ==
  ASSUME NEW s
  PROVE  Ordered(s) = {AttemptOf(o) : o \in {x \in Orders(s) : x.act \in Attempting}}
BY DEF Ordered, AttemptOf, Attempting

LEMMA EmitOrders ==
  ASSUME NEW s, NEW A, NEW G, Sound(s, A, G), NEW o \in Order
  PROVE  /\ Orders(Emit(s, o)) = Orders(s) \cup {o}
         /\ Emit(s, o).out \in Seq(Order)
<1>1. Emit(s, o).out = Append(s.out, o) /\ s.out \in Seq(Order)
  <2>1. s = [inst |-> s.inst, queue |-> s.queue, building |-> s.building,
             gen |-> s.gen, out |-> s.out]
    BY SoundFields
  <2>2. Emit(s, o).out = Append(s.out, o)
    BY <2>1 DEF Emit
  <2> QED  BY <2>2, SoundFields
<1> DEFINE q == s.out
<1> HIDE DEF q
<1>2. q \in Seq(Order) /\ Emit(s, o).out = Append(q, o)
  BY <1>1 DEF q
<1>3. Len(q) \in Nat /\ DOMAIN q = 1..Len(q) /\ DOMAIN Append(q, o) = 1..(Len(q) + 1)
      /\ Append(q, o) \in Seq(Order)
  BY <1>2
<1>4. \A k \in 1..(Len(q) + 1) : Append(q, o)[k] = IF k = Len(q) + 1 THEN o ELSE q[k]
  BY <1>2
<1>5. {Append(q, o)[k] : k \in 1..(Len(q) + 1)} = {q[k] : k \in 1..Len(q)} \cup {o}
  <2>1. ASSUME NEW k \in 1..(Len(q) + 1)
        PROVE  Append(q, o)[k] \in {q[j] : j \in 1..Len(q)} \cup {o}
    <3>1. CASE k = Len(q) + 1  BY <3>1, <1>3, <1>4
    <3>2. CASE k # Len(q) + 1
      <4>1. k \in 1..Len(q)  BY <3>2, <1>3
      <4> QED  BY <4>1, <3>2, <1>4
    <3> QED  BY <3>1, <3>2
  <2>2. o = Append(q, o)[Len(q) + 1] /\ Len(q) + 1 \in 1..(Len(q) + 1)
    BY <1>3, <1>4
  <2>3. ASSUME NEW k \in 1..Len(q)
        PROVE  k \in 1..(Len(q) + 1) /\ q[k] = Append(q, o)[k]
    BY <1>3, <1>4
  <2> QED  BY <2>1, <2>2, <2>3
<1> QED  BY <1>1, <1>2, <1>3, <1>5 DEF Orders, q

LEMMA EmitOrdered ==
  ASSUME NEW s, NEW A, NEW G, Sound(s, A, G), NEW o \in Order
  PROVE  Ordered(Emit(s, o)) =
           Ordered(s) \cup IF o.act \in Attempting THEN {AttemptOf(o)} ELSE {}
<1>1. Orders(Emit(s, o)) = Orders(s) \cup {o}
  BY EmitOrders
<1>2. Ordered(s) = {AttemptOf(x) : x \in {y \in Orders(s) : y.act \in Attempting}}
  BY OrderedIs
<1>3. Ordered(Emit(s, o)) = {AttemptOf(x) : x \in {y \in Orders(Emit(s, o)) : y.act \in Attempting}}
  BY OrderedIs
<1> QED  BY <1>1, <1>2, <1>3

\* What an emitted order leaves as it was.
LEMMA EmitFields ==
  ASSUME NEW s, NEW A, NEW G, Sound(s, A, G), NEW o \in Order
  PROVE  /\ Emit(s, o) = [inst |-> s.inst, queue |-> s.queue, building |-> s.building,
                          gen |-> s.gen, out |-> Emit(s, o).out]
         /\ Emit(s, o).inst = s.inst /\ Emit(s, o).queue = s.queue
         /\ Emit(s, o).building = s.building /\ Emit(s, o).gen = s.gen
<1>1. s = [inst |-> s.inst, queue |-> s.queue, building |-> s.building,
           gen |-> s.gen, out |-> s.out]
  BY SoundFields
<1> DEFINE q == Append(s.out, o)
           t == Emit(s, o)
<1>2. t = [s EXCEPT !.out = q]
  BY DEF Emit
<1> HIDE DEF q, t
<1>3. t = [inst |-> s.inst, queue |-> s.queue, building |-> s.building, gen |-> s.gen,
           out |-> q]
  BY <1>1, <1>2
<1>4. /\ t.inst = s.inst /\ t.queue = s.queue /\ t.building = s.building /\ t.gen = s.gen
      /\ t.out = q
  BY <1>3
<1> QED  BY <1>3, <1>4 DEF t

\* An order for an attempt must be for the pipeline its instance has.
LEMMA EmitSound ==
  ASSUME NEW s, NEW A, NEW G, Sound(s, A, G), NEW o \in Order,
         o.act \in Attempting =>
           /\ o.gen < s.gen
           /\ o.name \in DOMAIN s.inst => Matches(AttemptOf(o), s.inst[o.name].pipe)
  PROVE  Sound(Emit(s, o), A, G)
<1> DEFINE t == Emit(s, o)
<1>1. /\ t = [inst |-> s.inst, queue |-> s.queue, building |-> s.building,
              gen |-> s.gen, out |-> t.out]
      /\ t.inst = s.inst /\ t.queue = s.queue /\ t.building = s.building /\ t.gen = s.gen
  BY EmitFields
<1>2. t.out \in Seq(Order)
  BY EmitOrders
<1>3. Ordered(t) = Ordered(s) \cup IF o.act \in Attempting THEN {AttemptOf(o)} ELSE {}
  BY EmitOrdered
<1>4. o.act \in Attempting => /\ AttemptOf(o) \in Attempt
                              /\ AttemptOf(o).gen = o.gen /\ AttemptOf(o).name = o.name
  BY OrderFields DEF AttemptOf
<1> HIDE DEF t
<1>5. Shape(t)
  <2>1. Shape(s)
    BY DEF Sound
  <2>2. t \in [inst : {t.inst}, queue : Seq(Name), building : SUBSET Name, gen : Nat,
               out : Seq(Order)]
    BY <1>1, <1>2, SoundFields
  <2> QED  BY <1>1, <2>1, <2>2 DEF Shape
<1>6. QueueOK(t) /\ SlotsOK(t)
  BY <1>1 DEF Sound, QueueOK, SlotsOK
<1>7. \A a \in Work(t, A) : a \in Attempt /\ a.gen < t.gen
  BY <1>1, <1>3, <1>4 DEF Sound, Work
<1>8. ASSUME NEW n \in DOMAIN t.inst
      PROVE  Fits(t.inst[n], n, Work(t, A), t.gen, G[n])
  <2>1. Fits(s.inst[n], n, Work(s, A), s.gen, G[n])
    BY <1>1, <1>8 DEF Sound
  <2>2. \A a \in Work(t, A) : a.name = n => Matches(a, s.inst[n].pipe)
    BY <1>1, <1>3, <1>4, <1>8, <2>1 DEF Fits, Work
  <2> QED  BY <1>1, <2>1, <2>2 DEF Fits
<1>9. Sound(t, A, G)
  BY <1>5, <1>6, <1>7, <1>8 DEF Sound
<1> QED  BY <1>9 DEF t

\* One instance gets a new record.
Put(s, n, i) == [s EXCEPT !.inst[n] = i]

\* t is s, but for the record of n.
IsPut(t, s, n, i) ==
  /\ t = [inst |-> [s.inst EXCEPT ![n] = i], queue |-> s.queue,
          building |-> s.building, gen |-> s.gen, out |-> s.out]
  /\ DOMAIN t.inst = DOMAIN s.inst /\ t.inst[n] = i
  /\ \A m \in DOMAIN s.inst : m # n => t.inst[m] = s.inst[m]
  /\ t.inst = [m \in DOMAIN s.inst |-> t.inst[m]]
  /\ t.queue = s.queue /\ t.building = s.building /\ t.gen = s.gen /\ t.out = s.out
  /\ Orders(t) = Orders(s) /\ Ordered(t) = Ordered(s)

LEMMA PutFields ==
  ASSUME NEW s, NEW A, NEW G, Sound(s, A, G), NEW n \in DOMAIN s.inst, NEW i
  PROVE  IsPut(Put(s, n, i), s, n, i)
<1>1. s = [inst |-> s.inst, queue |-> s.queue, building |-> s.building,
           gen |-> s.gen, out |-> s.out]
  BY SoundFields
<1>2. s.inst = [m \in DOMAIN s.inst |-> s.inst[m]]
  BY DEF Sound, Shape
<1> DEFINE f == [s.inst EXCEPT ![n] = i]
<1>3. /\ DOMAIN f = DOMAIN s.inst /\ f[n] = i
      /\ \A m \in DOMAIN s.inst : m # n => f[m] = s.inst[m]
      /\ f = [m \in DOMAIN s.inst |-> f[m]]
  BY <1>2
<1>4. Put(s, n, i) = [inst |-> f, queue |-> s.queue, building |-> s.building,
                      gen |-> s.gen, out |-> s.out]
  BY <1>1 DEF Put
<1> HIDE DEF f
<1>5. /\ Put(s, n, i).inst = f /\ Put(s, n, i).queue = s.queue
      /\ Put(s, n, i).building = s.building
      /\ Put(s, n, i).gen = s.gen /\ Put(s, n, i).out = s.out
  BY <1>4
<1>6. Orders(Put(s, n, i)) = Orders(s)
  BY <1>5 DEF Orders
<1>7. Ordered(Put(s, n, i)) = Ordered(s)
  BY <1>6, OrderedIs
<1> QED  BY <1>3, <1>4, <1>5, <1>6, <1>7 DEF f, IsPut

LEMMA PutAnySound ==
  ASSUME NEW s, NEW A, NEW G, Sound(s, A, G), NEW n \in DOMAIN s.inst, NEW i,
         Fits(i, n, Work(s, A), s.gen, G[n]),
         \A k \in 1..Len(s.queue) : s.queue[k] = n => i.pipe.at = "queued",
         n \in s.building => i.pipe.at = "building"
  PROVE  Sound(Put(s, n, i), A, G)
<1> DEFINE t == Put(s, n, i)
<1>0. IsPut(t, s, n, i)
  BY PutFields
<1> HIDE DEF t
<1>1. /\ t = [inst |-> [s.inst EXCEPT ![n] = i], queue |-> s.queue,
              building |-> s.building, gen |-> s.gen, out |-> s.out]
      /\ DOMAIN t.inst = DOMAIN s.inst /\ t.inst[n] = i
      /\ \A m \in DOMAIN s.inst : m # n => t.inst[m] = s.inst[m]
      /\ t.inst = [m \in DOMAIN s.inst |-> t.inst[m]]
      /\ t.queue = s.queue /\ t.building = s.building /\ t.gen = s.gen /\ t.out = s.out
      /\ Ordered(t) = Ordered(s)
  BY <1>0 DEF IsPut
<1>2. Shape(t)
  <2>1. Shape(s)
    BY DEF Sound
  <2>2. t \in [inst : {t.inst}, queue : Seq(Name), building : SUBSET Name, gen : Nat,
               out : Seq(Order)]
    BY <1>1, SoundFields
  <2> QED  BY <1>1, <2>1, <2>2 DEF Shape
<1>3. QueueOK(t) /\ SlotsOK(t)
  BY <1>1 DEF Sound, QueueOK, SlotsOK
<1>4. Work(t, A) = Work(s, A)
  BY <1>1 DEF Work
<1>5. ASSUME NEW m \in DOMAIN t.inst
      PROVE  Fits(t.inst[m], m, Work(t, A), t.gen, G[m])
  BY <1>1, <1>4, <1>5 DEF Sound
<1>6. Sound(t, A, G)
  BY <1>1, <1>2, <1>3, <1>4, <1>5 DEF Sound
<1> QED  BY <1>6 DEF t

LEMMA PutSound ==
  ASSUME NEW s, NEW A, NEW G, Sound(s, A, G), NEW n \in DOMAIN s.inst, NEW i,
         Fits(i, n, Work(s, A), s.gen, G[n]),
         s.inst[n].pipe.at = "queued" => i.pipe.at = "queued",
         n \in s.building => i.pipe.at = "building"
  PROVE  Sound(Put(s, n, i), A, G)
<1>1. \A k \in 1..Len(s.queue) : s.queue[k] = n => i.pipe.at = "queued"
  BY DEF Sound, QueueOK
<1> QED  BY <1>1, PutAnySound

\* A record that only changes what is not about the pipeline, or is at rest.
LEMMA CalmFits ==
  ASSUME NEW i, NEW n, NEW B, NEW g, NEW greens, Fits(i, n, B, g, greens),
         NEW j \in Instance, j.lastGreen = i.lastGreen,
         j.pipe = i.pipe \/ j.pipe.at \in {"idle", "queued"}
  PROVE  Fits(j, n, B, g, greens)
<1>1. CASE j.pipe = i.pipe
  BY <1>1 DEF Fits
<1>2. CASE j.pipe.at \in {"idle", "queued"}
  <2>1. \A a \in B : Matches(a, j.pipe)
    BY <1>2 DEF Matches
  <2> QED  BY <1>2, <2>1 DEF Fits
<1> QED  BY <1>1, <1>2

-----------------------------------------------------------------------------
(* Kept is a preorder.                                                     *)

LEMMA KeptReflexive ==
  ASSUME NEW s, NEW A, NEW G, Sound(s, A, G)
  PROVE  Kept(s, s)
BY SoundFields DEF Kept, Same

LEMMA KeptTransitive ==
  ASSUME NEW s, NEW t, NEW u, NEW A, NEW G,
         Sound(s, A, G), Sound(t, A, G), Sound(u, A, G), Kept(s, t), Kept(t, u)
  PROVE  Kept(s, u)
<1>1. s.gen \in Nat /\ t.gen \in Nat /\ u.gen \in Nat
  BY SoundFields
<1>2. \A a \in Ordered(u) : a.gen \in Nat
  BY DEF Sound, Work, Attempt
<1>3. \A a \in Ordered(u) : a \in Ordered(s) \/ s.gen <= a.gen
  BY <1>1, <1>2 DEF Kept
<1> QED  BY <1>1, <1>3 DEF Kept, Same

LEMMA PutKept ==
  ASSUME NEW s, NEW A, NEW G, Sound(s, A, G), NEW n \in DOMAIN s.inst, NEW i,
         Same(s.inst[n], i)
  PROVE  Kept(s, Put(s, n, i))
<1> DEFINE t == Put(s, n, i)
<1>0. IsPut(t, s, n, i)
  BY PutFields
<1> HIDE DEF t
<1>1. /\ DOMAIN t.inst = DOMAIN s.inst /\ t.inst[n] = i
      /\ \A m \in DOMAIN s.inst : m # n => t.inst[m] = s.inst[m]
      /\ t.gen = s.gen /\ Orders(t) = Orders(s) /\ Ordered(t) = Ordered(s)
  BY <1>0 DEF IsPut
<1>2. s.gen <= t.gen
  BY <1>1, SoundFields
<1>3. \A m \in DOMAIN s.inst : Same(s.inst[m], t.inst[m])
  BY <1>1 DEF Same
<1>4. Kept(s, t)
  BY <1>1, <1>2, <1>3 DEF Kept
<1> QED  BY <1>4 DEF t

LEMMA EmitKept ==
  ASSUME NEW s, NEW A, NEW G, Sound(s, A, G), NEW o \in Order, o.act \notin Attempting
  PROVE  Kept(s, Emit(s, o)) /\ Sound(Emit(s, o), A, G)
<1>1. Kept(s, Emit(s, o))
  BY EmitFields, EmitOrders, EmitOrdered, SoundFields DEF Kept, Same
<1> QED  BY <1>1, EmitSound

LEMMA PutKeeps ==
  ASSUME NEW s, NEW A, NEW G, Sound(s, A, G), NEW n \in DOMAIN s.inst, NEW i,
         Fits(i, n, Work(s, A), s.gen, G[n]), Same(s.inst[n], i),
         s.inst[n].pipe.at = "queued" => i.pipe.at = "queued",
         n \in s.building => i.pipe.at = "building"
  PROVE  Sound(Put(s, n, i), A, G) /\ Kept(s, Put(s, n, i))
BY PutSound, PutKept

LEMMA InstanceFacts ==
  ASSUME NEW s, NEW A, NEW G, Sound(s, A, G), NEW n \in DOMAIN s.inst
  PROVE  /\ n \in Name /\ s.inst[n] \in Instance
         /\ Fits(s.inst[n], n, Work(s, A), s.gen, G[n])
         /\ s.inst[n].pipe \in Pipeline
         /\ s.inst[n].lastGreen \in Sha \cup {None}
         /\ s.inst[n].pending \in Sha \cup {None}
<1>1. Fits(s.inst[n], n, Work(s, A), s.gen, G[n])
  BY DEF Sound
<1>2. s.inst[n] \in Instance
  BY <1>1 DEF Fits
<1>3. n \in Name
  BY DEF Sound, Shape
<1> QED  BY <1>1, <1>2, <1>3 DEF Instance

-----------------------------------------------------------------------------
(* The build queue.                                                        *)

\* n enters the queue of u.
LEMMA JoinKeeps ==
  ASSUME NEW u, NEW A, NEW G, Sound(u, A, G), NEW n \in DOMAIN u.inst,
         u.inst[n].pipe.at = "queued", \A k \in 1..Len(u.queue) : u.queue[k] # n
  PROVE  /\ Sound([u EXCEPT !.queue = Append(@, n)], A, G)
         /\ Kept(u, [u EXCEPT !.queue = Append(@, n)])
<1> DEFINE q == Append(u.queue, n)
           t == [u EXCEPT !.queue = q]
<1>1. /\ u = [inst |-> u.inst, queue |-> u.queue, building |-> u.building,
              gen |-> u.gen, out |-> u.out]
      /\ u.queue \in Seq(Name) /\ u.building \in SUBSET Name /\ u.gen \in Nat
      /\ u.out \in Seq(Order)
  BY SoundFields
<1> HIDE DEF q
<1>2. t = [inst |-> u.inst, queue |-> q, building |-> u.building, gen |-> u.gen, out |-> u.out]
  BY <1>1
<1>3. n \in Name
  BY InstanceFacts
<1>4. /\ q \in Seq(Name) /\ Len(q) = Len(u.queue) + 1 /\ Len(u.queue) \in Nat
      /\ q[Len(q)] = n /\ \A k \in 1..Len(u.queue) : q[k] = u.queue[k]
  BY <1>1, <1>3 DEF q
<1> HIDE DEF t
<1>5. /\ t.inst = u.inst /\ t.queue = q /\ t.building = u.building /\ t.gen = u.gen
      /\ t.out = u.out
  BY <1>2
<1>6. Orders(t) = Orders(u)
  BY <1>5 DEF Orders
<1>7. Ordered(t) = Ordered(u)
  BY <1>6, OrderedIs
<1>8. Shape(t)
  <2>1. t \in [inst : {t.inst}, queue : Seq(Name), building : SUBSET Name, gen : Nat,
               out : Seq(Order)]
    BY <1>1, <1>2, <1>4
  <2> QED  BY <1>5, <2>1 DEF Shape, Sound
<1>9. QueueOK(t)
  <2>1. QueueOK(u)
    BY DEF Sound
  <2>2. \A k \in 1..Len(q) : k = Len(q) \/ k \in 1..Len(u.queue)
    BY <1>4
  <2>3. ASSUME NEW k \in 1..Len(q)
        PROVE  q[k] \in DOMAIN t.inst /\ t.inst[q[k]].pipe.at = "queued"
    BY <1>4, <1>5, <2>1, <2>2 DEF QueueOK
  <2>4. ASSUME NEW j \in 1..Len(q), NEW k \in 1..Len(q), q[j] = q[k]
        PROVE  j = k
    BY <1>4, <2>1, <2>2, <2>4 DEF QueueOK
  <2> QED  BY <1>5, <2>3, <2>4 DEF QueueOK
<1>10. SlotsOK(t)
  BY <1>5 DEF SlotsOK, Sound
<1>11. Work(t, A) = Work(u, A)
  BY <1>7 DEF Work
<1>12. Sound(t, A, G)
  BY <1>5, <1>8, <1>9, <1>10, <1>11 DEF Sound
<1>13. Kept(u, t)
  BY <1>1, <1>5, <1>6, <1>7 DEF Kept, Same
<1> QED  BY <1>12, <1>13 DEF t, q

LEMMA RequestBuildKeeps ==
  ASSUME NEW s, NEW A, NEW G, Sound(s, A, G), NEW n \in DOMAIN s.inst, NEW sha \in Sha
  PROVE  Sound(RequestBuild(s, n, sha), A, G) /\ Kept(s, RequestBuild(s, n, sha))
<1> DEFINE i == s.inst[n]
           j == [i EXCEPT !.pipe = Queued(sha)]
           u == Put(s, n, j)
<1>1. CASE Serves(i, sha) \/ i.lastRed = sha \/ i.pipe # Idle
  <2>1. RequestBuild(s, n, sha) = s
    BY <1>1 DEF RequestBuild
  <2> QED  BY <2>1, KeptReflexive
<1>2. CASE ~(Serves(i, sha) \/ i.lastRed = sha \/ i.pipe # Idle)
  <2>1. RequestBuild(s, n, sha) = [u EXCEPT !.queue = Append(@, n)]
    BY <1>2 DEF RequestBuild, SetPipe, Put
  <2>2. i \in Instance /\ Fits(i, n, Work(s, A), s.gen, G[n]) /\ i.pipe.at = "idle"
    BY <1>2, InstanceFacts, PipeFacts DEF Idle
  <2>3. Queued(sha) \in Pipeline /\ Queued(sha).at = "queued"
    BY RestTypes
  <2>4. j \in Instance /\ j.pipe = Queued(sha) /\ Same(i, j)
    BY <2>2, <2>3 DEF Instance, Same
  <2>5. Fits(j, n, Work(s, A), s.gen, G[n])
    BY <2>2, <2>3, <2>4, CalmFits DEF Same
  <2>6. n \notin s.building /\ \A k \in 1..Len(s.queue) : s.queue[k] # n
    BY <2>2 DEF Sound, SlotsOK, QueueOK
  <2> HIDE DEF j
  <2>7. Sound(u, A, G) /\ Kept(s, u)
    BY <2>2, <2>4, <2>5, <2>6, PutKeeps
  <2>8. IsPut(u, s, n, j)
    BY PutFields
  <2> HIDE DEF u
  <2>9. n \in DOMAIN u.inst /\ u.inst[n].pipe.at = "queued" /\ u.queue = s.queue
    BY <2>3, <2>4, <2>8 DEF IsPut
  <2> DEFINE t == [u EXCEPT !.queue = Append(@, n)]
  <2>10. Sound(t, A, G) /\ Kept(u, t)
    BY <2>6, <2>7, <2>9, JoinKeeps
  <2> HIDE DEF t
  <2>11. Kept(s, t)
    BY <2>7, <2>10, KeptTransitive
  <2> QED  BY <2>1, <2>10, <2>11 DEF t
<1> QED  BY <1>1, <1>2

Started(s) == {s.queue[j] : j \in 1..Starting(s)}
Place(s, n) == CHOOSE j \in 1..Starting(s) : s.queue[j] = n

IsDispatch(t, s) ==
  /\ t = [inst |-> t.inst, queue |-> t.queue, building |-> t.building, gen |-> t.gen,
          out |-> t.out]
  /\ t.inst = [n \in DOMAIN s.inst |-> IF Starts(s, n) THEN Launched(s, n) ELSE s.inst[n]]
  /\ t.building = s.building \cup Started(s)
  /\ t.queue = SubSeq(s.queue, Starting(s) + 1, Len(s.queue))
  /\ t.gen = s.gen + Starting(s)
  /\ t.out = s.out \o Launch(s)

LEMMA DispatchIs ==
  ASSUME NEW s, NEW A, NEW G, Sound(s, A, G)
  PROVE  IsDispatch(Dispatch(s), s)
<1>1. s = [inst |-> s.inst, queue |-> s.queue, building |-> s.building,
           gen |-> s.gen, out |-> s.out]
  BY SoundFields
<1> DEFINE f == [n \in DOMAIN s.inst |-> IF Starts(s, n) THEN Launched(s, n) ELSE s.inst[n]]
           q == SubSeq(s.queue, Starting(s) + 1, Len(s.queue))
           b == s.building \cup Started(s)
           g == s.gen + Starting(s)
           o == s.out \o Launch(s)
           t == Dispatch(s)
<1>2. t = [s EXCEPT !.inst = f, !.building = b, !.queue = q, !.gen = g, !.out = o]
  BY DEF Dispatch, Started
<1> HIDE DEF f, q, b, g, o, t
<1>3. t = [inst |-> f, queue |-> q, building |-> b, gen |-> g, out |-> o]
  BY <1>1, <1>2
<1>4. /\ t = [inst |-> t.inst, queue |-> t.queue, building |-> t.building, gen |-> t.gen,
              out |-> t.out]
      /\ t.inst = f /\ t.queue = q /\ t.building = b /\ t.gen = g /\ t.out = o
  BY <1>3
<1> QED  BY <1>4 DEF IsDispatch, f, q, b, g, o, t

LEMMA LaunchedIs ==
  ASSUME NEW s, NEW n
  PROVE  Launched(s, n) =
           [s.inst[n] EXCEPT !.pipe = Building(s.inst[n].pipe.sha, s.gen + Place(s, n) - 1)]
BY DEF Launched, Place

LEMMA StartingFacts ==
  ASSUME NEW s, NEW A, NEW G, Sound(s, A, G)
  PROVE  /\ Free(s) \in Nat /\ Starting(s) \in Nat /\ Len(s.queue) \in Nat
         /\ Starting(s) <= Len(s.queue) /\ Starting(s) <= Free(s)
         /\ Starting(s) = Len(s.queue) \/ Starting(s) = Free(s)
         /\ \A j \in 1..Starting(s) :
              /\ j \in 1..Len(s.queue) /\ s.queue[j] \in DOMAIN s.inst
              /\ s.inst[s.queue[j]].pipe.at = "queued"
              /\ Starts(s, s.queue[j]) /\ Place(s, s.queue[j]) = j
         /\ \A n : Starts(s, n) => /\ Place(s, n) \in 1..Starting(s)
                                   /\ s.queue[Place(s, n)] = n
<1>1. Cardinality(s.building) \in Nat /\ Len(s.queue) \in Nat
  BY SoundFields
<1>2. Cardinality(s.building) <= MaxConcurrent /\ QueueOK(s)
  BY DEF Sound, SlotsOK
<1>3. Free(s) \in Nat
  BY <1>1, <1>2, SlotAssumption DEF Free
<1>4. /\ Starting(s) \in Nat /\ Starting(s) <= Len(s.queue) /\ Starting(s) <= Free(s)
      /\ Starting(s) = Len(s.queue) \/ Starting(s) = Free(s)
  BY <1>1, <1>3 DEF Starting
<1>5. \A j \in 1..Starting(s) : j \in 1..Len(s.queue)
  BY <1>1, <1>4
<1>6. \A j, k \in 1..Starting(s) : s.queue[j] = s.queue[k] => j = k
  BY <1>2, <1>5 DEF QueueOK
<1>7. ASSUME NEW n, Starts(s, n)
      PROVE  Place(s, n) \in 1..Starting(s) /\ s.queue[Place(s, n)] = n
  BY <1>7 DEF Starts, Place
<1>8. ASSUME NEW j \in 1..Starting(s)
      PROVE  Starts(s, s.queue[j]) /\ Place(s, s.queue[j]) = j
  <2>1. Starts(s, s.queue[j])
    BY DEF Starts
  <2>2. Place(s, s.queue[j]) \in 1..Starting(s) /\ s.queue[Place(s, s.queue[j])] = s.queue[j]
    BY <2>1, <1>7
  <2> QED  BY <1>6, <2>1, <2>2
<1> QED  BY <1>1, <1>2, <1>3, <1>4, <1>5, <1>7, <1>8 DEF QueueOK

LEMMA LaunchElements ==
  ASSUME NEW s, NEW A, NEW G, Sound(s, A, G), NEW j \in 1..Starting(s)
  PROVE  Launch(s)[j] \in Order
<1> DEFINE n == s.queue[j]
<1>1. n \in DOMAIN s.inst /\ s.inst[n].pipe.at = "queued" /\ Starting(s) \in Nat
  BY StartingFacts
<1>2. n \in Name /\ s.inst[n].pipe \in Pipeline
  BY <1>1, InstanceFacts
<1>3. s.inst[n].pipe.sha \in Sha
  BY <1>1, <1>2, PipeFacts
<1>4. s.gen + j - 1 \in Nat
  BY <1>1, SoundFields
<1>5. Launch(s)[j] = [act |-> "StartBuild", name |-> n, sha |-> s.inst[n].pipe.sha,
                      gen |-> s.gen + j - 1]
  BY DEF Launch
<1> QED  BY <1>2, <1>3, <1>4, <1>5 DEF Order

LEMMA LaunchOrders ==
  ASSUME NEW s, NEW A, NEW G, Sound(s, A, G), NEW t, IsDispatch(t, s)
  PROVE  /\ t.out \in Seq(Order)
         /\ Orders(s) \subseteq Orders(t)
         /\ \A o \in Orders(t) : o \in Orders(s) \/ \E j \in 1..Starting(s) : o = Launch(s)[j]
         /\ \A j \in 1..Starting(s) : Launch(s)[j] \in Orders(t)
<1> DEFINE k == Starting(s)
           l == Launch(s)
           q == s.out
<1>1. k \in Nat
  BY StartingFacts
<1>2. s.gen \in Nat /\ q \in Seq(Order)
  BY SoundFields
<1>3. ASSUME NEW j \in 1..k PROVE l[j] \in Order
  BY LaunchElements
<1>4. DOMAIN l = 1..k /\ l = [j \in 1..k |-> l[j]]
  BY DEF Launch
<1>5. t.out = q \o l
  BY DEF IsDispatch
<1> HIDE DEF k, l, q
<1>6. l \in Seq(Order) /\ Len(l) = k
  BY <1>1, <1>3, <1>4
<1>7. /\ q \o l \in Seq(Order) /\ Len(q \o l) = Len(q) + k /\ Len(q) \in Nat
      /\ DOMAIN (q \o l) = 1..(Len(q) + k) /\ DOMAIN q = 1..Len(q)
  BY <1>1, <1>2, <1>6
<1>8. \A i \in 1..(Len(q) + k) : (q \o l)[i] = IF i <= Len(q) THEN q[i] ELSE l[i - Len(q)]
  BY <1>1, <1>2, <1>6
<1>9. \A i \in 1..Len(q) : i \in 1..(Len(q) + k) /\ i <= Len(q)
  BY <1>1, <1>7
<1>10. \A i \in 1..(Len(q) + k) : i \in 1..Len(q) \/ (~(i <= Len(q)) /\ i - Len(q) \in 1..k)
  BY <1>1, <1>7
<1>11. Orders(s) = {q[i] : i \in 1..Len(q)}
  BY <1>7 DEF Orders, q
<1>12. Orders(t) = {(q \o l)[i] : i \in 1..(Len(q) + k)}
  BY <1>5, <1>7 DEF Orders
<1>13. Orders(s) \subseteq Orders(t)
  BY <1>8, <1>9, <1>11, <1>12
<1>14. ASSUME NEW i \in 1..(Len(q) + k)
       PROVE  (q \o l)[i] \in {q[j] : j \in 1..Len(q)} \/ \E j \in 1..k : (q \o l)[i] = l[j]
  <2>1. CASE i \in 1..Len(q)
    BY <2>1, <1>8, <1>9
  <2>2. CASE ~(i <= Len(q)) /\ i - Len(q) \in 1..k
    BY <2>2, <1>8
  <2> QED  BY <2>1, <2>2, <1>10
<1>15. \A o \in Orders(t) : o \in Orders(s) \/ \E j \in 1..k : o = l[j]
  BY <1>11, <1>12, <1>14
<1>16. ASSUME NEW j \in 1..k PROVE l[j] \in Orders(t)
  <2>1. Len(q) + j \in 1..(Len(q) + k) /\ ~(Len(q) + j <= Len(q)) /\ Len(q) + j - Len(q) = j
    BY <1>1, <1>7
  <2> DEFINE i == Len(q) + j
  <2>2. (q \o l)[i] = l[i - Len(q)] /\ i - Len(q) = j
    <3>1. i \in 1..(Len(q) + k) /\ ~(i <= Len(q)) /\ i - Len(q) = j
      BY <2>1
    <3> HIDE DEF i
    <3> QED  BY <1>8, <3>1
  <2>3. (q \o l)[i] = l[j]
    BY <2>2
  <2> QED  BY <1>12, <2>1, <2>3
<1> QED  BY <1>5, <1>7, <1>13, <1>15, <1>16 DEF k, l

\* The attempts a dispatch adds are the builds it starts.
LEMMA LaunchWork ==
  ASSUME NEW s, NEW A, NEW G, Sound(s, A, G), NEW t, IsDispatch(t, s), NEW a \in Ordered(t)
  PROVE  \/ a \in Ordered(s)
         \/ /\ a \in Attempt /\ a.kind = "build"
            /\ s.gen <= a.gen /\ a.gen < s.gen + Starting(s)
            /\ a.name \in DOMAIN s.inst /\ Starts(s, a.name)
            /\ a.sha = s.inst[a.name].pipe.sha
            /\ a.gen = s.gen + Place(s, a.name) - 1
<1>1. PICK o \in Orders(t) : o.act \in Attempting /\ a = AttemptOf(o)
  BY OrderedIs
<1>2. CASE o \in Orders(s)
  BY <1>1, <1>2, OrderedIs
<1>3. ASSUME NEW j \in 1..Starting(s), o = Launch(s)[j]
      PROVE  /\ a \in Attempt /\ a.kind = "build"
             /\ s.gen <= a.gen /\ a.gen < s.gen + Starting(s)
             /\ a.name \in DOMAIN s.inst /\ Starts(s, a.name)
             /\ a.sha = s.inst[a.name].pipe.sha
             /\ a.gen = s.gen + Place(s, a.name) - 1
  <2> DEFINE n == s.queue[j]
  <2>1. o = [act |-> "StartBuild", name |-> n, sha |-> s.inst[n].pipe.sha,
             gen |-> s.gen + j - 1]
    BY <1>3 DEF Launch
  <2>2. n \in DOMAIN s.inst /\ s.inst[n].pipe.at = "queued" /\ Starts(s, n) /\ Place(s, n) = j
        /\ Starting(s) \in Nat
    BY StartingFacts
  <2>3. n \in Name /\ s.inst[n].pipe \in Pipeline
    BY <2>2, InstanceFacts
  <2>4. s.inst[n].pipe.sha \in Sha /\ s.gen \in Nat
    BY <2>2, <2>3, PipeFacts, SoundFields
  <2> HIDE DEF n
  <2>5. a = [kind |-> "build", name |-> n, sha |-> s.inst[n].pipe.sha, gen |-> s.gen + j - 1]
    BY <1>1, <2>1 DEF AttemptOf
  <2>6. /\ a.kind = "build" /\ a.name = n /\ a.sha = s.inst[n].pipe.sha
        /\ a.gen = s.gen + j - 1
    BY <2>5
  <2>7. s.gen + j - 1 \in Nat /\ s.gen <= s.gen + j - 1 /\ s.gen + j - 1 < s.gen + Starting(s)
    BY <2>2, <2>4
  <2>8. a \in Attempt
    BY <2>3, <2>4, <2>5, <2>7 DEF Attempt
  <2> QED  BY <2>2, <2>6, <2>7, <2>8
<1> QED  BY <1>1, <1>2, <1>3, LaunchOrders

\* The slots a dispatch takes.
LEMMA StartedFacts ==
  ASSUME NEW s, NEW A, NEW G, Sound(s, A, G)
  PROVE  /\ Started(s) \in SUBSET DOMAIN s.inst
         /\ \A n \in Started(s) : Starts(s, n) /\ s.inst[n].pipe.at = "queued"
         /\ Cardinality(s.building \cup Started(s)) = Cardinality(s.building) + Starting(s)
<1> DEFINE k == Starting(s)
           f == [j \in 1..k |-> s.queue[j]]
<1>1. /\ k \in Nat
      /\ \A j \in 1..k : /\ s.queue[j] \in DOMAIN s.inst /\ Starts(s, s.queue[j])
                         /\ s.inst[s.queue[j]].pipe.at = "queued"
                         /\ Place(s, s.queue[j]) = j
  BY StartingFacts
<1>2. Started(s) = {s.queue[j] : j \in 1..k}
  BY DEF Started
<1>3. /\ Started(s) \in SUBSET DOMAIN s.inst
      /\ \A n \in Started(s) : Starts(s, n) /\ s.inst[n].pipe.at = "queued"
  BY <1>1, <1>2
<1> HIDE DEF k
<1>4. f \in Bijection(1..k, Started(s))
  <2>1. f \in [1..k -> Started(s)]
    BY <1>2
  <2>2. \A j \in 1..k : f[j] = s.queue[j]
    OBVIOUS
  <2>3. ASSUME NEW i \in 1..k, NEW j \in 1..k, f[i] = f[j] PROVE i = j
    BY <1>1, <2>2, <2>3
  <2>4. \A n \in Started(s) : \E j \in 1..k : f[j] = n
    BY <1>2, <2>2
  <2> QED  BY <2>1, <2>3, <2>4 DEF Bijection, Injection, Surjection, IsInjective
<1>5. IsFiniteSet(1..k) /\ Cardinality(1..k) = k
  <2>1. /\ IsFiniteSet(1..k)
        /\ Cardinality(1..k) = IF 1 > k THEN 0 ELSE k - 1 + 1
    BY <1>1, FS_Interval
  <2> QED  BY <1>1, <2>1
<1>6. IsFiniteSet(Started(s)) /\ Cardinality(Started(s)) = k
  BY <1>4, <1>5, FS_Bijection DEF ExistsBijection
<1>7. s.building \cap Started(s) = {}
  <2>1. \A n \in s.building : s.inst[n].pipe.at = "building"
    BY DEF Sound, SlotsOK
  <2> QED  BY <1>3, <2>1
<1>8. IsFiniteSet(s.building) /\ Cardinality(s.building) \in Nat
  BY SoundFields
<1>9. Cardinality(s.building \cap Started(s)) = 0
  BY <1>7, FS_EmptySet
<1>10. Cardinality(s.building \cup Started(s)) =
         Cardinality(s.building) + Cardinality(Started(s)) - Cardinality(s.building \cap Started(s))
  BY <1>6, <1>8, FS_Union
<1> QED  BY <1>1, <1>3, <1>6, <1>8, <1>9, <1>10 DEF k

\* A started instance awaits the build it was given, one that was not is as before.
LEMMA LaunchFits ==
  ASSUME NEW s, NEW A, NEW G, Sound(s, A, G), NEW t, IsDispatch(t, s), NEW m \in DOMAIN s.inst
  PROVE  /\ Fits(t.inst[m], m, Work(t, A), t.gen, G[m])
         /\ Same(s.inst[m], t.inst[m])
         /\ Starts(s, m) => t.inst[m].pipe.at = "building"
         /\ ~Starts(s, m) => t.inst[m] = s.inst[m]
<1> DEFINE i == s.inst[m]
           j == t.inst[m]
<1>1. Starting(s) \in Nat /\ s.gen \in Nat /\ t.gen = s.gen + Starting(s)
  BY StartingFacts, SoundFields DEF IsDispatch
<1>2. i \in Instance /\ i.pipe \in Pipeline /\ Fits(i, m, Work(s, A), s.gen, G[m])
  BY InstanceFacts
<1>3. ASSUME NEW a \in Work(t, A), a \notin Work(s, A)
      PROVE  /\ a.kind = "build" /\ Starts(s, a.name)
             /\ a.sha = s.inst[a.name].pipe.sha /\ a.gen = s.gen + Place(s, a.name) - 1
  BY <1>3, LaunchWork DEF Work
<1>4. \A a \in Work(s, A) : a.gen \in Nat /\ a.gen < s.gen
  BY DEF Sound, Attempt
<1>5. CASE ~Starts(s, m)
  <2>1. j = i
    BY <1>5 DEF IsDispatch
  <2>2. \A a \in Work(t, A) : a.name = m => Matches(a, i.pipe)
    BY <1>2, <1>3, <1>5 DEF Fits
  <2>3. i.pipe.at \in {"building", "probing"} => i.pipe.gen < t.gen
    BY <1>1, <1>2, PipeFacts DEF Fits
  <2>4. Fits(i, m, Work(t, A), t.gen, G[m])
    BY <1>2, <2>2, <2>3 DEF Fits
  <2> QED  BY <2>1, <2>4, <1>5 DEF Same
<1>6. CASE Starts(s, m)
  <2> DEFINE g == s.gen + Place(s, m) - 1
             p == Building(i.pipe.sha, g)
  <2>1. Place(s, m) \in 1..Starting(s) /\ s.queue[Place(s, m)] = m
    BY <1>6, StartingFacts
  <2>2. g \in Nat /\ s.gen <= g /\ g < t.gen
    BY <1>1, <2>1
  <2>3. i.pipe.at = "queued"
    BY <2>1, StartingFacts
  <2>4. i.pipe.sha \in Sha
    BY <1>2, <2>3, PipeFacts
  <2>5. j = [i EXCEPT !.pipe = p]
    BY <1>6, LaunchedIs DEF IsDispatch
  <2>6. p \in Pipeline /\ p.at = "building" /\ p.sha = i.pipe.sha /\ p.gen = g
    BY <2>2, <2>4, BuildingType
  <2> HIDE DEF p, g
  <2>7. j \in Instance /\ j.pipe = p /\ Same(i, j)
    BY <1>2, <2>5, <2>6 DEF Instance, Same
  <2>8. ASSUME NEW a \in Work(t, A), a.name = m PROVE Matches(a, p)
    <3>1. CASE a \in Work(s, A)
      <4>1. a.gen # g
        BY <3>1, <1>1, <1>4, <2>2
      <4> QED  BY <4>1, <2>6 DEF Matches
    <3>2. CASE a \notin Work(s, A)
      BY <3>2, <1>3, <2>6, <2>8 DEF Matches
    <3> QED  BY <3>1, <3>2
  <2>9. Fits(j, m, Work(t, A), t.gen, G[m])
    BY <1>2, <2>2, <2>6, <2>7, <2>8 DEF Fits, Same
  <2> QED  BY <1>6, <2>6, <2>7, <2>9
<1> QED  BY <1>5, <1>6

LEMMA DispatchKeeps ==
  ASSUME NEW s, NEW A, NEW G, Sound(s, A, G)
  PROVE  /\ Sound(Dispatch(s), A, G) /\ Kept(s, Dispatch(s))
         /\ ~Stalled(Dispatch(s))
<1> DEFINE t == Dispatch(s)
           k == Starting(s)
<1>1. IsDispatch(t, s)
  BY DispatchIs
<1> HIDE DEF t
<1>2. /\ DOMAIN t.inst = DOMAIN s.inst /\ t.inst = [m \in DOMAIN t.inst |-> t.inst[m]]
      /\ t.building = s.building \cup Started(s)
      /\ t.queue = SubSeq(s.queue, k + 1, Len(s.queue))
      /\ t.gen = s.gen + k
  BY <1>1 DEF IsDispatch
<1>3. /\ k \in Nat /\ Free(s) \in Nat /\ Len(s.queue) \in Nat
      /\ k <= Len(s.queue) /\ k <= Free(s) /\ (k = Len(s.queue) \/ k = Free(s))
  BY StartingFacts
<1>4. /\ s.queue \in Seq(Name) /\ s.building \in SUBSET Name /\ s.gen \in Nat
      /\ Cardinality(s.building) \in Nat
  BY SoundFields
<1>5. /\ t.out \in Seq(Order) /\ Orders(s) \subseteq Orders(t)
  BY <1>1, LaunchOrders
<1>6. /\ Started(s) \in SUBSET DOMAIN s.inst
      /\ \A n \in Started(s) : Starts(s, n) /\ s.inst[n].pipe.at = "queued"
      /\ Cardinality(t.building) = Cardinality(s.building) + k
  BY <1>2, StartedFacts
<1>7. /\ t.queue \in Seq(Name) /\ Len(t.queue) = Len(s.queue) - k
      /\ \A j \in 1..Len(t.queue) : k + j \in 1..Len(s.queue) /\ t.queue[j] = s.queue[k + j]
  <2>1. IsTail(t.queue, s.queue, k, Name)
    BY <1>2, <1>3, <1>4, TailFacts
  <2> QED  BY <2>1 DEF IsTail
<1>8. Shape(t)
  <2>1. DOMAIN s.inst \in SUBSET Name
    BY DEF Sound, Shape
  <2>2. t = [inst |-> t.inst, queue |-> t.queue, building |-> t.building, gen |-> t.gen,
             out |-> t.out]
    BY <1>1 DEF IsDispatch
  <2>3. t.building \in SUBSET Name /\ t.gen \in Nat
    BY <1>2, <1>3, <1>4, <1>6, <2>1
  <2>4. t \in [inst : {t.inst}, queue : Seq(Name), building : SUBSET Name, gen : Nat,
               out : Seq(Order)]
    BY <1>5, <1>7, <2>2, <2>3
  <2> QED  BY <1>2, <2>1, <2>4 DEF Shape
<1>9. \A m \in DOMAIN s.inst : /\ Fits(t.inst[m], m, Work(t, A), t.gen, G[m])
                               /\ Same(s.inst[m], t.inst[m])
                               /\ Starts(s, m) => t.inst[m].pipe.at = "building"
                               /\ ~Starts(s, m) => t.inst[m] = s.inst[m]
  BY <1>1, LaunchFits
<1>10. QueueOK(t)
  <2>1. QueueOK(s)
    BY DEF Sound
  <2>2. ASSUME NEW j \in 1..Len(t.queue)
        PROVE  t.queue[j] \in DOMAIN t.inst /\ t.inst[t.queue[j]].pipe.at = "queued"
    <3> DEFINE n == s.queue[k + j]
    <3>1. k + j \in 1..Len(s.queue) /\ t.queue[j] = n
      BY <1>7
    <3>2. n \in DOMAIN s.inst /\ s.inst[n].pipe.at = "queued"
      BY <2>1, <3>1 DEF QueueOK
    <3>3. ~Starts(s, n)
      <4>1. ASSUME NEW i \in 1..k, s.queue[i] = n PROVE FALSE
        <5>1. i \in 1..Len(s.queue) /\ i # k + j
          BY <1>3, <3>1
        <5> QED  BY <2>1, <3>1, <4>1, <5>1 DEF QueueOK
      <4> QED  BY <4>1 DEF Starts
    <3> HIDE DEF n
    <3> QED  BY <1>2, <1>9, <3>1, <3>2, <3>3
  <2>3. ASSUME NEW i \in 1..Len(t.queue), NEW j \in 1..Len(t.queue), t.queue[i] = t.queue[j]
        PROVE  i = j
    <3>1. /\ k + i \in 1..Len(s.queue) /\ k + j \in 1..Len(s.queue)
          /\ s.queue[k + i] = s.queue[k + j]
      BY <1>7, <2>3
    <3>2. k + i = k + j
      BY <2>1, <3>1 DEF QueueOK
    <3> QED  BY <1>3, <3>2
  <2> QED  BY <2>2, <2>3 DEF QueueOK
<1>11. Cardinality(t.building) <= MaxConcurrent
  BY <1>3, <1>4, <1>6, SlotAssumption DEF Free
<1>12. SlotsOK(t)
  <2>1. \A n \in s.building : n \in DOMAIN s.inst /\ s.inst[n].pipe.at = "building"
    BY DEF Sound, SlotsOK
  <2>2. \A n \in t.building : n \in DOMAIN t.inst /\ t.inst[n].pipe.at = "building"
    BY <1>2, <1>6, <1>9, <2>1
  <2> QED  BY <1>11, <2>2 DEF SlotsOK
<1>13. ASSUME NEW a \in Work(t, A) PROVE a \in Attempt /\ a.gen < t.gen
  <2>1. CASE a \in Work(s, A)
    <3>1. a \in Attempt /\ a.gen < s.gen
      BY <2>1 DEF Sound
    <3>2. a.gen \in Nat
      BY <3>1 DEF Attempt
    <3> QED  BY <1>2, <1>3, <1>4, <3>1, <3>2
  <2>2. CASE a \in Ordered(t) /\ a \notin Ordered(s)
    BY <1>1, <1>2, <2>2, LaunchWork
  <2> QED  BY <2>1, <2>2 DEF Work
<1>14. Sound(t, A, G)
  BY <1>2, <1>8, <1>9, <1>10, <1>12, <1>13 DEF Sound
<1>15. \A a \in Ordered(t) : a \in Ordered(s) \/ s.gen <= a.gen
  BY <1>1, LaunchWork
<1>16. Kept(s, t)
  BY <1>2, <1>3, <1>4, <1>5, <1>9, <1>15 DEF Kept
<1>17. ~Stalled(t)
  <2>1. CASE k = Len(s.queue)
    <3>1. t.queue = <<>>
      BY <2>1, <1>3, <1>7
    <3> QED  BY <3>1 DEF Stalled
  <2>2. CASE k = Free(s)
    <3>1. Cardinality(t.building) = MaxConcurrent
      BY <2>2, <1>4, <1>6, SlotAssumption DEF Free
    <3> QED  BY <3>1, SlotAssumption DEF Stalled
  <2> QED  BY <2>1, <2>2, <1>3
<1> QED  BY <1>14, <1>16, <1>17 DEF t

-----------------------------------------------------------------------------
(* Settling an idle pipeline.                                              *)

LEMMA OutOfSlot ==
  ASSUME NEW s, NEW A, NEW G, Sound(s, A, G), NEW n \in DOMAIN s.inst,
         s.inst[n].pipe.at # "building"
  PROVE  n \notin s.building
BY DEF Sound, SlotsOK

\* A generation is taken.
LEMMA NextGenKeeps ==
  ASSUME NEW s, NEW A, NEW G, Sound(s, A, G)
  PROVE  LET t == [s EXCEPT !.gen = @ + 1]
         IN /\ Sound(t, A, G) /\ Kept(s, t)
            /\ t.inst = s.inst /\ t.queue = s.queue /\ t.building = s.building
            /\ t.gen = s.gen + 1 /\ Ordered(t) = Ordered(s)
<1> DEFINE t == [s EXCEPT !.gen = @ + 1]
<1>1. /\ s = [inst |-> s.inst, queue |-> s.queue, building |-> s.building,
              gen |-> s.gen, out |-> s.out]
      /\ s.queue \in Seq(Name) /\ s.building \in SUBSET Name /\ s.gen \in Nat
      /\ s.out \in Seq(Order)
  BY SoundFields
<1>2. t = [inst |-> s.inst, queue |-> s.queue, building |-> s.building,
           gen |-> s.gen + 1, out |-> s.out]
  BY <1>1
<1> HIDE DEF t
<1>3. /\ t.inst = s.inst /\ t.queue = s.queue /\ t.building = s.building
      /\ t.gen = s.gen + 1 /\ t.out = s.out
  BY <1>2
<1>4. Orders(t) = Orders(s)
  BY <1>3 DEF Orders
<1>5. Ordered(t) = Ordered(s)
  BY <1>4, OrderedIs
<1>6. Shape(t)
  <2>1. t \in [inst : {t.inst}, queue : Seq(Name), building : SUBSET Name, gen : Nat,
               out : Seq(Order)]
    BY <1>1, <1>2
  <2> QED  BY <1>3, <2>1 DEF Shape, Sound
<1>7. QueueOK(t) /\ SlotsOK(t)
  BY <1>3 DEF Sound, QueueOK, SlotsOK
<1>8. Work(t, A) = Work(s, A)
  BY <1>5 DEF Work
<1>9. \A a \in Work(t, A) : a \in Attempt /\ a.gen < t.gen
  <2>1. \A a \in Work(t, A) : a \in Attempt /\ a.gen < s.gen
    BY <1>8 DEF Sound
  <2>2. \A a \in Work(t, A) : a.gen \in Nat
    BY <2>1 DEF Attempt
  <2> QED  BY <1>1, <1>3, <2>1, <2>2
<1>10. ASSUME NEW n \in DOMAIN t.inst
       PROVE  Fits(t.inst[n], n, Work(t, A), t.gen, G[n])
  <2>1. s.inst[n].pipe \in Pipeline /\ Fits(s.inst[n], n, Work(s, A), s.gen, G[n])
    BY <1>3, InstanceFacts
  <2>2. s.inst[n].pipe.at \in {"building", "probing"} => s.inst[n].pipe.gen < t.gen
    BY <1>1, <1>3, <2>1, PipeFacts DEF Fits
  <2> QED  BY <1>3, <1>8, <2>1, <2>2 DEF Fits
<1>11. Sound(t, A, G)
  BY <1>6, <1>7, <1>9, <1>10 DEF Sound
<1>12. Kept(s, t)
  BY <1>1, <1>3, <1>4, <1>5 DEF Kept, Same
<1> QED  BY <1>3, <1>5, <1>11, <1>12 DEF t

LEMMA TryRespawnKeeps ==
  ASSUME NEW s, NEW A, NEW G, Sound(s, A, G), NEW n \in DOMAIN s.inst
  PROVE  /\ Sound(TryRespawn(s, n), A, G) /\ Kept(s, TryRespawn(s, n))
         /\ TryRespawn(s, n).queue = s.queue /\ TryRespawn(s, n).building = s.building
<1> DEFINE i == s.inst[n]
           p == Probing(i.lastGreen, s.gen, TRUE)
           j == [i EXCEPT !.needsRespawn = FALSE, !.pipe = p]
           v == [s EXCEPT !.gen = @ + 1]
           u == Put(v, n, j)
           o == [act |-> "Respawn", name |-> n, sha |-> i.lastGreen, gen |-> s.gen]
           t == Emit(u, o)
<1>1. CASE ~OwesRespawn(i)
  <2>1. TryRespawn(s, n) = s
    BY <1>1 DEF TryRespawn
  <2> QED  BY <2>1, KeptReflexive
<1>2. CASE OwesRespawn(i)
  <2>1. TryRespawn(s, n) = t
    <3>1. s = [inst |-> s.inst, queue |-> s.queue, building |-> s.building,
               gen |-> s.gen, out |-> s.out]
      BY SoundFields
    <3>2. [s EXCEPT !.inst[n] = j, !.gen = @ + 1] = u
      BY <3>1 DEF Put
    <3> QED  BY <1>2, <3>2 DEF TryRespawn
  <2>2. /\ n \in Name /\ i \in Instance /\ Fits(i, n, Work(s, A), s.gen, G[n])
        /\ i.lastGreen \in Sha /\ i.pipe.at = "idle" /\ s.gen \in Nat
    BY <1>2, InstanceFacts, SoundFields DEF OwesRespawn, Idle
  <2>3. i.lastGreen \in G[n]
    BY <1>2, <2>2, NoneAssumption DEF Fits, OwesRespawn
  <2>4. p \in Pipeline /\ p.at = "probing" /\ p.sha = i.lastGreen /\ p.gen = s.gen
    BY <2>2 DEF Pipeline, Probing
  <2> HIDE DEF p
  <2>5. j \in Instance /\ j.pipe = p /\ j.lastGreen = i.lastGreen /\ Same(i, j)
    BY <2>2, <2>4 DEF Instance, Same
  <2> HIDE DEF j
  <2>6. /\ Sound(v, A, G) /\ Kept(s, v)
        /\ v.inst = s.inst /\ v.queue = s.queue /\ v.building = s.building
        /\ v.gen = s.gen + 1 /\ Ordered(v) = Ordered(s)
    BY NextGenKeeps
  <2> HIDE DEF v
  <2>7. \A a \in Work(v, A) : Matches(a, p)
    <3>1. \A a \in Work(v, A) : a \in Attempt /\ a.gen < s.gen
      BY <2>6 DEF Sound, Work
    <3>2. \A a \in Work(v, A) : a.gen # s.gen
      BY <2>2, <3>1 DEF Attempt
    <3> QED  BY <2>4, <3>2 DEF Matches
  <2>8. Fits(j, n, Work(v, A), v.gen, G[n])
    BY <2>2, <2>3, <2>4, <2>5, <2>6, <2>7 DEF Fits
  <2>9. n \notin v.building /\ n \in DOMAIN v.inst /\ v.inst[n] = i
    BY <2>2, <2>6, OutOfSlot
  <2>10. Sound(u, A, G) /\ Kept(v, u)
    BY <2>2, <2>5, <2>6, <2>8, <2>9, PutKeeps
  <2>11. IsPut(u, v, n, j)
    BY <2>6, <2>9, PutFields
  <2> HIDE DEF u
  <2>12. /\ u.inst[n].pipe = p /\ u.gen = s.gen + 1 /\ u.queue = s.queue
         /\ u.building = s.building /\ DOMAIN u.inst = DOMAIN s.inst
    BY <2>5, <2>6, <2>11 DEF IsPut
  <2>13. /\ o \in Order /\ o.act = "Respawn" /\ o.name = n /\ o.gen = s.gen
         /\ o.sha = i.lastGreen
    BY <2>2 DEF Order
  <2>14. /\ AttemptOf(o).kind = "probe" /\ AttemptOf(o).sha = i.lastGreen
         /\ AttemptOf(o).gen = s.gen
    BY <2>13 DEF AttemptOf
  <2>15. Matches(AttemptOf(o), p)
    BY <2>4, <2>14 DEF Matches
  <2> HIDE DEF o
  <2>16. o.gen < u.gen
    BY <2>2, <2>12, <2>13
  <2>17. Sound(t, A, G)
    BY <2>10, <2>12, <2>13, <2>15, <2>16, EmitSound
  <2>18. /\ t.inst = u.inst /\ t.queue = u.queue /\ t.building = u.building /\ t.gen = u.gen
    BY <2>10, <2>13, EmitFields
  <2>19. Orders(t) = Orders(u) \cup {o}
    BY <2>10, <2>13, EmitOrders
  <2>20. Ordered(t) = Ordered(u) \cup {AttemptOf(o)}
    BY <2>10, <2>13, EmitOrdered DEF Attempting
  <2> HIDE DEF t
  <2>21. Kept(s, u)
    BY <2>6, <2>10, KeptTransitive
  <2>22. Kept(s, t)
    BY <2>2, <2>14, <2>18, <2>19, <2>20, <2>21 DEF Kept
  <2> QED  BY <2>1, <2>12, <2>17, <2>18, <2>22
<1> QED  BY <1>1, <1>2

\* What is pending is requested, in place of what was.
LEMMA PendingKeeps ==
  ASSUME NEW s, NEW A, NEW G, Sound(s, A, G), NEW n \in DOMAIN s.inst,
         s.inst[n].pipe = Idle, NEW sha \in Sha
  PROVE  LET t == RequestBuild([s EXCEPT !.inst[n].pending = None], n, sha)
         IN Sound(t, A, G) /\ Kept(s, t)
<1> DEFINE i == s.inst[n]
           j == [i EXCEPT !.pending = None]
           u == Put(s, n, j)
           t == RequestBuild(u, n, sha)
<1>1. [s EXCEPT !.inst[n].pending = None] = u
  BY DEF Put
<1>2. i \in Instance /\ Fits(i, n, Work(s, A), s.gen, G[n]) /\ i.pipe.at = "idle"
  BY InstanceFacts DEF Idle
<1>3. j \in Instance /\ j.pipe = i.pipe /\ j.lastGreen = i.lastGreen /\ Same(i, j)
  BY <1>2 DEF Instance, Same
<1> HIDE DEF j
<1>4. Fits(j, n, Work(s, A), s.gen, G[n]) /\ n \notin s.building
  BY <1>2, <1>3, CalmFits, OutOfSlot
<1>5. Sound(u, A, G) /\ Kept(s, u)
  BY <1>2, <1>3, <1>4, PutKeeps
<1>6. IsPut(u, s, n, j)
  BY PutFields
<1> HIDE DEF u
<1>7. n \in DOMAIN u.inst
  BY <1>6 DEF IsPut
<1>8. Sound(t, A, G) /\ Kept(u, t)
  BY <1>5, <1>7, RequestBuildKeeps
<1> HIDE DEF t
<1>9. Kept(s, t)
  BY <1>5, <1>8, KeptTransitive
<1> QED  BY <1>1, <1>8, <1>9 DEF t

LEMMA SettleIdleKeeps ==
  ASSUME NEW s, NEW A, NEW G, Sound(s, A, G), NEW n \in DOMAIN s.inst
  PROVE  Sound(SettleIdle(s, n), A, G) /\ Kept(s, SettleIdle(s, n))
<1> DEFINE t == TryRespawn(s, n)
           i == t.inst[n]
           u == RequestBuild([t EXCEPT !.inst[n].pending = None], n, i.pending)
<1>1. SettleIdle(s, n) = IF i.pipe = Idle /\ i.pending # None THEN u ELSE t
  BY DEF SettleIdle
<1>2. Sound(t, A, G) /\ Kept(s, t)
  BY TryRespawnKeeps
<1> HIDE DEF t
<1>3. n \in DOMAIN t.inst
  BY <1>2 DEF Kept
<1>4. ASSUME i.pipe = Idle, i.pending # None
      PROVE  Sound(u, A, G) /\ Kept(s, u)
  <2>1. i.pending \in Sha
    BY <1>2, <1>3, <1>4, InstanceFacts
  <2>2. Sound(u, A, G) /\ Kept(t, u)
    BY <1>2, <1>3, <1>4, <2>1, PendingKeeps
  <2> HIDE DEF u
  <2> QED  BY <1>2, <2>2, KeptTransitive
<1> HIDE DEF u
<1> QED  BY <1>1, <1>2, <1>4

LEMMA RequeueKeeps ==
  ASSUME NEW s, NEW A, NEW G, Sound(s, A, G), NEW n \in DOMAIN s.inst,
         s.inst[n].pipe = Idle, NEW sha \in Sha
  PROVE  Sound(Requeue(s, n, sha), A, G) /\ Kept(s, Requeue(s, n, sha))
<1> DEFINE next == IF s.inst[n].pending = None THEN sha ELSE s.inst[n].pending
           t == RequestBuild([s EXCEPT !.inst[n].pending = None], n, next)
<1>1. next \in Sha
  BY InstanceFacts
<1>2. Requeue(s, n, sha) = t
  BY DEF Requeue
<1> HIDE DEF next
<1>3. Sound(t, A, G) /\ Kept(s, t)
  BY <1>1, PendingKeeps
<1> QED  BY <1>2, <1>3

\* A red of sha is among the orders of s.
Reported(s, n) == \E o \in Orders(s) : o.act = "RecordRed" /\ o.name = n

LEMMA RecordRedKeeps ==
  ASSUME NEW s, NEW A, NEW G, Sound(s, A, G), NEW n \in DOMAIN s.inst, NEW sha \in Sha
  PROVE  /\ Sound(RecordRed(s, n, sha), A, G) /\ Kept(s, RecordRed(s, n, sha))
         /\ Reported(RecordRed(s, n, sha), n)
<1> DEFINE i == s.inst[n]
           j == [i EXCEPT !.lastRed = sha]
           u == Put(s, n, j)
           o == [act |-> "RecordRed", name |-> n, sha |-> sha]
           t == Emit(u, o)
<1>1. RecordRed(s, n, sha) = t
  BY DEF RecordRed, Put
<1>2. n \in Name /\ i \in Instance /\ Fits(i, n, Work(s, A), s.gen, G[n])
  BY InstanceFacts
<1>3. j \in Instance /\ j.pipe = i.pipe /\ j.lastGreen = i.lastGreen /\ Same(i, j)
  BY <1>2 DEF Instance, Same
<1>4. n \in s.building => i.pipe.at = "building"
  BY DEF Sound, SlotsOK
<1> HIDE DEF j
<1>5. Fits(j, n, Work(s, A), s.gen, G[n])
  BY <1>2, <1>3, CalmFits
<1>6. Sound(u, A, G) /\ Kept(s, u)
  BY <1>3, <1>4, <1>5, PutKeeps
<1>7. o \in Order /\ o.act = "RecordRed" /\ o.name = n
  BY <1>2 DEF Order
<1> HIDE DEF u, o
<1>8. Kept(u, t) /\ Sound(t, A, G)
  BY <1>6, <1>7, EmitKept DEF Attempting
<1>9. Orders(t) = Orders(u) \cup {o}
  BY <1>6, <1>7, EmitOrders
<1>10. Reported(t, n)
  BY <1>7, <1>9 DEF Reported
<1> HIDE DEF t
<1>11. Kept(s, t)
  BY <1>6, <1>8, KeptTransitive
<1> QED  BY <1>1, <1>8, <1>10, <1>11

LEMMA RedTail ==
  ASSUME NEW s, NEW A, NEW G, Sound(s, A, G), NEW n \in DOMAIN s.inst, NEW sha \in Sha
  PROVE  LET t == SettleIdle(RecordRed(s, n, sha), n)
         IN Sound(t, A, G) /\ Kept(s, t) /\ Reported(t, n)
<1> DEFINE u == RecordRed(s, n, sha)
           t == SettleIdle(u, n)
<1>1. Sound(u, A, G) /\ Kept(s, u) /\ Reported(u, n)
  BY RecordRedKeeps
<1> HIDE DEF u
<1>2. n \in DOMAIN u.inst
  BY <1>1 DEF Kept
<1>3. Sound(t, A, G) /\ Kept(u, t)
  BY <1>1, <1>2, SettleIdleKeeps
<1> HIDE DEF t
<1>4. Kept(s, t)
  BY <1>1, <1>3, KeptTransitive
<1>5. Reported(t, n)
  BY <1>1, <1>3 DEF Reported, Kept
<1> QED  BY <1>3, <1>4, <1>5 DEF t, u

-----------------------------------------------------------------------------
(* The end of a build.                                                     *)

Weight(i) == (IndeterminateCap + 1) * i.enospc + i.indeterminate

\* What a build that ended may change: its instance's streaks, which then
\* weigh more unless there is a verdict.
Judgement(s, t, n, outcome) ==
  /\ DOMAIN t.inst = DOMAIN s.inst
  /\ \A m \in DOMAIN s.inst : t.inst[m].serving = s.inst[m].serving
  /\ \A m \in DOMAIN s.inst \ {n} : Weight(t.inst[m]) = Weight(s.inst[m])
  /\ \/ outcome \in {"green", "red"}
     \/ Reported(t, n)
     \/ Weight(s.inst[n]) + 1 <= Weight(t.inst[n])

LEMMA WeightType ==
  ASSUME NEW i \in Instance
  PROVE  Weight(i) \in Nat
BY DEF Instance, Weight, IndeterminateCap, EnospcCap

LEMMA JudgementKept ==
  ASSUME NEW s, NEW t, NEW u, NEW n, NEW outcome, Judgement(s, t, n, outcome), Kept(t, u),
         n \in DOMAIN s.inst
  PROVE  Judgement(s, u, n, outcome)
<1>1. \A m \in DOMAIN s.inst : Weight(u.inst[m]) = Weight(t.inst[m])
  BY DEF Judgement, Kept, Same, Weight
<1>2. Reported(t, n) => Reported(u, n)
  BY DEF Reported, Kept
<1> QED  BY <1>1, <1>2 DEF Judgement, Kept, Same

\* The slot of n is given up.
Slotless(s, n) == [s EXCEPT !.building = @ \ {n}]

LEMMA LeaveSlotKeeps ==
  ASSUME NEW s, NEW A, NEW G, Sound(s, A, G), NEW n
  PROVE  LET t == Slotless(s, n)
         IN /\ Sound(t, A, G) /\ t.inst = s.inst /\ t.queue = s.queue
            /\ t.building = s.building \ {n} /\ t.gen = s.gen /\ Orders(t) = Orders(s)
<1> DEFINE b == s.building \ {n}
           t == Slotless(s, n)
<1>1. /\ s = [inst |-> s.inst, queue |-> s.queue, building |-> s.building,
              gen |-> s.gen, out |-> s.out]
      /\ s.queue \in Seq(Name) /\ s.building \in SUBSET Name /\ s.gen \in Nat
      /\ s.out \in Seq(Order) /\ IsFiniteSet(s.building) /\ Cardinality(s.building) \in Nat
  BY SoundFields
<1>2. b \in SUBSET s.building
  OBVIOUS
<1> HIDE DEF b
<1>3. t = [inst |-> s.inst, queue |-> s.queue, building |-> b, gen |-> s.gen, out |-> s.out]
  <2>1. t = [s EXCEPT !.building = b]
    BY DEF Slotless, b
  <2> HIDE DEF t
  <2> QED  BY <1>1, <2>1
<1> HIDE DEF t
<1>4. /\ t.inst = s.inst /\ t.queue = s.queue /\ t.building = b /\ t.gen = s.gen
      /\ t.out = s.out
  BY <1>3
<1>5. Orders(t) = Orders(s)
  BY <1>4 DEF Orders
<1>6. Work(t, A) = Work(s, A)
  BY <1>5, OrderedIs DEF Work
<1>7. Shape(t)
  <2>1. t \in [inst : {t.inst}, queue : Seq(Name), building : SUBSET Name, gen : Nat,
               out : Seq(Order)]
    BY <1>1, <1>2, <1>3
  <2> QED  BY <1>4, <2>1 DEF Shape, Sound
<1>8. IsFiniteSet(b) /\ Cardinality(b) <= Cardinality(s.building)
  BY <1>1, <1>2, FS_Subset
<1>9. Cardinality(b) <= MaxConcurrent
  <2>1. Cardinality(b) \in Nat
    BY <1>8, FS_CardinalityType
  <2> QED  BY <1>1, <1>8, <2>1, SlotAssumption DEF Sound, SlotsOK
<1>10. QueueOK(t) /\ SlotsOK(t)
  BY <1>2, <1>4, <1>9 DEF Sound, QueueOK, SlotsOK
<1>11. Sound(t, A, G)
  BY <1>4, <1>6, <1>7, <1>10 DEF Sound
<1> QED  BY <1>4, <1>5, <1>11 DEF t, b

\* The building instance's record is replaced by one at rest.
LEMMA RestSound ==
  ASSUME NEW s, NEW A, NEW G, Sound(s, A, G), NEW n \in DOMAIN s.inst, n \notin s.building,
         s.inst[n].pipe.at \in {"building", "probing"},
         NEW j \in Instance, j.pipe = Idle, j.lastGreen = s.inst[n].lastGreen
  PROVE  Sound(Put(s, n, j), A, G)
<1>1. Fits(s.inst[n], n, Work(s, A), s.gen, G[n])
  BY InstanceFacts
<1>2. j.pipe.at = "idle"
  BY DEF Idle
<1>3. Fits(j, n, Work(s, A), s.gen, G[n])
  BY <1>1, <1>2, CalmFits
<1> QED  BY <1>2, <1>3, PutSound

\* What such a replacement does to the streaks.
LEMMA PutJudgement ==
  ASSUME NEW s, NEW A, NEW G, Sound(s, A, G), NEW n \in DOMAIN s.inst, NEW j,
         j.serving = s.inst[n].serving, NEW outcome, NEW t,
         Kept(Put(s, n, j), t),
         outcome \in {"green", "red"} \/ Reported(t, n) \/ Weight(s.inst[n]) + 1 <= Weight(j)
  PROVE  Judgement(s, t, n, outcome)
<1> DEFINE u == Put(s, n, j)
<1>1. IsPut(u, s, n, j)
  BY PutFields
<1> HIDE DEF u
<1>2. /\ DOMAIN u.inst = DOMAIN s.inst /\ u.inst[n] = j
      /\ \A m \in DOMAIN s.inst : m # n => u.inst[m] = s.inst[m]
  BY <1>1 DEF IsPut
<1>3. \A m \in DOMAIN u.inst : /\ t.inst[m].serving = u.inst[m].serving
                               /\ Weight(t.inst[m]) = Weight(u.inst[m])
  BY DEF Kept, Same, Weight, u
<1>4. DOMAIN t.inst = DOMAIN s.inst
  BY <1>2 DEF Kept, u
<1>5. \A m \in DOMAIN s.inst : t.inst[m].serving = s.inst[m].serving
  BY <1>2, <1>3
<1>6. \A m \in DOMAIN s.inst \ {n} : Weight(t.inst[m]) = Weight(s.inst[m])
  BY <1>2, <1>3
<1>7. Weight(t.inst[n]) = Weight(j)
  BY <1>2, <1>3
<1> QED  BY <1>4, <1>5, <1>6, <1>7 DEF Judgement

\* A record j that rests, with streaks x and e, and is i otherwise.
Rests(j, i, p, x, e) ==
  /\ j \in Instance /\ j.pipe = p /\ j.indeterminate = x /\ j.enospc = e
  /\ j.lastGreen = i.lastGreen /\ j.serving = i.serving

LEMMA RestRecord ==
  ASSUME NEW i \in Instance, NEW p \in Pipeline,
         NEW x \in 0..IndeterminateCap, NEW e \in 0..EnospcCap
  PROVE  /\ Rests([i EXCEPT !.indeterminate = x, !.enospc = e, !.pipe = p], i, p, x, e)
         /\ Rests([i EXCEPT !.indeterminate = x, !.pipe = p, !.enospc = e], i, p, x, e)
         /\ Rests([i EXCEPT !.pipe = p, !.indeterminate = x], i, p, x, i.enospc)
<1>1. Rests([i EXCEPT !.indeterminate = x, !.enospc = e, !.pipe = p], i, p, x, e)
  BY DEF Instance, Rests
<1>2. Rests([i EXCEPT !.indeterminate = x, !.pipe = p, !.enospc = e], i, p, x, e)
  BY DEF Instance, Rests
<1>3. Rests([i EXCEPT !.pipe = p, !.indeterminate = x], i, p, x, i.enospc)
  BY DEF Instance, Rests
<1> QED  BY <1>1, <1>2, <1>3

\* The streaks stay below their caps.
LEMMA StreakTypes ==
  /\ 0 \in 0..IndeterminateCap /\ 0 \in 0..EnospcCap
  /\ \A x \in 0..IndeterminateCap :
       ~(x >= IndeterminateCap) => x + 1 \in 0..IndeterminateCap /\ x \in Int
  /\ \A e \in 0..EnospcCap : ~(e >= EnospcCap) => e + 1 \in 0..EnospcCap /\ e \in Int
BY DEF IndeterminateCap, EnospcCap

LEMMA OnRedJudges ==
  ASSUME NEW s, NEW A, NEW G, Sound(s, A, G), NEW n \in DOMAIN s.inst, n \notin s.building,
         s.inst[n].pipe.at = "building"
  PROVE  LET t == OnRed(s, n, s.inst[n].pipe.sha)
         IN Sound(t, A, G) /\ Judgement(s, t, n, "red") /\ Reported(t, n)
<1> DEFINE i == s.inst[n]
           j == [i EXCEPT !.indeterminate = 0, !.enospc = 0, !.pipe = Idle]
           u == Put(s, n, j)
           t == SettleIdle(RecordRed(u, n, i.pipe.sha), n)
<1>1. i \in Instance /\ i.pipe \in Pipeline
  BY InstanceFacts
<1>2. i.pipe.sha \in Sha
  BY <1>1, PipeFacts
<1>3. OnRed(s, n, i.pipe.sha) = t
  BY DEF OnRed, Put
<1>4. Idle \in Pipeline
  BY DEF Pipeline, Idle
<1>5. /\ j \in Instance /\ j.pipe = Idle /\ j.lastGreen = i.lastGreen
      /\ j.serving = i.serving
  <2>1. Rests(j, i, Idle, 0, 0)
    BY <1>1, <1>4, RestRecord, StreakTypes
  <2> HIDE DEF j
  <2> QED  BY <2>1 DEF Rests
<1> HIDE DEF j
<1>6. Sound(u, A, G)
  BY <1>5, RestSound
<1>7. n \in DOMAIN u.inst
  <2>1. IsPut(u, s, n, j)
    BY PutFields
  <2> QED  BY <2>1 DEF IsPut
<1>8. Sound(t, A, G) /\ Kept(u, t) /\ Reported(t, n)
  BY <1>2, <1>6, <1>7, RedTail
<1> HIDE DEF t
<1>9. Judgement(s, t, n, "red")
  BY <1>5, <1>8, PutJudgement
<1> QED  BY <1>3, <1>8, <1>9

LEMMA OnEnospcJudges ==
  ASSUME NEW s, NEW A, NEW G, Sound(s, A, G), NEW n \in DOMAIN s.inst, n \notin s.building,
         s.inst[n].pipe.at = "building"
  PROVE  LET t == OnEnospc(s, n, s.inst[n].pipe.sha)
         IN Sound(t, A, G) /\ Judgement(s, t, n, "enospc")
<1> DEFINE i == s.inst[n]
           sha == i.pipe.sha
           t == OnEnospc(s, n, sha)
<1>1. i \in Instance /\ i.pipe \in Pipeline /\ i.enospc \in 0..EnospcCap
      /\ i.indeterminate \in 0..IndeterminateCap
  BY InstanceFacts DEF Instance
<1>2. sha \in Sha
  BY <1>1, PipeFacts
<1>3. Idle \in Pipeline
  BY DEF Pipeline, Idle
<1>4. CASE i.enospc >= EnospcCap
  <2> DEFINE j == [i EXCEPT !.indeterminate = 0, !.pipe = Idle, !.enospc = 0]
             u == Put(s, n, j)
             v == SettleIdle(RecordRed(u, n, sha), n)
  <2>1. t = v
    <3>1. [[s EXCEPT !.inst[n].indeterminate = 0, !.inst[n].pipe = Idle]
             EXCEPT !.inst[n].enospc = 0] = u
      BY DEF Put
    <3> QED  BY <1>4, <3>1 DEF OnEnospc
  <2>2. /\ j \in Instance /\ j.pipe = Idle /\ j.lastGreen = i.lastGreen
        /\ j.serving = i.serving
    <3>1. Rests(j, i, Idle, 0, 0)
      BY <1>1, <1>3, RestRecord, StreakTypes
    <3> HIDE DEF j
    <3> QED  BY <3>1 DEF Rests
  <2> HIDE DEF j, t
  <2>3. Sound(u, A, G)
    BY <2>2, RestSound
  <2>4. n \in DOMAIN u.inst
    <3>1. IsPut(u, s, n, j)
      BY PutFields
    <3> QED  BY <3>1 DEF IsPut
  <2>5. Sound(v, A, G) /\ Kept(u, v) /\ Reported(v, n)
    BY <1>2, <2>3, <2>4, RedTail
  <2> HIDE DEF v
  <2>6. Judgement(s, v, n, "enospc")
    BY <2>2, <2>5, PutJudgement
  <2> QED  BY <2>1, <2>5, <2>6 DEF t
<1>5. CASE ~(i.enospc >= EnospcCap)
  <2> DEFINE j == [i EXCEPT !.indeterminate = 0, !.pipe = Idle, !.enospc = i.enospc + 1]
             u == Put(s, n, j)
             v == Requeue(u, n, sha)
  <2>1. t = v
    <3>1. n \in DOMAIN s.inst /\ s = [inst |-> s.inst, queue |-> s.queue,
              building |-> s.building, gen |-> s.gen, out |-> s.out]
      BY SoundFields
    <3>2. [[s EXCEPT !.inst[n].indeterminate = 0, !.inst[n].pipe = Idle]
             EXCEPT !.inst[n].enospc = @ + 1] = u
      BY <1>1, <3>1, ZenonT(60) DEF Put, Instance
    <3> QED  BY <1>5, <3>2 DEF OnEnospc
  <2>2. /\ j \in Instance /\ j.pipe = Idle /\ j.lastGreen = i.lastGreen
        /\ j.serving = i.serving /\ Weight(i) + 1 <= Weight(j)
    <3>1. i.enospc + 1 \in 0..EnospcCap
      BY <1>1, <1>5, StreakTypes
    <3>2. Rests(j, i, Idle, 0, i.enospc + 1)
      BY <1>1, <1>3, <3>1, RestRecord, StreakTypes
    <3> HIDE DEF j
    <3>3. Weight(i) + 1 <= Weight(j)
      BY <1>1, <3>2 DEF Rests, Weight, IndeterminateCap, EnospcCap
    <3> QED  BY <3>2, <3>3 DEF Rests
  <2> HIDE DEF j, t
  <2>3. Sound(u, A, G)
    BY <2>2, RestSound
  <2>4. n \in DOMAIN u.inst /\ u.inst[n].pipe = Idle
    <3>1. IsPut(u, s, n, j)
      BY PutFields
    <3> QED  BY <2>2, <3>1 DEF IsPut
  <2>5. Sound(v, A, G) /\ Kept(u, v)
    BY <1>2, <2>3, <2>4, RequeueKeeps
  <2> HIDE DEF v
  <2>6. Judgement(s, v, n, "enospc")
    BY <2>2, <2>5, PutJudgement
  <2> QED  BY <2>1, <2>5, <2>6 DEF t
<1> QED  BY <1>4, <1>5

LEMMA OnIndeterminateJudges ==
  ASSUME NEW s, NEW A, NEW G, Sound(s, A, G), NEW n \in DOMAIN s.inst, n \notin s.building,
         s.inst[n].pipe.at = "building"
  PROVE  LET t == OnIndeterminate(s, n, s.inst[n].pipe.sha)
         IN Sound(t, A, G) /\ Judgement(s, t, n, "indeterminate")
<1> DEFINE i == s.inst[n]
           sha == i.pipe.sha
           t == OnIndeterminate(s, n, sha)
<1>1. i \in Instance /\ i.pipe \in Pipeline /\ i.enospc \in 0..EnospcCap
      /\ i.indeterminate \in 0..IndeterminateCap
  BY InstanceFacts DEF Instance
<1>2. sha \in Sha
  BY <1>1, PipeFacts
<1>3. Idle \in Pipeline
  BY DEF Pipeline, Idle
<1>4. CASE i.indeterminate >= IndeterminateCap
  <2> DEFINE j == [i EXCEPT !.pipe = Idle, !.indeterminate = 0]
             u == Put(s, n, j)
             v == SettleIdle(RecordRed(u, n, sha), n)
  <2>1. t = v
    <3>1. [SetPipe(s, n, Idle) EXCEPT !.inst[n].indeterminate = 0] = u
      BY DEF Put, SetPipe
    <3> QED  BY <1>4, <3>1 DEF OnIndeterminate
  <2>2. /\ j \in Instance /\ j.pipe = Idle /\ j.lastGreen = i.lastGreen
        /\ j.serving = i.serving
    <3>1. Rests(j, i, Idle, 0, i.enospc)
      BY <1>1, <1>3, RestRecord, StreakTypes
    <3> HIDE DEF j
    <3> QED  BY <3>1 DEF Rests
  <2> HIDE DEF j, t
  <2>3. Sound(u, A, G)
    BY <2>2, RestSound
  <2>4. n \in DOMAIN u.inst
    <3>1. IsPut(u, s, n, j)
      BY PutFields
    <3> QED  BY <3>1 DEF IsPut
  <2>5. Sound(v, A, G) /\ Kept(u, v) /\ Reported(v, n)
    BY <1>2, <2>3, <2>4, RedTail
  <2> HIDE DEF v
  <2>6. Judgement(s, v, n, "indeterminate")
    BY <2>2, <2>5, PutJudgement
  <2> QED  BY <2>1, <2>5, <2>6 DEF t
<1>5. CASE ~(i.indeterminate >= IndeterminateCap)
  <2> DEFINE j == [i EXCEPT !.pipe = Idle, !.indeterminate = i.indeterminate + 1]
             u == Put(s, n, j)
             v == Requeue(u, n, sha)
  <2>1. t = v
    <3>1. n \in DOMAIN s.inst /\ s = [inst |-> s.inst, queue |-> s.queue,
              building |-> s.building, gen |-> s.gen, out |-> s.out]
      BY SoundFields
    <3>2. [SetPipe(s, n, Idle) EXCEPT !.inst[n].indeterminate = @ + 1] = u
      BY <1>1, <3>1 DEF Put, SetPipe, Instance
    <3> QED  BY <1>5, <3>2 DEF OnIndeterminate
  <2>2. /\ j \in Instance /\ j.pipe = Idle /\ j.lastGreen = i.lastGreen
        /\ j.serving = i.serving /\ Weight(i) + 1 <= Weight(j)
    <3>1. i.indeterminate + 1 \in 0..IndeterminateCap
      BY <1>1, <1>5, StreakTypes
    <3>2. Rests(j, i, Idle, i.indeterminate + 1, i.enospc)
      BY <1>1, <1>3, <3>1, RestRecord, StreakTypes
    <3> HIDE DEF j
    <3>3. Weight(i) + 1 <= Weight(j)
      BY <1>1, <3>2 DEF Rests, Weight, IndeterminateCap, EnospcCap
    <3> QED  BY <3>2, <3>3 DEF Rests
  <2> HIDE DEF j, t
  <2>3. Sound(u, A, G)
    BY <2>2, RestSound
  <2>4. n \in DOMAIN u.inst /\ u.inst[n].pipe = Idle
    <3>1. IsPut(u, s, n, j)
      BY PutFields
    <3> QED  BY <2>2, <3>1 DEF IsPut
  <2>5. Sound(v, A, G) /\ Kept(u, v)
    BY <1>2, <2>3, <2>4, RequeueKeeps
  <2> HIDE DEF v
  <2>6. Judgement(s, v, n, "indeterminate")
    BY <2>2, <2>5, PutJudgement
  <2> QED  BY <2>1, <2>5, <2>6 DEF t
<1> QED  BY <1>4, <1>5

\* A build that is green goes on as a probe of the same generation.
LEMMA ProbeFits ==
  ASSUME NEW i, NEW n, NEW B, NEW g, NEW greens, Fits(i, n, B, g, greens),
         i.pipe.at = "building", i.pipe.sha \in greens,
         NEW j \in Instance, j.lastGreen = i.lastGreen, j.pipe.at = "probing",
         j.pipe.sha = i.pipe.sha, j.pipe.gen = i.pipe.gen
  PROVE  Fits(j, n, B, g, greens)
<1>1. ASSUME NEW a \in B, a.name = n
      PROVE  Matches(a, j.pipe)
  <2>1. Matches(a, i.pipe)
    BY <1>1 DEF Fits
  <2> QED  BY <2>1 DEF Matches
<1> QED  BY <1>1 DEF Fits

LEMMA OnGreenJudges ==
  ASSUME NEW s, NEW A, NEW G, Sound(s, A, G), NEW n \in DOMAIN s.inst, n \notin s.building,
         s.inst[n].pipe.at = "building", s.inst[n].pipe.sha \in G[n]
  PROVE  LET t == OnGreen(s, n, s.inst[n].pipe.sha, s.inst[n].pipe.gen)
         IN Sound(t, A, G) /\ Judgement(s, t, n, "green")
<1> DEFINE i == s.inst[n]
           sha == i.pipe.sha
           g == i.pipe.gen
           p == Probing(sha, g, FALSE)
           j == [i EXCEPT !.indeterminate = 0, !.enospc = 0, !.pipe = p]
           u == Put(s, n, j)
           o == [act |-> "SpawnAndProbe", name |-> n, sha |-> sha, gen |-> g]
           t == Emit(u, o)
<1>1. /\ n \in Name /\ i \in Instance /\ i.pipe \in Pipeline
      /\ Fits(i, n, Work(s, A), s.gen, G[n])
  BY InstanceFacts
<1>2. sha \in Sha /\ g \in Nat /\ g < s.gen
  BY <1>1, PipeFacts DEF Fits
<1>3. OnGreen(s, n, sha, g) = t
  BY DEF OnGreen, Put
<1>4. p \in Pipeline /\ p.at = "probing" /\ p.sha = sha /\ p.gen = g
  BY <1>2 DEF Pipeline, Probing
<1>5. o \in Order /\ o.act = "SpawnAndProbe" /\ o.name = n /\ o.sha = sha /\ o.gen = g
  BY <1>1, <1>2 DEF Order
<1> HIDE DEF p, o
<1>6. Rests(j, i, p, 0, 0)
  BY <1>1, <1>4, RestRecord, StreakTypes
<1> HIDE DEF j
<1>7. Fits(j, n, Work(s, A), s.gen, G[n])
  BY <1>1, <1>4, <1>6, ProbeFits DEF Rests
<1>8. Sound(u, A, G)
  BY <1>7, PutSound
<1>9. /\ DOMAIN u.inst = DOMAIN s.inst /\ u.inst[n] = j /\ u.gen = s.gen
      /\ \A m \in DOMAIN s.inst : m # n => u.inst[m] = s.inst[m]
  <2>1. IsPut(u, s, n, j)
    BY PutFields
  <2> QED  BY <2>1 DEF IsPut
<1> HIDE DEF u
<1>10. AttemptOf(o).kind = "probe" /\ AttemptOf(o).sha = sha /\ AttemptOf(o).gen = g
  BY <1>5 DEF AttemptOf
<1>11. Matches(AttemptOf(o), j.pipe)
  BY <1>4, <1>6, <1>10 DEF Matches, Rests
<1>12. Sound(t, A, G)
  BY <1>2, <1>5, <1>8, <1>9, <1>11, EmitSound
<1>13. t.inst = u.inst
  BY <1>5, <1>8, EmitFields
<1> HIDE DEF t
<1>14. Judgement(s, t, n, "green")
  <2>1. j.serving = i.serving
    BY <1>6 DEF Rests
  <2> QED  BY <1>9, <1>13, <2>1 DEF Judgement
<1> QED  BY <1>3, <1>12, <1>14

\* The result the pipeline awaits.
LEMMA OnBuildFinishedJudges ==
  ASSUME NEW s, NEW A, NEW G, Sound(s, A, G), NEW n \in DOMAIN s.inst, NEW g,
         Awaits(s, n, "building", g), NEW outcome \in BuildOutcome,
         outcome = "green" => s.inst[n].pipe.sha \in G[n]
  PROVE  LET t == OnBuildFinished(s, n, g, outcome)
         IN Sound(t, A, G) /\ Judgement(s, t, n, outcome) /\ ~Stalled(t)
<1> DEFINE sha == s.inst[n].pipe.sha
           u == Slotless(s, n)
           v == CASE outcome = "green" -> OnGreen(u, n, sha, g)
                  [] outcome = "red" -> OnRed(u, n, sha)
                  [] outcome = "enospc" -> OnEnospc(u, n, sha)
                  [] outcome = "indeterminate" -> OnIndeterminate(u, n, sha)
           t == Dispatch(v)
<1>1. OnBuildFinished(s, n, g, outcome) = t
  BY DEF OnBuildFinished, Slotless
<1>2. Sound(u, A, G) /\ u.inst = s.inst /\ n \notin u.building
  BY LeaveSlotKeeps
<1> HIDE DEF u
<1>3. n \in DOMAIN u.inst /\ u.inst[n].pipe.at = "building" /\ u.inst[n].pipe.sha = sha
      /\ u.inst[n].pipe.gen = g
  BY <1>2 DEF Awaits
<1>4. Sound(v, A, G) /\ Judgement(u, v, n, outcome)
  <2>1. CASE outcome = "green"
    <3>1. v = OnGreen(u, n, sha, g)
      BY <2>1
    <3> QED  BY <1>2, <1>3, <2>1, <3>1, OnGreenJudges
  <2>2. CASE outcome = "red"
    <3>1. v = OnRed(u, n, sha)
      BY <2>2
    <3> QED  BY <1>2, <1>3, <2>2, <3>1, OnRedJudges
  <2>3. CASE outcome = "enospc"
    <3>1. v = OnEnospc(u, n, sha)
      BY <2>3
    <3> QED  BY <1>2, <1>3, <2>3, <3>1, OnEnospcJudges
  <2>4. CASE outcome = "indeterminate"
    <3>1. v = OnIndeterminate(u, n, sha)
      BY <2>4
    <3> QED  BY <1>2, <1>3, <2>4, <3>1, OnIndeterminateJudges
  <2> QED  BY <2>1, <2>2, <2>3, <2>4 DEF BuildOutcome
<1> HIDE DEF v
<1>5. Sound(t, A, G) /\ Kept(v, t) /\ ~Stalled(t)
  BY <1>4, DispatchKeeps
<1> HIDE DEF t
<1>6. Judgement(u, t, n, outcome)
  BY <1>3, <1>4, <1>5, JudgementKept
<1>7. Judgement(s, t, n, outcome)
  BY <1>2, <1>6 DEF Judgement
<1> QED  BY <1>1, <1>5, <1>7

-----------------------------------------------------------------------------
(* The other events.                                                       *)

\* No streak changes, no child starts to serve, no slot becomes idle.
Steady(s, t) ==
  /\ DOMAIN t.inst = DOMAIN s.inst
  /\ \A m \in DOMAIN s.inst : /\ Weight(t.inst[m]) = Weight(s.inst[m])
                              /\ t.inst[m].serving \in {s.inst[m].serving, None}
  /\ Stalled(t) => Stalled(s)

LEMMA KeptSteady ==
  ASSUME NEW s, NEW t, Kept(s, t), Stalled(t) => Stalled(s)
  PROVE  Steady(s, t)
BY DEF Kept, Same, Steady, Weight

LEMMA SteadySame ==
  ASSUME NEW s
  PROVE  Steady(s, s)
BY DEF Steady

LEMMA OnHeadSteady ==
  ASSUME NEW s, NEW A, NEW G, Sound(s, A, G), NEW n \in DOMAIN s.inst, NEW sha \in Sha
  PROVE  Sound(OnHead(s, n, sha), A, G) /\ Steady(s, OnHead(s, n, sha))
<1> DEFINE i == s.inst[n]
           t == OnHead(s, n, sha)
<1>1. /\ i \in Instance /\ i.pipe \in Pipeline
      /\ Fits(i, n, Work(s, A), s.gen, G[n])
  BY InstanceFacts
<1>2. i.pipe.at \in {"idle", "queued", "building", "probing"}
  BY <1>1, PipeFacts
<1>3. n \in s.building => i.pipe.at = "building"
  BY DEF Sound, SlotsOK
<1>4. CASE i.pipe.at = "idle"
  <2> DEFINE u == RequestBuild(s, n, sha)
  <2>1. t = Dispatch(u)
    BY <1>4 DEF OnHead
  <2>2. Sound(u, A, G) /\ Kept(s, u)
    BY RequestBuildKeeps
  <2> HIDE DEF u, t
  <2>3. Sound(t, A, G) /\ Kept(u, t) /\ ~Stalled(t)
    BY <2>1, <2>2, DispatchKeeps
  <2>4. Kept(s, t)
    BY <2>2, <2>3, KeptTransitive
  <2>5. Steady(s, t)
    BY <2>3, <2>4, KeptSteady
  <2> QED  BY <2>3, <2>5 DEF t
<1>5. CASE i.pipe.at = "queued"
  <2> DEFINE p == Queued(sha)
             j == [i EXCEPT !.pipe = p]
             u == Put(s, n, j)
  <2>1. t = u
    BY <1>5 DEF OnHead, SetPipe, Put
  <2>2. p \in Pipeline /\ p.at = "queued"
    BY RestTypes
  <2> HIDE DEF p, t
  <2>3. j \in Instance /\ j.pipe = p /\ j.lastGreen = i.lastGreen /\ Same(i, j)
    BY <1>1, <2>2 DEF Instance, Same
  <2> HIDE DEF j
  <2>4. Fits(j, n, Work(s, A), s.gen, G[n])
    BY <1>1, <2>2, <2>3, CalmFits
  <2>5. Sound(u, A, G) /\ Kept(s, u)
    BY <1>3, <1>5, <2>2, <2>3, <2>4, PutKeeps
  <2>6. IsPut(u, s, n, j)
    BY PutFields
  <2> HIDE DEF u
  <2>7. Steady(s, u)
    BY <2>5, <2>6, KeptSteady DEF IsPut, Stalled
  <2> QED  BY <2>1, <2>5, <2>7 DEF t
<1>6. CASE i.pipe.at \in {"building", "probing"} /\ i.pipe.sha = sha
  <2>1. t = s
    BY <1>6 DEF OnHead
  <2> QED  BY <2>1, SteadySame
<1>7. CASE i.pipe.at \in {"building", "probing"} /\ i.pipe.sha # sha
  <2> DEFINE j == [i EXCEPT !.pending = sha]
             u == Put(s, n, j)
  <2>1. t = u
    BY <1>7 DEF OnHead, Put
  <2> HIDE DEF t
  <2>2. j \in Instance /\ j.pipe = i.pipe /\ j.lastGreen = i.lastGreen /\ Same(i, j)
    BY <1>1 DEF Instance, Same
  <2> HIDE DEF j
  <2>3. Fits(j, n, Work(s, A), s.gen, G[n])
    BY <1>1, <2>2, CalmFits
  <2>4. Sound(u, A, G) /\ Kept(s, u)
    BY <1>3, <2>2, <2>3, PutKeeps
  <2>5. IsPut(u, s, n, j)
    BY PutFields
  <2> HIDE DEF u
  <2>6. Steady(s, u)
    BY <2>4, <2>5, KeptSteady DEF IsPut, Stalled
  <2> QED  BY <2>1, <2>4, <2>6 DEF t
<1> QED  BY <1>2, <1>4, <1>5, <1>6, <1>7

LEMMA ProbeRedKeeps ==
  ASSUME NEW s, NEW A, NEW G, Sound(s, A, G), NEW n \in DOMAIN s.inst, NEW sha \in Sha,
         NEW respawn
  PROVE  Sound(ProbeRed(s, n, sha, respawn), A, G) /\ Kept(s, ProbeRed(s, n, sha, respawn))
<1> DEFINE i == s.inst[n]
           t == ProbeRed(s, n, sha, respawn)
<1>1. /\ i \in Instance /\ i.respawns \in 0..RespawnCap
      /\ Fits(i, n, Work(s, A), s.gen, G[n])
  BY InstanceFacts DEF Instance
<1>2. n \in s.building => i.pipe.at = "building"
  BY DEF Sound, SlotsOK
<1>3. CASE respawn /\ i.respawns < RespawnCap
  <2> DEFINE r == i.respawns + 1
             j == [i EXCEPT !.respawns = r, !.needsRespawn = TRUE]
             u == Put(s, n, j)
  <2>1. t = u
    BY <1>3 DEF ProbeRed, Put
  <2>2. r \in 0..RespawnCap
    BY <1>1, <1>3 DEF RespawnCap
  <2> HIDE DEF r, t
  <2>3. j \in Instance /\ j.pipe = i.pipe /\ j.lastGreen = i.lastGreen /\ Same(i, j)
    BY <1>1, <2>2 DEF Instance, Same
  <2> HIDE DEF j
  <2>4. Fits(j, n, Work(s, A), s.gen, G[n])
    BY <1>1, <2>3, CalmFits
  <2>5. Sound(u, A, G) /\ Kept(s, u)
    BY <1>2, <2>3, <2>4, PutKeeps
  <2> QED  BY <2>1, <2>5 DEF t
<1>4. CASE ~(respawn /\ i.respawns < RespawnCap)
  <2> DEFINE r == IF respawn THEN 0 ELSE i.respawns
             j == [i EXCEPT !.respawns = r]
             u == Put(s, n, j)
             v == RecordRed(u, n, sha)
  <2>1. t = v
    BY <1>4 DEF ProbeRed, Put
  <2>2. r \in 0..RespawnCap
    BY <1>1 DEF RespawnCap
  <2> HIDE DEF r, t
  <2>3. j \in Instance /\ j.pipe = i.pipe /\ j.lastGreen = i.lastGreen /\ Same(i, j)
    BY <1>1, <2>2 DEF Instance, Same
  <2> HIDE DEF j
  <2>4. Fits(j, n, Work(s, A), s.gen, G[n])
    BY <1>1, <2>3, CalmFits
  <2>5. Sound(u, A, G) /\ Kept(s, u)
    BY <1>2, <2>3, <2>4, PutKeeps
  <2>6. n \in DOMAIN u.inst
    BY <2>5 DEF Kept
  <2> HIDE DEF u
  <2>7. Sound(v, A, G) /\ Kept(u, v)
    BY <2>5, <2>6, RecordRedKeeps
  <2> HIDE DEF v
  <2>8. Kept(s, v)
    BY <2>5, <2>7, KeptTransitive
  <2> QED  BY <2>1, <2>7, <2>8 DEF t
<1> QED  BY <1>3, <1>4

LEMMA OnProbeFailedSteady ==
  ASSUME NEW s, NEW A, NEW G, Sound(s, A, G), NEW n \in DOMAIN s.inst, NEW g
  PROVE  Sound(OnProbeFailed(s, n, g), A, G) /\ Steady(s, OnProbeFailed(s, n, g))
<1> DEFINE i == s.inst[n]
           p == i.pipe
           j == [i EXCEPT !.pipe = Idle]
           u == Put(s, n, j)
           o == [act |-> "KillStandby", name |-> n, gen |-> g]
           v == Emit(u, o)
           w == ProbeRed(v, n, p.sha, p.respawn)
           x == SettleIdle(w, n)
           t == Dispatch(x)
<1>1. CASE ~Awaits(s, n, "probing", g)
  <2>1. OnProbeFailed(s, n, g) = s
    BY <1>1 DEF OnProbeFailed
  <2> QED  BY <2>1, SteadySame
<1>2. CASE Awaits(s, n, "probing", g)
  <2>1. OnProbeFailed(s, n, g) = t
    BY <1>2 DEF OnProbeFailed, SetPipe, Put
  <2>2. n \in Name /\ i \in Instance /\ p \in Pipeline
    BY InstanceFacts
  <2>3. p.at = "probing" /\ p.gen = g
    BY <1>2 DEF Awaits
  <2>4. p.sha \in Sha /\ g \in Nat
    BY <2>2, <2>3, PipeFacts
  <2>5. n \notin s.building
    BY <2>3, OutOfSlot
  <2>6. Idle \in Pipeline
    BY DEF Pipeline, Idle
  <2>7. j \in Instance /\ j.pipe = Idle /\ j.lastGreen = i.lastGreen /\ Same(i, j)
    BY <2>2, <2>6 DEF Instance, Same
  <2> HIDE DEF j
  <2>8. Sound(u, A, G) /\ Kept(s, u)
    BY <2>3, <2>5, <2>7, RestSound, PutKept
  <2>9. o \in Order /\ o.act \notin Attempting
    BY <2>2, <2>4 DEF Order, Attempting
  <2> HIDE DEF u, o
  <2>10. Sound(v, A, G) /\ Kept(u, v)
    BY <2>8, <2>9, EmitKept
  <2> HIDE DEF v
  <2>11. n \in DOMAIN v.inst
    BY <2>8, <2>10 DEF Kept
  <2>12. Sound(w, A, G) /\ Kept(v, w)
    BY <2>4, <2>10, <2>11, ProbeRedKeeps
  <2> HIDE DEF w
  <2>13. n \in DOMAIN w.inst
    BY <2>11, <2>12 DEF Kept
  <2>14. Sound(x, A, G) /\ Kept(w, x)
    BY <2>12, <2>13, SettleIdleKeeps
  <2> HIDE DEF x
  <2>15. Sound(t, A, G) /\ Kept(x, t) /\ ~Stalled(t)
    BY <2>14, DispatchKeeps
  <2> HIDE DEF t
  <2>16. Kept(s, v)
    BY <2>8, <2>10, KeptTransitive
  <2>17. Kept(s, w)
    BY <2>10, <2>12, <2>16, KeptTransitive
  <2>18. Kept(s, x)
    BY <2>12, <2>14, <2>17, KeptTransitive
  <2>19. Kept(s, t)
    BY <2>14, <2>15, <2>18, KeptTransitive
  <2>20. Steady(s, t)
    BY <2>15, <2>19, KeptSteady
  <2> QED  BY <2>1, <2>15, <2>20
<1> QED  BY <1>1, <1>2

LEMMA PutSteady ==
  ASSUME NEW s, NEW A, NEW G, Sound(s, A, G), NEW n \in DOMAIN s.inst, NEW j,
         j.serving \in {s.inst[n].serving, None},
         j.enospc = s.inst[n].enospc, j.indeterminate = s.inst[n].indeterminate
  PROVE  Steady(s, Put(s, n, j))
<1> DEFINE t == Put(s, n, j)
<1>1. IsPut(t, s, n, j)
  BY PutFields
<1> HIDE DEF t
<1>2. Stalled(t) => Stalled(s)
  BY <1>1 DEF IsPut, Stalled
<1>3. ASSUME NEW m \in DOMAIN s.inst
      PROVE  /\ Weight(t.inst[m]) = Weight(s.inst[m])
             /\ t.inst[m].serving \in {s.inst[m].serving, None}
  BY <1>1 DEF IsPut, Weight
<1>4. Steady(s, t)
  BY <1>1, <1>2, <1>3 DEF IsPut, Steady
<1> QED  BY <1>4 DEF t

LEMMA SteadyKept ==
  ASSUME NEW s, NEW u, NEW t, Steady(s, u), Kept(u, t), Stalled(t) => Stalled(u)
  PROVE  Steady(s, t)
<1>1. Steady(u, t)
  BY KeptSteady
<1>2. \A m \in DOMAIN u.inst : t.inst[m].serving = u.inst[m].serving
  BY DEF Kept, Same
<1> QED  BY <1>1, <1>2 DEF Steady

LEMMA OnDrainCompleteSteady ==
  ASSUME NEW s, NEW A, NEW G, Sound(s, A, G), NEW n \in DOMAIN s.inst, NEW g
  PROVE  Sound(OnDrainComplete(s, n, g), A, G) /\ Steady(s, OnDrainComplete(s, n, g))
<1> DEFINE i == s.inst[n]
           d == i.draining \ {g}
           j == [i EXCEPT !.draining = d]
           t == Put(s, n, j)
<1>1. OnDrainComplete(s, n, g) = t
  BY DEF OnDrainComplete, Put
<1>2. /\ i \in Instance /\ i.draining \in SUBSET Nat
      /\ Fits(i, n, Work(s, A), s.gen, G[n])
  BY InstanceFacts DEF Instance
<1>3. d \in SUBSET Nat
  BY <1>2
<1>4. n \in s.building => i.pipe.at = "building"
  BY DEF Sound, SlotsOK
<1> HIDE DEF d
<1>5. /\ j \in Instance /\ j.pipe = i.pipe /\ j.lastGreen = i.lastGreen
      /\ j.serving = i.serving /\ j.enospc = i.enospc /\ j.indeterminate = i.indeterminate
  BY <1>2, <1>3 DEF Instance
<1> HIDE DEF j
<1>6. Fits(j, n, Work(s, A), s.gen, G[n])
  BY <1>2, <1>5, CalmFits
<1>7. Sound(t, A, G)
  BY <1>4, <1>5, <1>6, PutSound
<1>8. Steady(s, t)
  BY <1>5, PutSteady
<1> QED  BY <1>1, <1>7, <1>8

LEMMA OnRecoverSteady ==
  ASSUME NEW s, NEW A, NEW G, Sound(s, A, G), NEW n \in DOMAIN s.inst, NEW sha \in Sha,
         sha \in G[n]
  PROVE  Sound(OnRecover(s, n, sha), A, G) /\ Steady(s, OnRecover(s, n, sha))
<1> DEFINE i == s.inst[n]
           j == [i EXCEPT !.lastGreen = sha, !.needsRespawn = TRUE]
           u == Put(s, n, j)
           t == TryRespawn(u, n)
<1>1. CASE i.pipe # Idle \/ i.serving # None
  <2>1. OnRecover(s, n, sha) = s
    BY <1>1 DEF OnRecover
  <2> QED  BY <2>1, SteadySame
<1>2. CASE ~(i.pipe # Idle \/ i.serving # None)
  <2>1. OnRecover(s, n, sha) = t
    BY <1>2 DEF OnRecover, Put
  <2>2. i \in Instance /\ Fits(i, n, Work(s, A), s.gen, G[n])
    BY InstanceFacts
  <2>3. i.pipe.at = "idle" /\ n \notin s.building
    BY <1>2, OutOfSlot DEF Idle
  <2>4. /\ j \in Instance /\ j.pipe = i.pipe /\ j.lastGreen = sha
        /\ j.serving = i.serving /\ j.enospc = i.enospc /\ j.indeterminate = i.indeterminate
    BY <2>2 DEF Instance
  <2> HIDE DEF j
  <2>5. Fits(j, n, Work(s, A), s.gen, G[n])
    BY <2>2, <2>4 DEF Fits
  <2>6. Sound(u, A, G)
    BY <2>3, <2>4, <2>5, PutSound
  <2>7. Steady(s, u)
    BY <2>4, PutSteady
  <2>8. n \in DOMAIN u.inst
    BY <2>7 DEF Steady
  <2> HIDE DEF u
  <2>9. /\ Sound(t, A, G) /\ Kept(u, t)
        /\ t.queue = u.queue /\ t.building = u.building
    BY <2>6, <2>8, TryRespawnKeeps
  <2> HIDE DEF t
  <2>10. Steady(s, t)
    BY <2>7, <2>9, SteadyKept DEF Stalled
  <2> QED  BY <2>1, <2>9, <2>10
<1> QED  BY <1>1, <1>2

-----------------------------------------------------------------------------
(* Leaving the queue.                                                      *)

Distinct(q) == \A j, k \in 1..Len(q) : q[j] = q[k] => j = k

\* r is q without n.
IsLeft(r, q, n, S) ==
  /\ r \in Seq(S) /\ Distinct(r)
  /\ \A k \in 1..Len(r) : r[k] # n /\ \E j \in 1..Len(q) : r[k] = q[j]
  /\ q = <<>> => r = <<>>

LEMMA LeaveFacts ==
  ASSUME NEW S, NEW q \in Seq(S), Distinct(q), NEW n
  PROVE  IsLeft(Leave(q, n), q, n, S)
<1> DEFINE r == Leave(q, n)
<1>1. Len(q) \in Nat /\ DOMAIN q = 1..Len(q) /\ \A k \in 1..Len(q) : q[k] \in S
  OBVIOUS
<1>2. CASE \A k \in 1..Len(q) : q[k] # n
  <2>1. r = q
    BY <1>2 DEF Leave
  <2> QED  BY <1>2, <2>1 DEF IsLeft
<1>3. CASE ~(\A k \in 1..Len(q) : q[k] # n)
  <2> DEFINE l == Len(q) - 1
             Past(k) == \E j \in 1..k : q[j] = n
             From(k) == IF Past(k) THEN k + 1 ELSE k
  <2>1. PICK p \in 1..Len(q) : q[p] = n
    BY <1>3
  <2>2. l \in Nat /\ Len(q) = l + 1
    BY <1>1, <2>1
  <2>3. r = [k \in 1..l |-> IF \E j \in 1..k : q[j] = n THEN q[k + 1] ELSE q[k]]
    BY <1>3 DEF Leave
  <2> HIDE DEF r, l
  <2>4. ASSUME NEW k \in 1..l
        PROVE  /\ From(k) \in 1..Len(q) /\ r[k] = q[From(k)]
    BY <2>2, <2>3
  <2>5. ASSUME NEW k \in 1..l
        PROVE  q[From(k)] # n
    <3>1. CASE Past(k)
      <4>1. PICK j \in 1..k : q[j] = n
        BY <3>1
      <4>2. j \in 1..Len(q) /\ k + 1 \in 1..Len(q) /\ j # k + 1
        BY <2>2, <4>1
      <4> QED  BY <3>1, <4>1, <4>2 DEF Distinct
    <3>2. CASE ~Past(k)
      BY <3>2
    <3> QED  BY <3>1, <3>2
  <2>6. ASSUME NEW j \in 1..l, NEW k \in 1..l, j < k
        PROVE  From(j) # From(k)
    <3>1. Past(j) => Past(k)
      BY <2>2, <2>6
    <3> HIDE DEF Past
    <3> QED  BY <2>6, <3>1
  <2> HIDE DEF From
  <2>7. /\ r \in Seq(S) /\ Len(r) = l /\ DOMAIN r = 1..l
    <3>1. \A k \in 1..l : r[k] \in S
      BY <1>1, <2>4
    <3>2. r = [k \in 1..l |-> r[k]]
      BY <2>3
    <3> QED  BY <2>2, <3>1, <3>2
  <2>8. Distinct(r)
    <3>1. ASSUME NEW j \in 1..l, NEW k \in 1..l, j # k
          PROVE  r[j] # r[k]
      <4>1. From(j) # From(k)
        <5>1. j < k \/ k < j
          BY <2>2, <3>1
        <5> QED  BY <2>6, <5>1
      <4>2. From(j) \in 1..Len(q) /\ From(k) \in 1..Len(q) /\ r[j] = q[From(j)] /\ r[k] = q[From(k)]
        BY <2>4
      <4> QED  BY <4>1, <4>2 DEF Distinct
    <3> QED  BY <2>7, <3>1 DEF Distinct
  <2>9. \A k \in 1..Len(r) : r[k] # n /\ \E j \in 1..Len(q) : r[k] = q[j]
    BY <2>4, <2>5, <2>7
  <2>10. q # <<>>
    BY <2>2
  <2> QED  BY <2>7, <2>8, <2>9, <2>10 DEF IsLeft, r
<1> QED  BY <1>2, <1>3

\* n gives up its place in the queue.
Unqueued(s, n) == [s EXCEPT !.queue = Leave(@, n)]

LEMMA UnqueueKeeps ==
  ASSUME NEW s, NEW A, NEW G, Sound(s, A, G), NEW n
  PROVE  LET t == Unqueued(s, n)
         IN /\ Sound(t, A, G) /\ t.inst = s.inst /\ t.building = s.building
            /\ t.gen = s.gen /\ Ordered(t) = Ordered(s)
            /\ \A k \in 1..Len(t.queue) : t.queue[k] # n
            /\ Stalled(t) => Stalled(s)
<1> DEFINE q == Leave(s.queue, n)
           t == Unqueued(s, n)
<1>1. /\ s = [inst |-> s.inst, queue |-> s.queue, building |-> s.building,
              gen |-> s.gen, out |-> s.out]
      /\ s.queue \in Seq(Name) /\ s.building \in SUBSET Name /\ s.gen \in Nat
      /\ s.out \in Seq(Order)
  BY SoundFields
<1>2. Distinct(s.queue)
  BY DEF Sound, QueueOK, Distinct
<1>3. IsLeft(q, s.queue, n, Name)
  BY <1>1, <1>2, LeaveFacts
<1> HIDE DEF q
<1>4. t = [inst |-> s.inst, queue |-> q, building |-> s.building, gen |-> s.gen, out |-> s.out]
  <2>1. t = [s EXCEPT !.queue = q]
    BY DEF Unqueued, q
  <2> HIDE DEF t
  <2> QED  BY <1>1, <2>1
<1> HIDE DEF t
<1>5. /\ t.inst = s.inst /\ t.queue = q /\ t.building = s.building /\ t.gen = s.gen
      /\ t.out = s.out
  BY <1>4
<1>6. Orders(t) = Orders(s)
  BY <1>5 DEF Orders
<1>7. Ordered(t) = Ordered(s)
  BY <1>6, OrderedIs
<1>8. Work(t, A) = Work(s, A)
  BY <1>7 DEF Work
<1>9. Shape(t)
  <2>1. q \in Seq(Name)
    BY <1>3 DEF IsLeft
  <2>2. t \in [inst : {t.inst}, queue : Seq(Name), building : SUBSET Name, gen : Nat,
               out : Seq(Order)]
    BY <1>1, <1>4, <2>1
  <2> QED  BY <1>5, <2>2 DEF Shape, Sound
<1>10. QueueOK(t)
  <2>1. \A k \in 1..Len(q) : /\ q[k] \in DOMAIN s.inst /\ s.inst[q[k]].pipe.at = "queued"
    BY <1>3 DEF IsLeft, Sound, QueueOK
  <2>2. \A j, k \in 1..Len(q) : q[j] = q[k] => j = k
    BY <1>3 DEF IsLeft, Distinct
  <2> QED  BY <1>5, <2>1, <2>2 DEF QueueOK
<1>11. SlotsOK(t)
  BY <1>5 DEF Sound, SlotsOK
<1>12. Sound(t, A, G)
  BY <1>5, <1>8, <1>9, <1>10, <1>11 DEF Sound
<1>13. \A k \in 1..Len(t.queue) : t.queue[k] # n
  BY <1>3, <1>5 DEF IsLeft
<1>14. Stalled(t) => Stalled(s)
  BY <1>3, <1>5 DEF IsLeft, Stalled
<1> QED  BY <1>5, <1>7, <1>12, <1>13, <1>14 DEF t, q

\* A record j that has lost its child and is i otherwise, but for pipeline p.
Lost(j, i, p) ==
  /\ j \in Instance /\ j.pipe = p /\ j.lastGreen = i.lastGreen /\ j.serving = None
  /\ j.enospc = i.enospc /\ j.indeterminate = i.indeterminate

LEMMA LostRecord ==
  ASSUME NEW i \in Instance, NEW b \in BOOLEAN, NEW sha \in Sha, NEW p \in Pipeline
  PROVE  LET j == [i EXCEPT !.serving = None, !.needsRespawn = b]
         IN Lost(j, i, i.pipe) /\ Lost([j EXCEPT !.pending = sha, !.pipe = p], i, p)
<1> DEFINE j == [i EXCEPT !.serving = None, !.needsRespawn = b]
<1>1. Lost(j, i, i.pipe)
  BY DEF Instance, Lost
<1> HIDE DEF j
<1>2. Lost([j EXCEPT !.pending = sha, !.pipe = p], i, p)
  BY <1>1 DEF Instance, Lost
<1> QED  BY <1>1, <1>2 DEF j

LEMMA OnServingExitedSteady ==
  ASSUME NEW s, NEW A, NEW G, Sound(s, A, G), NEW n \in DOMAIN s.inst, NEW g
  PROVE  Sound(OnServingExited(s, n, g), A, G) /\ Steady(s, OnServingExited(s, n, g))
<1> DEFINE i == s.inst[n]
           b == i.lastGreen # None
           f == OnServingExited(s, n, g)
<1>1. /\ i \in Instance /\ i.pipe \in Pipeline /\ b \in BOOLEAN
      /\ Fits(i, n, Work(s, A), s.gen, G[n])
  BY InstanceFacts
<1>2. n \in s.building => i.pipe.at = "building"
  BY DEF Sound, SlotsOK
<1>3. CASE i.serving = None \/ (i.serving # None /\ i.serving.gen # g)
  <2>1. f = s
    BY <1>3 DEF OnServingExited
  <2> QED  BY <2>1, SteadySame
<1>4. CASE /\ i.serving # None /\ i.serving.gen = g
           /\ ~(i.pipe.at = "queued" /\ i.lastGreen # None)
  <2> DEFINE j == [i EXCEPT !.serving = None, !.needsRespawn = b]
             u == Put(s, n, j)
             t == TryRespawn(u, n)
  <2>1. f = t
    BY <1>4 DEF OnServingExited, Put
  <2> HIDE DEF b, f
  <2>2. Lost(j, i, i.pipe)
    BY <1>1 DEF Instance, Lost
  <2> HIDE DEF j
  <2>3. Fits(j, n, Work(s, A), s.gen, G[n])
    BY <1>1, <2>2, CalmFits DEF Lost
  <2>4. Sound(u, A, G) /\ Steady(s, u)
    BY <1>2, <2>2, <2>3, PutSound, PutSteady DEF Lost
  <2>5. n \in DOMAIN u.inst
    BY <2>4 DEF Steady
  <2> HIDE DEF u
  <2>6. Sound(t, A, G) /\ Kept(u, t) /\ t.queue = u.queue /\ t.building = u.building
    BY <2>4, <2>5, TryRespawnKeeps
  <2> HIDE DEF t
  <2>7. Steady(s, t)
    BY <2>4, <2>6, SteadyKept DEF Stalled
  <2> QED  BY <2>1, <2>6, <2>7 DEF f
<1>5. CASE /\ i.serving # None /\ i.serving.gen = g
           /\ i.pipe.at = "queued" /\ i.lastGreen # None
  <2> DEFINE d == [i EXCEPT !.serving = None, !.needsRespawn = b]
             j == [d EXCEPT !.pending = i.pipe.sha, !.pipe = Idle]
             v == Unqueued(s, n)
             u == Put(v, n, j)
             t == TryRespawn(u, n)
  <2>1. f = t
    <3>1. s = [inst |-> s.inst, queue |-> s.queue, building |-> s.building,
               gen |-> s.gen, out |-> s.out]
      BY SoundFields
    <3> DEFINE w == [s EXCEPT !.inst[n] = j, !.queue = Leave(@, n)]
    <3>2. f = TryRespawn(w, n)
      BY <1>5 DEF OnServingExited
    <3> HIDE DEF j
    <3>3. w = u
      BY <3>1 DEF Put, Unqueued
    <3> QED  BY <3>2, <3>3
  <2>2. /\ Sound(v, A, G) /\ v.inst = s.inst /\ v.building = s.building
        /\ Work(v, A) = Work(s, A) /\ v.gen = s.gen
        /\ \A k \in 1..Len(v.queue) : v.queue[k] # n
        /\ Stalled(v) => Stalled(s)
    BY UnqueueKeeps DEF Work
  <2> HIDE DEF b, f, v
  <2>3. Lost(j, i, Idle)
    <3>1. i.pipe.sha \in Sha /\ Idle \in Pipeline
      BY <1>1, <1>5, PipeFacts DEF Pipeline, Idle
    <3> QED  BY <1>1, <3>1, LostRecord
  <2> HIDE DEF j
  <2>4. j.pipe.at = "idle"
    BY <2>3 DEF Lost, Idle
  <2>5. Fits(j, n, Work(v, A), v.gen, G[n])
    BY <1>1, <2>2, <2>3, <2>4, CalmFits DEF Lost
  <2>6. Sound(u, A, G)
    BY <1>2, <1>5, <2>2, <2>5, PutAnySound
  <2>7. Steady(v, u)
    BY <2>2, <2>3, PutSteady DEF Lost
  <2> HIDE DEF u
  <2>8. Steady(s, u)
    BY <2>2, <2>7 DEF Steady
  <2>9. n \in DOMAIN u.inst
    BY <2>8 DEF Steady
  <2>10. Sound(t, A, G) /\ Kept(u, t) /\ t.queue = u.queue /\ t.building = u.building
    BY <2>6, <2>9, TryRespawnKeeps
  <2> HIDE DEF t
  <2>11. Steady(s, t)
    BY <2>8, <2>10, SteadyKept DEF Stalled
  <2> QED  BY <2>1, <2>10, <2>11 DEF f
<1> QED  BY <1>3, <1>4, <1>5

-----------------------------------------------------------------------------
(* A promotion.                                                            *)

\* A record j that serves c, with children d draining, and is i otherwise.
Serving(j, i, c, d) ==
  /\ j \in Instance /\ j.pipe = Idle /\ j.lastGreen = c.sha /\ j.serving = c
  /\ j.draining = d /\ j.enospc = i.enospc /\ j.indeterminate = i.indeterminate

LEMMA ServingRecord ==
  ASSUME NEW i \in Instance, NEW c \in Child, NEW d \in SUBSET Nat
  PROVE  Serving([i EXCEPT !.serving = c, !.lastGreen = c.sha, !.pipe = Idle,
                           !.needsRespawn = FALSE, !.respawns = 0, !.draining = d], i, c, d)
<1> DEFINE h == [i EXCEPT !.serving = c, !.lastGreen = c.sha]
           k == [h EXCEPT !.pipe = Idle, !.draining = d]
           l == [k EXCEPT !.needsRespawn = FALSE, !.respawns = 0]
           j == [i EXCEPT !.serving = c, !.lastGreen = c.sha, !.pipe = Idle,
                          !.needsRespawn = FALSE, !.respawns = 0, !.draining = d]
<1>1. c.sha \in Sha /\ Idle \in Pipeline
  BY DEF Child, Pipeline, Idle
<1>2. j = l
  BY DEF Instance
<1>3. /\ h \in Instance /\ h.lastGreen = c.sha /\ h.serving = c
      /\ h.enospc = i.enospc /\ h.indeterminate = i.indeterminate
  BY <1>1 DEF Instance
<1> HIDE DEF h
<1>4. /\ k \in Instance /\ k.lastGreen = c.sha /\ k.serving = c /\ k.pipe = Idle
      /\ k.draining = d /\ k.enospc = i.enospc /\ k.indeterminate = i.indeterminate
  BY <1>1, <1>3 DEF Instance
<1> HIDE DEF k
<1>5. Serving(l, i, c, d)
  <2> DEFINE r == 0
             b == FALSE
  <2>1. r \in 0..RespawnCap /\ b \in BOOLEAN
    BY DEF RespawnCap
  <2>2. l = [k EXCEPT !.needsRespawn = b, !.respawns = r]
    OBVIOUS
  <2> HIDE DEF l, r, b
  <2>3. Serving([k EXCEPT !.needsRespawn = b, !.respawns = r], i, c, d)
    BY <1>4, <2>1 DEF Instance, Serving
  <2> QED  BY <2>2, <2>3
<1> HIDE DEF j, l
<1>6. Serving(j, i, c, d)
  BY <1>2, <1>5
<1> QED  BY <1>6 DEF j

\* What a promotion of n leads from s to t.
Promotion(s, t, n) ==
  LET i == s.inst[n]
      j == t.inst[n]
  IN /\ DOMAIN t.inst = DOMAIN s.inst
     /\ \A m \in DOMAIN s.inst : /\ Weight(t.inst[m]) = Weight(s.inst[m])
                                 /\ m # n => t.inst[m].serving = s.inst[m].serving
     /\ j.serving = [sha |-> i.pipe.sha, gen |-> i.pipe.gen]
     /\ j.lastGreen = i.pipe.sha
     /\ i.serving # None => i.serving.gen \in j.draining
     /\ \A a \in Ordered(t) : a \in Ordered(s) \/ s.gen <= a.gen

LEMMA PromotionKept ==
  ASSUME NEW s, NEW A, NEW G, Sound(s, A, G), NEW n \in DOMAIN s.inst,
         NEW j, NEW d, Serving(j, s.inst[n], [sha |-> s.inst[n].pipe.sha, gen |-> s.inst[n].pipe.gen], d),
         s.inst[n].serving # None => s.inst[n].serving.gen \in d,
         NEW t, Kept(Put(s, n, j), t)
  PROVE  Promotion(s, t, n)
<1> DEFINE u == Put(s, n, j)
           c == [sha |-> s.inst[n].pipe.sha, gen |-> s.inst[n].pipe.gen]
<1>1. IsPut(u, s, n, j)
  BY PutFields
<1>2. Kept(u, t)
  OBVIOUS
<1>3. c.sha = s.inst[n].pipe.sha
  OBVIOUS
<1>4. /\ j.serving = c /\ j.lastGreen = c.sha /\ j.draining = d
      /\ j.enospc = s.inst[n].enospc /\ j.indeterminate = s.inst[n].indeterminate
  BY DEF Serving
<1> HIDE DEF u, c
<1>5. /\ DOMAIN t.inst = DOMAIN s.inst
      /\ \A a \in Ordered(t) : a \in Ordered(s) \/ s.gen <= a.gen
  BY <1>1, <1>2 DEF IsPut, Kept
<1>6. t.inst[n].serving = c /\ t.inst[n].lastGreen = c.sha /\ t.inst[n].draining = d
      /\ Weight(t.inst[n]) = Weight(s.inst[n])
  BY <1>1, <1>2, <1>4 DEF IsPut, Kept, Same, Weight
<1>7. ASSUME NEW m \in DOMAIN s.inst, m # n
      PROVE  /\ Weight(t.inst[m]) = Weight(s.inst[m])
             /\ t.inst[m].serving = s.inst[m].serving
  BY <1>1, <1>2, <1>7 DEF IsPut, Kept, Same, Weight
<1> QED  BY <1>3, <1>5, <1>6, <1>7 DEF Promotion, c

LEMMA OnProbeSucceededPromotes ==
  ASSUME NEW s, NEW A, NEW G, Sound(s, A, G), NEW n \in DOMAIN s.inst, NEW g,
         Awaits(s, n, "probing", g)
  PROVE  LET t == OnProbeSucceeded(s, n, g)
         IN Sound(t, A, G) /\ Promotion(s, t, n) /\ ~Stalled(t)
<1> DEFINE i == s.inst[n]
           c == [sha |-> i.pipe.sha, gen |-> i.pipe.gen]
           d == i.draining \cup IF i.serving = None THEN {} ELSE {i.serving.gen}
           j == [i EXCEPT !.serving = c, !.lastGreen = c.sha, !.pipe = Idle,
                          !.needsRespawn = FALSE, !.respawns = 0, !.draining = d]
           u == Put(s, n, j)
           o == [act |-> "Promote", name |-> n, sha |-> c.sha, gen |-> c.gen]
           v == Emit(u, o)
           e == [act |-> "StartDrain", name |-> n, gen |-> i.serving.gen]
           w == IF i.serving = None THEN v ELSE Emit(v, e)
           x == SettleIdle(w, n)
           t == Dispatch(x)
<1>1. /\ n \in Name /\ i \in Instance /\ i.pipe \in Pipeline
      /\ i.draining \in SUBSET Nat /\ i.serving \in Child \cup {None}
      /\ Fits(i, n, Work(s, A), s.gen, G[n])
  BY InstanceFacts DEF Instance
<1>2. i.pipe.at = "probing" /\ i.pipe.sha \in Sha /\ i.pipe.gen \in Nat
      /\ i.pipe.sha \in G[n]
  BY <1>1, PipeFacts DEF Awaits, Fits
<1>3. OnProbeSucceeded(s, n, g) = t
  <2>1. Promoted(s, n) = w
    BY DEF Promoted, Put
  <2> HIDE DEF w
  <2> QED  BY <2>1 DEF OnProbeSucceeded
<1>4. c \in Child /\ c.sha = i.pipe.sha /\ c.gen = i.pipe.gen
  BY <1>2 DEF Child
<1>5. i.serving # None => i.serving.gen \in Nat
  BY <1>1 DEF Child
<1>6. d \in SUBSET Nat /\ (i.serving # None => i.serving.gen \in d)
  BY <1>1, <1>5
<1>7. o \in Order /\ o.act \notin Attempting
  BY <1>1, <1>2, <1>4 DEF Order, Attempting
<1>8. i.serving # None => e \in Order /\ e.act \notin Attempting
  BY <1>1, <1>5 DEF Order, Attempting
<1> HIDE DEF d, o, e
<1>9. Serving(j, i, c, d)
  <2> HIDE DEF c
  <2> QED  BY <1>1, <1>4, <1>6, ServingRecord
<1> HIDE DEF j
<1>10. j.pipe.at = "idle" /\ j.lastGreen = i.pipe.sha /\ j \in Instance
  BY <1>4, <1>9 DEF Serving, Idle
<1>11. Fits(j, n, Work(s, A), s.gen, G[n])
  BY <1>2, <1>10 DEF Fits, Matches
<1>12. n \notin s.building
  BY <1>2, OutOfSlot
<1>13. Sound(u, A, G)
  BY <1>2, <1>11, <1>12, PutSound
<1>14. n \in DOMAIN u.inst
  <2>1. IsPut(u, s, n, j)
    BY PutFields
  <2> QED  BY <2>1 DEF IsPut
<1> HIDE DEF u
<1>15. Sound(v, A, G) /\ Kept(u, v)
  BY <1>7, <1>13, EmitKept
<1> HIDE DEF v
<1>16. Sound(w, A, G) /\ Kept(u, w)
  <2>1. CASE i.serving = None
    BY <1>15, <2>1
  <2>2. CASE i.serving # None
    <3> DEFINE y == Emit(v, e)
    <3>1. Sound(y, A, G) /\ Kept(v, y)
      BY <1>8, <1>15, <2>2, EmitKept
    <3> HIDE DEF y
    <3>2. Kept(u, y)
      BY <1>13, <1>15, <3>1, KeptTransitive
    <3> QED  BY <2>2, <3>1, <3>2 DEF y
  <2> QED  BY <2>1, <2>2
<1> HIDE DEF w
<1>17. n \in DOMAIN w.inst
  BY <1>14, <1>16 DEF Kept
<1>18. Sound(x, A, G) /\ Kept(w, x)
  BY <1>16, <1>17, SettleIdleKeeps
<1> HIDE DEF x
<1>19. Sound(t, A, G) /\ Kept(x, t) /\ ~Stalled(t)
  BY <1>18, DispatchKeeps
<1> HIDE DEF t
<1>20. Kept(u, x)
  BY <1>13, <1>16, <1>18, KeptTransitive
<1>21. Kept(u, t)
  BY <1>13, <1>18, <1>19, <1>20, KeptTransitive
<1>22. Promotion(s, t, n)
  BY <1>6, <1>9, <1>21, PromotionKept DEF u
<1> QED  BY <1>3, <1>19, <1>22

-----------------------------------------------------------------------------
(* Between steps.                                                          *)

\* Attempts may be reported, commits may build green.
LEMMA Narrowed ==
  ASSUME NEW s, NEW A, NEW G, Sound(s, A, G), NEW B, NEW H,
         B \subseteq Work(s, A), Ordered(s) \subseteq B,
         \A n \in DOMAIN s.inst : G[n] \subseteq H[n]
  PROVE  Sound(s, B, H)
<1>1. Work(s, B) \subseteq Work(s, A)
  BY DEF Work
<1>2. ASSUME NEW n \in DOMAIN s.inst
      PROVE  Fits(s.inst[n], n, Work(s, B), s.gen, H[n])
  <2>1. Fits(s.inst[n], n, Work(s, A), s.gen, G[n])
    BY DEF Sound
  <2>2. G[n] \subseteq H[n]
    OBVIOUS
  <2> QED  BY <1>1, <2>1, <2>2 DEF Fits
<1> QED  BY <1>1, <1>2 DEF Sound

Reset(s) == [s EXCEPT !.out = <<>>]

LEMMA ResetFacts ==
  ASSUME NEW s, NEW A, NEW G, Sound(s, A, G)
  PROVE  /\ Sound(Reset(s), A, G) /\ Steady(s, Reset(s)) /\ Reset(s).inst = s.inst
         /\ Ordered(Reset(s)) = {} /\ Orders(Reset(s)) = {} /\ Reset(s).gen = s.gen
         /\ Reset(s).queue = s.queue /\ Reset(s).building = s.building
         /\ Reset(s) = [inst |-> s.inst, queue |-> s.queue, building |-> s.building,
                        gen |-> s.gen, out |-> <<>>]
<1> DEFINE t == Reset(s)
<1>1. /\ s = [inst |-> s.inst, queue |-> s.queue, building |-> s.building,
              gen |-> s.gen, out |-> s.out]
      /\ s.queue \in Seq(Name) /\ s.building \in SUBSET Name /\ s.gen \in Nat
  BY SoundFields
<1>2. t = [inst |-> s.inst, queue |-> s.queue, building |-> s.building,
           gen |-> s.gen, out |-> <<>>]
  BY <1>1 DEF Reset
<1> HIDE DEF t
<1>3. /\ t.inst = s.inst /\ t.queue = s.queue /\ t.building = s.building /\ t.gen = s.gen
      /\ t.out = <<>>
  BY <1>2
<1>4. Orders(t) = {}
  BY <1>3 DEF Orders
<1>5. Ordered(t) = {}
  BY <1>4, OrderedIs
<1>6. Work(t, A) = A /\ A \subseteq Work(s, A)
  BY <1>5 DEF Work
<1>7. Shape(t)
  <2>1. t \in [inst : {t.inst}, queue : Seq(Name), building : SUBSET Name, gen : Nat,
               out : Seq(Order)]
    BY <1>1, <1>2, <1>3
  <2> QED  BY <1>3, <2>1 DEF Shape, Sound
<1>8. QueueOK(t) /\ SlotsOK(t)
  BY <1>3 DEF Sound, QueueOK, SlotsOK
<1>9. ASSUME NEW n \in DOMAIN t.inst
      PROVE  Fits(t.inst[n], n, Work(t, A), t.gen, G[n])
  <2>1. Fits(s.inst[n], n, Work(s, A), s.gen, G[n])
    BY <1>3 DEF Sound
  <2> QED  BY <1>3, <1>6, <2>1 DEF Fits
<1>10. Sound(t, A, G)
  BY <1>3, <1>6, <1>7, <1>8, <1>9 DEF Sound
<1>11. Steady(s, t)
  BY <1>3 DEF Steady, Stalled
<1> QED  BY <1>2, <1>3, <1>4, <1>5, <1>10, <1>11 DEF t

LEMMA NewInstanceFacts ==
  /\ NewInstance \in Instance /\ NewInstance.pipe.at = "idle" /\ NewInstance.lastGreen = None
  /\ NewInstance.serving = None /\ Weight(NewInstance) = 0
<1>1. Idle \in Pipeline /\ Idle.at = "idle"
  BY DEF Pipeline, Idle
<1> DEFINE e == {}
           b == FALSE
           z == 0
<1>2. e \in SUBSET Nat /\ b \in BOOLEAN /\ z \in 0..IndeterminateCap /\ z \in 0..EnospcCap
      /\ z \in 0..RespawnCap
  BY DEF IndeterminateCap, EnospcCap, RespawnCap
<1>3. NewInstance = [serving |-> None, pipe |-> Idle, pending |-> None, lastRed |-> None,
                     lastGreen |-> None, draining |-> e, needsRespawn |-> b,
                     indeterminate |-> z, enospc |-> z, respawns |-> z]
  BY DEF NewInstance
<1> HIDE DEF e, b
<1>4. NewInstance.pipe = Idle /\ NewInstance.lastGreen = None /\ NewInstance.serving = None
      /\ NewInstance.enospc = 0 /\ NewInstance.indeterminate = 0
  BY <1>3
<1>5. Weight(NewInstance) = 0
  BY <1>4 DEF Weight, IndeterminateCap
<1> HIDE DEF z
<1>6. NewInstance \in Instance
  BY <1>1, <1>2, <1>3 DEF Instance
<1> QED  BY <1>1, <1>4, <1>5, <1>6

\* An instance that has seen nothing fits whatever is under way.
LEMMA NewFits ==
  ASSUME NEW n, NEW B, NEW g, NEW greens
  PROVE  Fits(NewInstance, n, B, g, greens)
<1>1. \A a \in B : Matches(a, NewInstance.pipe)
  BY NewInstanceFacts DEF Matches
<1> QED  BY <1>1, NewInstanceFacts DEF Fits

LEMMA AddSound ==
  ASSUME NEW s, NEW A, NEW G, Sound(s, A, G), NEW n \in Name, n \notin DOMAIN s.inst
  PROVE  LET t == AddInstance(s, n)
         IN /\ Sound(t, A, G) /\ Ordered(t) = {}
            /\ DOMAIN t.inst = DOMAIN s.inst \cup {n} /\ t.inst[n] = NewInstance
            /\ \A m \in DOMAIN s.inst : t.inst[m] = s.inst[m]
            /\ Stalled(t) => Stalled(s)
<1> DEFINE r == Reset(s)
           D == DOMAIN s.inst
           f == [m \in D \cup {n} |-> IF m \in D THEN s.inst[m] ELSE NewInstance]
           t == AddInstance(s, n)
<1>1. /\ Sound(r, A, G) /\ r.inst = s.inst /\ Ordered(r) = {} /\ r.queue = s.queue
      /\ r.building = s.building /\ r.gen = s.gen
  BY ResetFacts
<1>2. /\ s = [inst |-> s.inst, queue |-> s.queue, building |-> s.building,
              gen |-> s.gen, out |-> s.out]
      /\ s.queue \in Seq(Name) /\ s.building \in SUBSET Name /\ s.gen \in Nat
  BY SoundFields
<1>3. t = [s EXCEPT !.inst = f, !.out = <<>>]
  BY DEF AddInstance
<1>4. /\ DOMAIN f = D \cup {n} /\ f[n] = NewInstance
      /\ \A m \in D : f[m] = s.inst[m]
      /\ f = [m \in DOMAIN f |-> f[m]]
  OBVIOUS
<1> HIDE DEF f, t, r
<1>5. t = [inst |-> f, queue |-> s.queue, building |-> s.building, gen |-> s.gen,
           out |-> <<>>]
  BY <1>2, <1>3
<1>6. /\ t.inst = f /\ t.queue = s.queue /\ t.building = s.building /\ t.gen = s.gen
      /\ t.out = <<>>
  BY <1>5
<1>7. Orders(t) = {}
  BY <1>6 DEF Orders
<1>8. Ordered(t) = {}
  BY <1>7, OrderedIs
<1>9. Work(t, A) = A /\ Work(r, A) = A
  BY <1>1, <1>8 DEF Work
<1>10. Shape(t)
  <2>1. t \in [inst : {t.inst}, queue : Seq(Name), building : SUBSET Name, gen : Nat,
               out : Seq(Order)]
    BY <1>2, <1>5, <1>6
  <2>2. D \in SUBSET Name
    BY DEF Sound, Shape
  <2> QED  BY <1>4, <1>6, <2>1, <2>2 DEF Shape
<1>11. QueueOK(t) /\ SlotsOK(t)
  BY <1>4, <1>6 DEF Sound, QueueOK, SlotsOK
<1>12. ASSUME NEW m \in DOMAIN t.inst
       PROVE  Fits(t.inst[m], m, Work(t, A), t.gen, G[m])
  <2>1. CASE m = n
    BY <1>4, <1>6, <2>1, NewFits
  <2>2. CASE m # n
    <3>1. m \in D
      BY <1>4, <1>6, <1>12, <2>2
    <3>2. Fits(r.inst[m], m, Work(r, A), r.gen, G[m])
      BY <1>1, <3>1 DEF Sound
    <3> QED  BY <1>1, <1>4, <1>6, <1>9, <3>1, <3>2
  <2> QED  BY <2>1, <2>2
<1>13. \A a \in Work(t, A) : a \in Attempt /\ a.gen < t.gen
  BY <1>1, <1>6, <1>9 DEF Sound
<1>14. Sound(t, A, G)
  BY <1>10, <1>11, <1>12, <1>13 DEF Sound
<1>15. Stalled(t) => Stalled(s)
  BY <1>6 DEF Stalled
<1> QED  BY <1>4, <1>6, <1>8, <1>14, <1>15 DEF t

\* An instance that neither waits nor builds goes.
LEMMA RestrictSound ==
  ASSUME NEW s, NEW A, NEW G, Sound(s, A, G), NEW n, n \notin s.building,
         \A k \in 1..Len(s.queue) : s.queue[k] # n,
         NEW H, \A m \in DOMAIN s.inst : m # n => H[m] = G[m],
         NEW t, t = [inst |-> [m \in DOMAIN s.inst \ {n} |-> s.inst[m]], queue |-> s.queue,
                     building |-> s.building, gen |-> s.gen, out |-> s.out]
  PROVE  Sound(t, A, H)
<1> DEFINE f == [m \in DOMAIN s.inst \ {n} |-> s.inst[m]]
<1>1. /\ s.queue \in Seq(Name) /\ s.building \in SUBSET Name /\ s.gen \in Nat
      /\ s.out \in Seq(Order)
  BY SoundFields
<1>2. /\ DOMAIN f = DOMAIN s.inst \ {n} /\ \A m \in DOMAIN f : f[m] = s.inst[m]
      /\ f = [m \in DOMAIN f |-> f[m]]
  OBVIOUS
<1> HIDE DEF f
<1>3. t = [inst |-> f, queue |-> s.queue, building |-> s.building, gen |-> s.gen,
           out |-> s.out]
  BY DEF f
<1>4. /\ t.inst = f /\ t.queue = s.queue /\ t.building = s.building /\ t.gen = s.gen
      /\ t.out = s.out
  BY <1>3
<1>5. Orders(t) = Orders(s)
  BY <1>4 DEF Orders
<1>6. Work(t, A) = Work(s, A)
  BY <1>5, OrderedIs DEF Work
<1>7. Shape(t)
  <2>1. t \in [inst : {t.inst}, queue : Seq(Name), building : SUBSET Name, gen : Nat,
               out : Seq(Order)]
    BY <1>1, <1>3, <1>4
  <2> QED  BY <1>2, <1>4, <2>1 DEF Shape, Sound
<1>8. QueueOK(t) /\ SlotsOK(t)
  BY <1>2, <1>4 DEF Sound, QueueOK, SlotsOK
<1>9. ASSUME NEW m \in DOMAIN t.inst
      PROVE  Fits(t.inst[m], m, Work(t, A), t.gen, H[m])
  <2>1. m \in DOMAIN s.inst /\ m # n /\ t.inst[m] = s.inst[m]
    BY <1>2, <1>4
  <2>2. Fits(s.inst[m], m, Work(s, A), s.gen, G[m])
    BY <2>1 DEF Sound
  <2> QED  BY <1>4, <1>6, <2>1, <2>2
<1>10. \A a \in Work(t, A) : a \in Attempt /\ a.gen < t.gen
  BY <1>4, <1>6 DEF Sound
<1> QED  BY <1>7, <1>8, <1>9, <1>10 DEF Sound

LEMMA RemoveSound ==
  ASSUME NEW s, NEW A, NEW G, Sound(s, A, G), NEW n,
         NEW H, \A m \in DOMAIN s.inst : m # n => H[m] = G[m]
  PROVE  LET t == RemoveInstance(s, n)
         IN /\ Sound(t, A, H) /\ Ordered(t) = {}
            /\ DOMAIN t.inst = DOMAIN s.inst \ {n}
            /\ \A m \in DOMAIN t.inst : t.inst[m] = s.inst[m]
<1> DEFINE q == Leave(s.queue, n)
           b == s.building \ {n}
           f == [m \in DOMAIN s.inst \ {n} |-> s.inst[m]]
           r == Reset(s)
           v == Unqueued(r, n)
           w == Slotless(v, n)
           t == RemoveInstance(s, n)
<1>1. Sound(r, A, G)
  BY ResetFacts
<1>2. /\ r = [inst |-> s.inst, queue |-> s.queue, building |-> s.building,
              gen |-> s.gen, out |-> <<>>]
      /\ r.inst = s.inst /\ Ordered(r) = {}
  BY ResetFacts
<1>3. t = [inst |-> f, queue |-> q, building |-> b, gen |-> s.gen, out |-> <<>>]
  <2>1. s = [inst |-> s.inst, queue |-> s.queue, building |-> s.building,
             gen |-> s.gen, out |-> s.out]
    BY SoundFields
  <2>2. t = [s EXCEPT !.inst = f, !.queue = q, !.building = b, !.out = <<>>]
    BY DEF RemoveInstance
  <2> HIDE DEF t, f, q, b
  <2> QED  BY <2>1, <2>2
<1> HIDE DEF r, t
<1>4. v = [inst |-> s.inst, queue |-> q, building |-> s.building, gen |-> s.gen,
           out |-> <<>>]
  <2>1. v = [r EXCEPT !.queue = q]
    BY <1>2 DEF Unqueued
  <2> HIDE DEF q, v
  <2> QED  BY <1>2, <2>1
<1>5. /\ Sound(v, A, G) /\ v.inst = r.inst /\ Ordered(v) = Ordered(r)
      /\ \A k \in 1..Len(v.queue) : v.queue[k] # n
  BY <1>1, UnqueueKeeps
<1> HIDE DEF v, q
<1>6. w = [inst |-> s.inst, queue |-> q, building |-> b, gen |-> s.gen, out |-> <<>>]
  <2>1. w = [v EXCEPT !.building = b]
    BY <1>4 DEF Slotless
  <2> HIDE DEF b, w
  <2> QED  BY <1>4, <2>1
<1>7. /\ Sound(w, A, G) /\ w.inst = v.inst /\ w.queue = v.queue
      /\ w.building = v.building \ {n}
  BY <1>5, LeaveSlotKeeps
<1> HIDE DEF w, b
<1>8. /\ w.inst = s.inst /\ w.queue = q /\ w.building = b /\ w.gen = s.gen /\ w.out = <<>>
  BY <1>6
<1>9. t = [inst |-> [m \in DOMAIN w.inst \ {n} |-> w.inst[m]], queue |-> w.queue,
           building |-> w.building, gen |-> w.gen, out |-> w.out]
  BY <1>3, <1>8
<1>10. Sound(t, A, H)
  <2>1. \A k \in 1..Len(w.queue) : w.queue[k] # n
    BY <1>5, <1>7
  <2>2. n \notin w.building
    BY <1>7
  <2>3. \A m \in DOMAIN w.inst : m # n => H[m] = G[m]
    BY <1>8
  <2> QED  BY <1>7, <1>9, <2>1, <2>2, <2>3, RestrictSound
<1>11. Ordered(t) = {}
  <2>1. t.out = <<>>
    BY <1>3
  <2>2. Orders(t) = {}
    BY <2>1 DEF Orders
  <2> QED  BY <2>2, OrderedIs
<1>12. t.inst = f
  BY <1>3
<1> QED  BY <1>10, <1>11, <1>12 DEF t

-----------------------------------------------------------------------------
(* The invariant, and what every step does.                                *)

MachineInv ==
  /\ Sound(machine, attempts, green)
  /\ green \in [Name -> SUBSET Sha]
  /\ unjudged \in [Name -> Nat]
  /\ BuildsConverge

Earned ==
  \A n \in Names \cap DOMAIN machine'.inst :
    LET old == machine.inst[n].serving
        now == machine'.inst[n].serving
    IN now \notin {old, None} =>
         /\ now.sha \in green[n] /\ machine'.inst[n].lastGreen = now.sha
         /\ [kind |-> "probe", name |-> n, sha |-> now.sha, gen |-> now.gen] \in attempts \ attempts'
         /\ old # None => old.gen \in machine'.inst[n].draining

\* The two streaks account for the builds without a verdict.
Converged(u, s) ==
  \A n \in Name : u[n] <= IF n \notin DOMAIN s.inst THEN 0 ELSE Weight(s.inst[n])

LEMMA ConvergedIs == BuildsConverge <=> Converged(unjudged, machine)
BY DEF BuildsConverge, Converged, Weight, Names

LEMMA InitIInv == MInit => MachineInv
<1> SUFFICES ASSUME MInit PROVE MachineInv
  OBVIOUS
<1>1. PICK names \in SUBSET Name : machine = NewApp(names)
  BY DEF MInit
<1> DEFINE f == [n \in names |-> NewInstance]
<1>2. /\ machine = [inst |-> f, queue |-> <<>>, building |-> {}, gen |-> 1, out |-> <<>>]
      /\ attempts = {}
  BY <1>1 DEF MInit, NewApp
<1>3. DOMAIN f = names /\ f = [n \in DOMAIN f |-> f[n]] /\ \A n \in names : f[n] = NewInstance
  OBVIOUS
<1> HIDE DEF f
<1>4. /\ machine.inst = f /\ machine.queue = <<>> /\ machine.building = {} /\ machine.gen = 1
      /\ machine.out = <<>>
  BY <1>2
<1>5. Orders(machine) = {}
  BY <1>4 DEF Orders
<1>6. Ordered(machine) = {}
  BY <1>5, OrderedIs
<1>7. Work(machine, attempts) = {}
  BY <1>2, <1>6 DEF Work
<1>8. Shape(machine)
  <2>1. machine \in [inst : {machine.inst}, queue : Seq(Name), building : SUBSET Name, gen : Nat,
                 out : Seq(Order)]
    BY <1>2, <1>4
  <2> QED  BY <1>3, <1>4, <2>1 DEF Shape
<1>9. QueueOK(machine)
  BY <1>4 DEF QueueOK
<1>10. SlotsOK(machine)
  BY <1>4, FS_EmptySet, SlotAssumption DEF SlotsOK
<1>11. \A n \in DOMAIN machine.inst : Fits(machine.inst[n], n, Work(machine, attempts), machine.gen, green[n])
  BY <1>3, <1>4, NewFits
<1>12. Sound(machine, attempts, green)
  BY <1>7, <1>8, <1>9, <1>10, <1>11 DEF Sound
<1>13. green \in [Name -> SUBSET Sha] /\ unjudged \in [Name -> Nat]
       /\ \A n \in Name : unjudged[n] = 0
  BY DEF MInit
<1>14. Converged(unjudged, machine)
  BY <1>3, <1>4, <1>13, NewInstanceFacts DEF Converged
<1> QED  BY <1>12, <1>13, <1>14, ConvergedIs DEF MachineInv

\* A step's new attempts are those under way that it does not report, and
\* those it orders.
LEMMA StepSound ==
  ASSUME NEW n, NEW ev, NEW done, Step(n, ev, done), Sound(machine', attempts, green')
  PROVE  Sound(machine', attempts', green')
<1>1. attempts' \subseteq Work(machine', attempts) /\ Ordered(machine') \subseteq attempts'
  BY DEF Step, Work
<1> QED  BY <1>1, Narrowed

LEMMA SteadyStep ==
  ASSUME MachineInv, NEW n, NEW ev, NEW done, Step(n, ev, done),
         Sound(machine', attempts, green'), green' \in [Name -> SUBSET Sha],
         Steady(machine, machine'), unjudged' = unjudged
  PROVE  MachineInv' /\ Earned /\ (Stalled(machine') => Stalled(machine))
<1>1. Sound(machine', attempts', green')
  BY StepSound
<1>2. Converged(unjudged, machine)
  BY ConvergedIs DEF MachineInv
<1>3. Converged(unjudged', machine')
  BY <1>2 DEF Converged, Steady
<1>4. BuildsConverge'
  BY <1>3 DEF BuildsConverge, Converged, Weight, Names
<1>5. Earned
  BY DEF Earned, Steady, Names
<1> QED  BY <1>1, <1>4, <1>5 DEF MachineInv, Steady

LEMMA FromReset ==
  ASSUME NEW s, NEW A, NEW G, Sound(s, A, G), NEW t, Steady(Reset(s), t)
  PROVE  Steady(s, t)
BY ResetFacts DEF Steady

LEMMA StepAppIs ==
  ASSUME NEW s, NEW n, NEW sha, NEW g
  PROVE  /\ n \notin DOMAIN Reset(s).inst => \A ev : StepApp(s, n, ev) = Reset(s)
         /\ n \in DOMAIN Reset(s).inst =>
              /\ StepApp(s, n, [type |-> "HeadAdvanced", sha |-> sha]) = OnHead(Reset(s), n, sha)
              /\ StepApp(s, n, [type |-> "ProbeSucceeded", gen |-> g]) =
                   OnProbeSucceeded(Reset(s), n, g)
              /\ StepApp(s, n, [type |-> "ProbeFailed", gen |-> g]) =
                   OnProbeFailed(Reset(s), n, g)
              /\ StepApp(s, n, [type |-> "ServingExited", gen |-> g]) =
                   OnServingExited(Reset(s), n, g)
              /\ StepApp(s, n, [type |-> "DrainComplete", gen |-> g]) =
                   OnDrainComplete(Reset(s), n, g)
              /\ StepApp(s, n, [type |-> "RecoverFromPointer", sha |-> sha]) =
                   OnRecover(Reset(s), n, sha)
BY DEF StepApp, Reset

LEMMA StepAppBuild ==
  ASSUME NEW s, NEW n, NEW g, NEW outcome, n \in DOMAIN Reset(s).inst
  PROVE  StepApp(s, n, [type |-> "BuildFinished", gen |-> g, outcome |-> outcome]) =
           OnBuildFinished(Reset(s), n, g, outcome)
BY DEF StepApp, Reset

LEMMA HeadStep ==
  ASSUME MachineInv, NEW n \in Name, NEW sha \in Sha, HeadAdvanced(n, sha)
  PROVE  MachineInv' /\ Earned /\ (Stalled(machine') => Stalled(machine))
<1> DEFINE r == Reset(machine)
           ev == [type |-> "HeadAdvanced", sha |-> sha]
<1>1. Sound(r, attempts, green) /\ n \in DOMAIN r.inst
  BY ResetFacts DEF MachineInv, HeadAdvanced, Names
<1>2. StepApp(machine, n, ev) = OnHead(r, n, sha)
  BY <1>1, StepAppIs
<1>3. Step(n, ev, {}) /\ green' = green /\ unjudged' = unjudged
  BY DEF HeadAdvanced
<1>4. machine' = OnHead(r, n, sha)
  BY <1>2, <1>3 DEF Step
<1> HIDE DEF r, ev
<1>5. Sound(machine', attempts, green) /\ Steady(r, machine')
  BY <1>1, <1>4, OnHeadSteady
<1>6. Steady(machine, machine')
  BY <1>5, FromReset DEF r, MachineInv
<1> QED  BY <1>3, <1>5, <1>6, SteadyStep DEF MachineInv

LEMMA ServingExitedStep ==
  ASSUME MachineInv, NEW n \in Names, NEW g, ServingExited(n, g)
  PROVE  MachineInv' /\ Earned /\ (Stalled(machine') => Stalled(machine))
<1> DEFINE r == Reset(machine)
           ev == [type |-> "ServingExited", gen |-> g]
<1>1. Sound(r, attempts, green) /\ n \in DOMAIN r.inst
  BY ResetFacts DEF MachineInv, Names
<1>2. StepApp(machine, n, ev) = OnServingExited(r, n, g)
  BY <1>1, StepAppIs
<1>3. Step(n, ev, {}) /\ green' = green /\ unjudged' = unjudged
  BY DEF ServingExited
<1>4. machine' = OnServingExited(r, n, g)
  BY <1>2, <1>3 DEF Step
<1> HIDE DEF r, ev
<1>5. Sound(machine', attempts, green) /\ Steady(r, machine')
  BY <1>1, <1>4, OnServingExitedSteady
<1>6. Steady(machine, machine')
  BY <1>5, FromReset DEF r, MachineInv
<1> QED  BY <1>3, <1>5, <1>6, SteadyStep DEF MachineInv

LEMMA DrainCompleteStep ==
  ASSUME MachineInv, NEW n \in Names, NEW g, DrainComplete(n, g)
  PROVE  MachineInv' /\ Earned /\ (Stalled(machine') => Stalled(machine))
<1> DEFINE r == Reset(machine)
           ev == [type |-> "DrainComplete", gen |-> g]
<1>1. Sound(r, attempts, green) /\ n \in DOMAIN r.inst
  BY ResetFacts DEF MachineInv, Names
<1>2. StepApp(machine, n, ev) = OnDrainComplete(r, n, g)
  BY <1>1, StepAppIs
<1>3. Step(n, ev, {}) /\ green' = green /\ unjudged' = unjudged
  BY DEF DrainComplete
<1>4. machine' = OnDrainComplete(r, n, g)
  BY <1>2, <1>3 DEF Step
<1> HIDE DEF r, ev
<1>5. Sound(machine', attempts, green) /\ Steady(r, machine')
  BY <1>1, <1>4, OnDrainCompleteSteady
<1>6. Steady(machine, machine')
  BY <1>5, FromReset DEF r, MachineInv
<1> QED  BY <1>3, <1>5, <1>6, SteadyStep DEF MachineInv

LEMMA RecoverStep ==
  ASSUME MachineInv, NEW n \in Name, NEW sha \in Sha, Recover(n, sha)
  PROVE  MachineInv' /\ Earned /\ (Stalled(machine') => Stalled(machine))
<1> DEFINE r == Reset(machine)
           ev == [type |-> "RecoverFromPointer", sha |-> sha]
<1>1. Sound(r, attempts, green) /\ n \in DOMAIN r.inst /\ Ordered(r) = {}
      /\ DOMAIN r.inst \in SUBSET Name
  BY ResetFacts DEF MachineInv, Recover, Names, Sound, Shape
<1>2. StepApp(machine, n, ev) = OnRecover(r, n, sha)
  BY <1>1, StepAppIs
<1>3. Step(n, ev, {}) /\ unjudged' = unjudged
  BY DEF Recover
<1>4. machine' = OnRecover(r, n, sha)
  BY <1>2, <1>3 DEF Step
<1>5. /\ green' \in [Name -> SUBSET Sha] /\ sha \in green'[n]
      /\ \A m \in Name : green[m] \subseteq green'[m]
  BY DEF Recover, MachineInv
<1> HIDE DEF r, ev
<1>6. Sound(r, attempts, green')
  BY <1>1, <1>5, Narrowed DEF Work
<1>7. Sound(machine', attempts, green') /\ Steady(r, machine')
  BY <1>1, <1>4, <1>5, <1>6, OnRecoverSteady
<1>8. Steady(machine, machine')
  BY <1>7, FromReset DEF r, MachineInv
<1> QED  BY <1>3, <1>5, <1>7, <1>8, SteadyStep

LEMMA AttemptFacts ==
  ASSUME NEW s, NEW A, NEW G, Sound(s, A, G), NEW a \in A
  PROVE  /\ a.name \in Name /\ a.sha \in Sha /\ a.gen \in Nat /\ a.gen < s.gen
         /\ a = [kind |-> a.kind, name |-> a.name, sha |-> a.sha, gen |-> a.gen]
<1>1. a \in Attempt /\ a.gen < s.gen
  BY DEF Sound, Work
<1> QED  BY <1>1 DEF Attempt

\* A result nobody awaits.
LEMMA StaleStep ==
  ASSUME MachineInv, NEW n, NEW ev, NEW done, Step(n, ev, done), machine' = Reset(machine),
         green' = green, unjudged' = unjudged
  PROVE  MachineInv' /\ Earned /\ (Stalled(machine') => Stalled(machine))
<1>1. Sound(machine', attempts, green') /\ Steady(machine, machine')
  BY ResetFacts DEF MachineInv
<1> QED  BY <1>1, SteadyStep DEF MachineInv

LEMMA BuildFinishedStep ==
  ASSUME MachineInv, NEW a \in attempts, NEW outcome \in BuildOutcome, BuildFinished(a, outcome)
  PROVE  MachineInv' /\ Earned /\ (Stalled(machine') => Stalled(machine))
<1> DEFINE n == a.name
           r == Reset(machine)
           ev == [type |-> "BuildFinished", gen |-> a.gen, outcome |-> outcome]
           current == n \in Names /\ Awaits(machine, n, "building", a.gen)
<1>1. Sound(r, attempts, green) /\ r.inst = machine.inst /\ Ordered(r) = {} /\ Sound(machine, attempts, green)
  BY ResetFacts DEF MachineInv
<1>2. n \in Name /\ a.sha \in Sha
  BY <1>1, AttemptFacts
<1>3. Step(n, ev, {a}) /\ a.kind = "build"
  BY DEF BuildFinished
<1>4. CASE ~current
  <2>1. green' = green
    BY <1>2, <1>4 DEF BuildFinished, MachineInv
  <2>2. unjudged' = unjudged
    BY <1>2, <1>4 DEF BuildFinished, MachineInv
  <2>3. machine' = r
    <3>1. CASE n \notin DOMAIN r.inst
      <4>1. StepApp(machine, n, ev) = r
        BY <3>1, StepAppIs
      <4> QED  BY <1>3, <4>1 DEF Step
    <3>2. CASE n \in DOMAIN r.inst
      <4>1. machine' = OnBuildFinished(r, n, a.gen, outcome)
        <5>1. StepApp(machine, n, ev) = OnBuildFinished(r, n, a.gen, outcome)
          BY <3>2, StepAppBuild
        <5> QED  BY <1>3, <5>1 DEF Step
      <4>2. ~Awaits(r, n, "building", a.gen)
        BY <1>1, <1>4, <3>2 DEF Awaits, Names
      <4> QED  BY <4>1, <4>2 DEF OnBuildFinished
    <3> QED  BY <3>1, <3>2
  <2> QED  BY <1>3, <2>1, <2>2, <2>3, StaleStep
<1>5. CASE current
  <2>1. n \in DOMAIN r.inst /\ Awaits(r, n, "building", a.gen) /\ n \in DOMAIN machine.inst
    BY <1>1, <1>5 DEF Names, Awaits
  <2>2. r.inst[n].pipe.sha = a.sha
    <3>1. Fits(r.inst[n], n, Work(r, attempts), r.gen, green[n])
      BY <1>1, <2>1 DEF Sound
    <3>2. a \in Work(r, attempts)
      BY DEF Work
    <3>3. Matches(a, r.inst[n].pipe)
      BY <3>1, <3>2 DEF Fits
    <3> QED  BY <1>3, <2>1, <3>3 DEF Awaits, Matches
  <2>3. machine' = OnBuildFinished(r, n, a.gen, outcome)
    <3>1. StepApp(machine, n, ev) = OnBuildFinished(r, n, a.gen, outcome)
      BY <2>1, StepAppBuild
    <3> QED  BY <1>3, <3>1 DEF Step
  <2>4. green' = [green EXCEPT ![n] = IF outcome = "green" THEN green[n] \cup {a.sha} ELSE green[n]]
    BY <1>5 DEF BuildFinished
  <2>5. /\ green' \in [Name -> SUBSET Sha]
        /\ \A m \in Name : green[m] \subseteq green'[m]
        /\ outcome = "green" => a.sha \in green'[n]
    BY <1>2, <2>4 DEF MachineInv
  <2>6. unjudged' = [unjudged EXCEPT ![n] =
          IF outcome \in {"green", "red"} \/ Reds(n) # {} THEN 0 ELSE unjudged[n] + 1]
    BY <1>5 DEF BuildFinished
  <2> HIDE DEF r, ev
  <2>7. Sound(r, attempts, green')
    <3>1. DOMAIN r.inst \in SUBSET Name
      BY <1>1 DEF Sound, Shape
    <3> QED  BY <1>1, <2>5, <3>1, Narrowed DEF Work
  <2>8. Sound(machine', attempts, green') /\ Judgement(r, machine', n, outcome) /\ ~Stalled(machine')
    BY <2>1, <2>2, <2>3, <2>5, <2>7, OnBuildFinishedJudges
  <2>9. Judgement(machine, machine', n, outcome)
    BY <1>1, <2>8 DEF Judgement
  <2>10. Sound(machine', attempts', green')
    BY <1>3, <2>8, StepSound
  <2>11. unjudged' \in [Name -> Nat]
    BY <1>2, <2>6 DEF MachineInv
  <2>12. Converged(unjudged, machine)
    BY ConvergedIs DEF MachineInv
  <2>13. Reported(machine', n) => Reds(n) # {}
    BY DEF Reported, Reds
  <2>14. unjudged'[n] <= Weight(machine'.inst[n])
    <3>1. Weight(machine'.inst[n]) \in Nat /\ n \in DOMAIN machine'.inst
      <4>1. n \in DOMAIN machine'.inst
        BY <2>1, <2>9 DEF Judgement
      <4>2. machine'.inst[n] \in Instance
        BY <2>8, <4>1 DEF Sound, Fits
      <4> QED  BY <4>1, <4>2, WeightType
    <3>2. Weight(machine.inst[n]) \in Nat
      <4>1. machine.inst[n] \in Instance
        BY <1>1, <2>1 DEF Sound, Fits
      <4> QED  BY <4>1, WeightType
    <3>3. CASE outcome \in {"green", "red"} \/ Reds(n) # {}
      <4>1. unjudged'[n] = 0
        BY <1>2, <2>6, <3>3 DEF MachineInv
      <4> QED  BY <3>1, <4>1
    <3>4. CASE ~(outcome \in {"green", "red"} \/ Reds(n) # {})
      <4>1. unjudged'[n] = unjudged[n] + 1 /\ unjudged[n] \in Nat
        BY <1>2, <2>6, <3>4 DEF MachineInv
      <4>2. Weight(machine.inst[n]) + 1 <= Weight(machine'.inst[n])
        BY <2>9, <2>13, <3>4 DEF Judgement
      <4>3. unjudged[n] <= Weight(machine.inst[n])
        BY <1>2, <2>1, <2>12 DEF Converged
      <4> QED  BY <3>1, <3>2, <4>1, <4>2, <4>3
    <3> QED  BY <3>3, <3>4
  <2>15. ASSUME NEW m \in Name
         PROVE  unjudged'[m] <= IF m \notin DOMAIN machine'.inst THEN 0 ELSE Weight(machine'.inst[m])
    <3>1. DOMAIN machine'.inst = DOMAIN machine.inst
      BY <2>9 DEF Judgement
    <3>2. CASE m = n
      BY <2>1, <2>14, <3>1, <3>2
    <3>3. CASE m # n
      <4>1. unjudged'[m] = unjudged[m]
        BY <2>6, <3>3 DEF MachineInv
      <4>2. m \in DOMAIN machine.inst => Weight(machine'.inst[m]) = Weight(machine.inst[m])
        BY <2>9, <3>3 DEF Judgement
      <4>3. unjudged[m] <= IF m \notin DOMAIN machine.inst THEN 0 ELSE Weight(machine.inst[m])
        BY <2>12 DEF Converged
      <4> QED  BY <3>1, <4>1, <4>2, <4>3
    <3> QED  BY <3>2, <3>3
  <2>16. BuildsConverge'
    <3>1. Converged(unjudged', machine')
      BY <2>15 DEF Converged
    <3> QED  BY <3>1 DEF BuildsConverge, Converged, Weight, Names
  <2>17. Earned
    BY <2>9 DEF Earned, Judgement, Names
  <2> QED  BY <2>5, <2>8, <2>10, <2>11, <2>16, <2>17 DEF MachineInv
<1> QED  BY <1>4, <1>5

LEMMA ProbedStep ==
  ASSUME MachineInv, NEW a \in attempts, NEW type \in {"ProbeSucceeded", "ProbeFailed"},
         Probed(a, type)
  PROVE  MachineInv' /\ Earned /\ (Stalled(machine') => Stalled(machine))
<1> DEFINE n == a.name
           r == Reset(machine)
           ev == [type |-> type, gen |-> a.gen]
<1>1. Sound(r, attempts, green) /\ r.inst = machine.inst /\ Ordered(r) = {} /\ r.gen = machine.gen
      /\ Sound(machine, attempts, green)
  BY ResetFacts DEF MachineInv
<1>2. /\ n \in Name /\ a.sha \in Sha /\ a.gen \in Nat /\ a.gen < r.gen
      /\ a = [kind |-> a.kind, name |-> a.name, sha |-> a.sha, gen |-> a.gen]
  BY <1>1, AttemptFacts
<1>3. Step(n, ev, {a}) /\ a.kind = "probe" /\ green' = green /\ unjudged' = unjudged
  BY DEF Probed
<1>4. CASE n \notin DOMAIN r.inst
  <2>1. machine' = r
    <3>1. StepApp(machine, n, ev) = r
      BY <1>4, StepAppIs, ZenonT(60)
    <3> QED  BY <1>3, <3>1 DEF Step
  <2> QED  BY <1>3, <2>1, StaleStep
<1>5. CASE n \in DOMAIN r.inst /\ type = "ProbeFailed"
  <2>1. machine' = OnProbeFailed(r, n, a.gen)
    <3>1. StepApp(machine, n, [type |-> "ProbeFailed", gen |-> a.gen]) = OnProbeFailed(r, n, a.gen)
      BY <1>5, StepAppIs
    <3> QED  BY <1>3, <1>5, <3>1 DEF Step
  <2> HIDE DEF r, ev
  <2>2. Sound(machine', attempts, green) /\ Steady(r, machine')
    BY <1>1, <1>5, <2>1, OnProbeFailedSteady
  <2>3. Steady(machine, machine')
    BY <1>1, <2>2, FromReset DEF r
  <2> QED  BY <1>3, <2>2, <2>3, SteadyStep DEF MachineInv
<1>6. CASE n \in DOMAIN r.inst /\ type = "ProbeSucceeded" /\ ~Awaits(r, n, "probing", a.gen)
  <2>1. machine' = OnProbeSucceeded(r, n, a.gen)
    <3>1. StepApp(machine, n, [type |-> "ProbeSucceeded", gen |-> a.gen]) = OnProbeSucceeded(r, n, a.gen)
      BY <1>6, StepAppIs
    <3> QED  BY <1>3, <1>6, <3>1 DEF Step
  <2>2. machine' = r
    BY <1>6, <2>1 DEF OnProbeSucceeded
  <2> QED  BY <1>3, <2>2, StaleStep
<1>7. CASE n \in DOMAIN r.inst /\ type = "ProbeSucceeded" /\ Awaits(r, n, "probing", a.gen)
  <2>1. machine' = OnProbeSucceeded(r, n, a.gen)
    <3>1. StepApp(machine, n, [type |-> "ProbeSucceeded", gen |-> a.gen]) = OnProbeSucceeded(r, n, a.gen)
      BY <1>7, StepAppIs
    <3> QED  BY <1>3, <1>7, <3>1 DEF Step
  <2> DEFINE p == r.inst[n].pipe
  <2>2. p.sha = a.sha /\ p.gen = a.gen /\ a.sha \in green[n]
    <3>1. Fits(r.inst[n], n, Work(r, attempts), r.gen, green[n])
      BY <1>1, <1>7 DEF Sound
    <3>2. a \in Work(r, attempts)
      BY DEF Work
    <3>3. Matches(a, p)
      BY <3>1, <3>2 DEF Fits
    <3>4. p.sha = a.sha /\ p.gen = a.gen
      BY <1>3, <1>7, <3>3 DEF Awaits, Matches
    <3> QED  BY <1>7, <3>1, <3>4 DEF Awaits, Fits
  <2> HIDE DEF r, ev
  <2>3. Sound(machine', attempts, green) /\ Promotion(r, machine', n) /\ ~Stalled(machine')
    BY <1>1, <1>7, <2>1, OnProbeSucceededPromotes
  <2>4. Sound(machine', attempts', green')
    BY <1>3, <2>3, StepSound
  <2>5. a \notin attempts'
    <3>1. attempts' = (attempts \ {a}) \cup Ordered(machine')
      BY <1>3 DEF Step
    <3>2. a \notin Ordered(machine')
      <4>1. r.gen \in Nat
        BY <1>1, SoundFields
      <4>2. \A x \in Ordered(machine') : r.gen <= x.gen
        BY <1>1, <2>3 DEF Promotion
      <4> QED  BY <1>2, <4>1, <4>2
    <3> QED  BY <3>1, <3>2
  <2>6. BuildsConverge'
    <3>1. Converged(unjudged, machine)
      BY ConvergedIs DEF MachineInv
    <3>2. Converged(unjudged', machine')
      BY <1>1, <1>3, <2>3, <3>1 DEF Converged, Promotion
    <3> QED  BY <3>2 DEF BuildsConverge, Converged, Weight, Names
  <2>7. Earned
    <3> SUFFICES ASSUME NEW m \in Names \cap DOMAIN machine'.inst,
                        machine'.inst[m].serving \notin {machine.inst[m].serving, None}
                 PROVE  LET old == machine.inst[m].serving
                            now == machine'.inst[m].serving
                        IN /\ now.sha \in green[m] /\ machine'.inst[m].lastGreen = now.sha
                           /\ [kind |-> "probe", name |-> m, sha |-> now.sha, gen |-> now.gen]
                                \in attempts \ attempts'
                           /\ old # None => old.gen \in machine'.inst[m].draining
      BY DEF Earned
    <3>1. m = n
      BY <1>1, <2>3 DEF Promotion, Names
    <3> DEFINE now == machine'.inst[n].serving
    <3>2. now.sha = a.sha /\ now.gen = a.gen /\ machine'.inst[n].lastGreen = a.sha
      BY <2>2, <2>3 DEF Promotion
    <3>3. machine.inst[n].serving # None => machine.inst[n].serving.gen \in machine'.inst[n].draining
      BY <1>1, <2>3 DEF Promotion
    <3>4. [kind |-> "probe", name |-> n, sha |-> now.sha, gen |-> now.gen] = a
      BY <1>2, <1>3, <3>2
    <3> QED  BY <2>2, <2>5, <3>1, <3>2, <3>3, <3>4
  <2> QED  BY <1>3, <2>3, <2>4, <2>6, <2>7 DEF MachineInv
<1> QED  BY <1>4, <1>5, <1>6, <1>7

LEMMA AddStep ==
  ASSUME MachineInv, NEW n \in Name, Add(n)
  PROVE  MachineInv' /\ Earned /\ (Stalled(machine') => Stalled(machine))
<1>1. /\ n \notin DOMAIN machine.inst /\ machine' = AddInstance(machine, n) /\ attempts' = attempts
      /\ green' = green /\ unjudged' = unjudged
  BY DEF Add, Names, history
<1>2. /\ Sound(machine', attempts, green) /\ (Stalled(machine') => Stalled(machine))
      /\ DOMAIN machine'.inst = DOMAIN machine.inst \cup {n} /\ machine'.inst[n] = NewInstance
      /\ \A m \in DOMAIN machine.inst : machine'.inst[m] = machine.inst[m]
  BY <1>1, AddSound DEF MachineInv
<1>3. Converged(unjudged, machine)
  BY ConvergedIs DEF MachineInv
<1>4. Converged(unjudged', machine')
  BY <1>1, <1>2, <1>3, NewInstanceFacts DEF Converged
<1>5. BuildsConverge'
  BY <1>4 DEF BuildsConverge, Converged, Weight, Names
<1>6. Earned
  BY <1>2 DEF Earned, Names
<1> QED  BY <1>1, <1>2, <1>5, <1>6 DEF MachineInv

LEMMA RemoveStep ==
  ASSUME MachineInv, NEW n \in Name, Remove(n)
  PROVE  MachineInv' /\ Earned
<1>1. /\ machine' = RemoveInstance(machine, n) /\ attempts' = attempts
      /\ green' = [green EXCEPT ![n] = {}] /\ unjudged' = [unjudged EXCEPT ![n] = 0]
  BY DEF Remove, Forget
<1>2. /\ green' \in [Name -> SUBSET Sha] /\ unjudged' \in [Name -> Nat]
      /\ \A m \in Name : m # n => green'[m] = green[m] /\ unjudged'[m] = unjudged[m]
      /\ unjudged'[n] = 0
  BY <1>1 DEF MachineInv
<1>3. DOMAIN machine.inst \in SUBSET Name
  BY DEF MachineInv, Sound, Shape
<1>4. /\ Sound(machine', attempts, green')
      /\ DOMAIN machine'.inst = DOMAIN machine.inst \ {n}
      /\ \A m \in DOMAIN machine'.inst : machine'.inst[m] = machine.inst[m]
  <2>1. \A m \in DOMAIN machine.inst : m # n => green'[m] = green[m]
    BY <1>2, <1>3
  <2>2. Sound(machine, attempts, green)
    BY DEF MachineInv
  <2> DEFINE t == RemoveInstance(machine, n)
  <2>3. /\ Sound(t, attempts, green')
        /\ DOMAIN t.inst = DOMAIN machine.inst \ {n}
        /\ \A m \in DOMAIN t.inst : t.inst[m] = machine.inst[m]
    BY <2>1, <2>2, RemoveSound
  <2> QED  BY <1>1, <2>3
<1>5. Converged(unjudged, machine)
  BY ConvergedIs DEF MachineInv
<1>6. Converged(unjudged', machine')
  BY <1>2, <1>4, <1>5 DEF Converged
<1>7. BuildsConverge'
  BY <1>6 DEF BuildsConverge, Converged, Weight, Names
<1>8. Earned
  BY <1>4 DEF Earned, Names
<1> QED  BY <1>1, <1>2, <1>4, <1>7, <1>8 DEF MachineInv

LEMMA NextStep ==
  ASSUME MachineInv, MNext
  PROVE  /\ MachineInv' /\ Earned
         /\ Stalled(machine') => Stalled(machine) \/ \E n \in Name : Remove(n)
<1>1. ASSUME NEW n \in Name, Add(n) \/ Remove(n)
      PROVE  /\ MachineInv' /\ Earned
             /\ Stalled(machine') => Stalled(machine) \/ \E m \in Name : Remove(m)
  BY <1>1, AddStep, RemoveStep
<1>2. ASSUME NEW n \in Name, NEW sha \in Sha, HeadAdvanced(n, sha) \/ Recover(n, sha)
      PROVE  MachineInv' /\ Earned /\ (Stalled(machine') => Stalled(machine))
  BY <1>2, HeadStep, RecoverStep
<1>3. ASSUME NEW a \in attempts, NEW outcome \in BuildOutcome, BuildFinished(a, outcome)
      PROVE  MachineInv' /\ Earned /\ (Stalled(machine') => Stalled(machine))
  BY <1>3, BuildFinishedStep
<1>4. ASSUME NEW a \in attempts, NEW type \in {"ProbeSucceeded", "ProbeFailed"}, Probed(a, type)
      PROVE  MachineInv' /\ Earned /\ (Stalled(machine') => Stalled(machine))
  BY <1>4, ProbedStep
<1>5. ASSUME NEW n \in Names, NEW g \in Children(n), ServingExited(n, g)
      PROVE  MachineInv' /\ Earned /\ (Stalled(machine') => Stalled(machine))
  BY <1>5, ServingExitedStep
<1>6. ASSUME NEW n \in Names, NEW g \in machine.inst[n].draining, DrainComplete(n, g)
      PROVE  MachineInv' /\ Earned /\ (Stalled(machine') => Stalled(machine))
  BY <1>6, DrainCompleteStep
<1> QED  BY <1>1, <1>2, <1>3, <1>4, <1>5, <1>6 DEF MNext

LEMMA StutterStep ==
  ASSUME MachineInv, UNCHANGED mvars
  PROVE  MachineInv'
BY DEF MachineInv, mvars, history, Sound, Shape, QueueOK, SlotsOK, BuildsConverge, Names

LEMMA AlwaysIInv == MSpec => []MachineInv
<1>1. MachineInv /\ [MNext]_mvars => MachineInv'
  BY NextStep, StutterStep
<1> QED  BY <1>1, InitIInv, PTL DEF MSpec

-----------------------------------------------------------------------------
(* The theorems.                                                           *)

\* The state has its type.
THEOREM AppTypes == MSpec => []MTypeOK
<1>1. MachineInv => MTypeOK
  <2> SUFFICES ASSUME MachineInv PROVE MTypeOK
    OBVIOUS
  <2>1. Shape(machine) /\ \A a \in Work(machine, attempts) : a \in Attempt
    BY DEF MachineInv, Sound
  <2>2. \A n \in Names : n \in Name /\ machine.inst[n] \in Instance
    BY DEF MachineInv, Sound, Shape, Fits, Names
  <2> QED  BY <2>1, <2>2 DEF MTypeOK, MachineInv, Shape, Work
<1> QED  BY <1>1, AlwaysIInv, PTL

(* The unreachable! and the expect of dispatch are never reached: who      *)
(* waits exists, is queued and waits once.  A held slot is that of a       *)
(* building instance, and no more are held than there are.                 *)
THEOREM DispatchNeverPanics == MSpec => [](QueueOK(machine) /\ SlotsOK(machine))
<1>1. MachineInv => QueueOK(machine) /\ SlotsOK(machine)
  BY DEF MachineInv, Sound
<1> QED  BY <1>1, AlwaysIInv, PTL

(* However many instances and commits there are, and whatever is removed   *)
(* and added between, the two streaks of on_build_finished account for all *)
(* builds since the last verdict, so that a hot branch converges.          *)
THEOREM BranchConverges == MSpec => []BuildsConverge
<1>1. MachineInv => BuildsConverge
  BY DEF MachineInv
<1> QED  BY <1>1, AlwaysIInv, PTL

(* A child starts to serve only by its own health probe, of a commit that  *)
(* built green or came from disk; the child it replaces drains             *)
(* (on_probe_succeeded).                                                   *)
THEOREM EveryPromotionIsEarned == MSpec => PromotionIsEarned
<1>1. MachineInv /\ [MNext]_mvars => [Earned]_mvars
  BY NextStep
<1>2. MachineInv /\ [MNext]_mvars =>
        [\A n \in Names \cap DOMAIN machine'.inst :
           LET old == machine.inst[n].serving
               now == machine'.inst[n].serving
           IN now \notin {old, None} =>
                /\ now.sha \in green[n] /\ machine'.inst[n].lastGreen = now.sha
                /\ [kind |-> "probe", name |-> n, sha |-> now.sha, gen |-> now.gen] \in attempts \ attempts'
                /\ old # None => old.gen \in machine'.inst[n].draining]_mvars
  BY <1>1 DEF Earned
<1> QED  BY <1>2, AlwaysIInv, PTL DEF MSpec, PromotionIsEarned

(* Every event that frees a build slot or makes an instance wait ends in   *)
(* dispatch_builds, or leaves slots and queue as they are; only the removal*)
(* of an instance frees a slot without a dispatch (remove_instance).       *)
THEOREM NoSlotIsWasted == MSpec => SlotsAreUsed
<1>1. MachineInv /\ [MNext]_mvars =>
        [Stalled(machine') => Stalled(machine) \/ \E n \in Name : Remove(n)]_mvars
  BY NextStep
<1> QED  BY <1>1, AlwaysIInv, PTL DEF MSpec, SlotsAreUsed

-----------------------------------------------------------------------------
(* The newest head. Of an instance i: h is its newest head, R are its      *)
(* reds, f says that the head came back to the commit in hand.             *)

\* Who serves is the last green; what is refused as red was reported; a
\* respawn is of the last green, and nobody serves meanwhile.
Aware(i, R) ==
  /\ i.serving # None => i.lastGreen = i.serving.sha
  /\ i.lastRed \in R \cup {None}
  /\ i.pipe.at = "probing" /\ i.pipe.respawn = TRUE =>
       i.serving = None /\ i.pipe.sha = i.lastGreen

Excused(h, R, f) == f \/ h \in R \cup {None}

\* What is pending, or else in hand, or else served is h.
HeadsFor(i, h) ==
  IF i.pending # None THEN h = i.pending
  ELSE IF i.pipe.at = "idle" THEN Serves(i, h) ELSE h = i.pipe.sha

\* Between the operators of a step an idle instance may still have to settle.
Unsettled(i, h, R, f) ==
  /\ Aware(i, R)
  /\ \/ Excused(h, R, f) \/ HeadsFor(i, h)
     \/ i.pending = None /\ OwesRespawn(i) /\ h = i.lastGreen

Pursues(i, h, R, f) ==
  /\ Aware(i, R)
  /\ Excused(h, R, f) \/ HeadsFor(i, h)
  /\ i.pipe.at \in {"idle", "queued"} => i.pending = None

LEMMA PursuesGrows ==
  ASSUME NEW i, NEW h, NEW R, NEW f, Pursues(i, h, R, f), NEW R1, R \subseteq R1
  PROVE  Pursues(i, h, R1, f)
BY DEF Pursues, Aware, Excused

LEMMA UnsettledGrows ==
  ASSUME NEW i, NEW h, NEW R, NEW f, Unsettled(i, h, R, f), NEW R1, R \subseteq R1
  PROVE  Unsettled(i, h, R1, f)
BY DEF Unsettled, Aware, Excused

LEMMA InstanceTypes ==
  ASSUME NEW i \in Instance
  PROVE  /\ i.serving \in Child \cup {None} /\ i.pipe \in Pipeline
         /\ i.pending \in Sha \cup {None} /\ i.lastRed \in Sha \cup {None}
         /\ i.lastGreen \in Sha \cup {None} /\ i.needsRespawn \in BOOLEAN
         /\ i.serving # None => i.serving.sha \in Sha
         /\ i.pipe.at \in {"idle", "queued", "building", "probing"}
         /\ i.pipe.at = "idle" <=> i.pipe = Idle
         /\ i.pipe.at # "idle" => i.pipe.sha \in Sha
BY PipeFacts DEF Instance, Child

-----------------------------------------------------------------------------
(* The operators, on the record of their instance.                         *)

\* What the settling of n leaves alone, and the reds it may add.
Only(s, t, n) ==
  /\ DOMAIN t.inst = DOMAIN s.inst
  /\ \A m \in DOMAIN s.inst : m # n => t.inst[m] = s.inst[m]

RedsIn(s, n) == {o.sha : o \in {x \in Orders(s) : x.act = "RecordRed" /\ x.name = n}}

LEMMA RedsKept ==
  ASSUME NEW s, NEW t, Orders(s) \subseteq Orders(t), NEW n
  PROVE  RedsIn(s, n) \subseteq RedsIn(t, n)
BY DEF RedsIn

\* A record but for its pipeline.
IsPiped(j, i, p) ==
  /\ j.serving = i.serving /\ j.pending = i.pending /\ j.lastRed = i.lastRed
  /\ j.lastGreen = i.lastGreen /\ j.needsRespawn = i.needsRespawn
  /\ j.pipe = p

LEMMA Piped ==
  ASSUME NEW i \in Instance, NEW p
  PROVE  IsPiped([i EXCEPT !.pipe = p], i, p)
BY DEF Instance, IsPiped

LEMMA RequestBuildIs ==
  ASSUME NEW s, NEW A, NEW G, Sound(s, A, G), NEW n \in DOMAIN s.inst, NEW sha \in Sha,
         s.inst[n].pipe = Idle
  PROVE  LET t == RequestBuild(s, n, sha)
             i == s.inst[n]
         IN /\ Only(s, t, n)
            /\ IF Serves(i, sha) \/ i.lastRed = sha THEN t.inst[n] = i
               ELSE IsPiped(t.inst[n], i, Queued(sha))
<1> DEFINE i == s.inst[n]
           t == RequestBuild(s, n, sha)
           j == [i EXCEPT !.pipe = Queued(sha)]
           u == Put(s, n, j)
<1>1. CASE Serves(i, sha) \/ i.lastRed = sha
  <2>1. t = s
    BY <1>1 DEF RequestBuild
  <2> QED  BY <1>1, <2>1 DEF Only
<1>2. CASE ~(Serves(i, sha) \/ i.lastRed = sha)
  <2>1. t = [u EXCEPT !.queue = Append(@, n)]
    BY <1>2 DEF RequestBuild, SetPipe, Put
  <2>2. IsPiped(j, i, Queued(sha))
    BY InstanceFacts, Piped
  <2> HIDE DEF j
  <2>3. IsPut(u, s, n, j)
    BY PutFields
  <2>4. t.inst = u.inst
    <3>1. u = [inst |-> u.inst, queue |-> u.queue, building |-> u.building, gen |-> u.gen,
               out |-> u.out]
      BY <2>3 DEF IsPut
    <3> HIDE DEF u, t
    <3> QED  BY <2>1, <3>1
  <2> HIDE DEF u, t
  <2>5. Only(s, t, n) /\ t.inst[n] = j
    BY <2>3, <2>4 DEF IsPut, Only
  <2> QED  BY <1>2, <2>2, <2>5 DEF t
<1> QED  BY <1>1, <1>2

LEMMA TryRespawnIs ==
  ASSUME NEW s, NEW A, NEW G, Sound(s, A, G), NEW n \in DOMAIN s.inst
  PROVE  LET t == TryRespawn(s, n)
             i == s.inst[n]
             j == t.inst[n]
         IN /\ Only(s, t, n)
            /\ IF ~OwesRespawn(i) THEN j = i
               ELSE /\ j.serving = None /\ j.pending = i.pending /\ j.lastRed = i.lastRed
                    /\ j.lastGreen = i.lastGreen /\ j.needsRespawn = FALSE
                    /\ j.pipe = Probing(i.lastGreen, s.gen, TRUE)
<1> DEFINE i == s.inst[n]
           p == Probing(i.lastGreen, s.gen, TRUE)
           j == [i EXCEPT !.needsRespawn = FALSE, !.pipe = p]
           u == Put(s, n, j)
           g == s.gen + 1
           v == [u EXCEPT !.gen = g]
           o == [act |-> "Respawn", name |-> n, sha |-> i.lastGreen, gen |-> s.gen]
           t == TryRespawn(s, n)
<1>1. CASE ~OwesRespawn(i)
  <2>1. t = s
    BY <1>1 DEF TryRespawn
  <2> QED  BY <1>1, <2>1 DEF Only
<1>2. CASE OwesRespawn(i)
  <2>1. s = [inst |-> s.inst, queue |-> s.queue, building |-> s.building,
             gen |-> s.gen, out |-> s.out]
    BY SoundFields
  <2>2. [s EXCEPT !.inst[n] = j, !.gen = @ + 1] = v
    BY <2>1 DEF Put
  <2>3. t = Emit(v, o)
    BY <1>2, <2>2 DEF TryRespawn
  <2>4. i \in Instance
    BY InstanceFacts
  <2>5. /\ j.serving = i.serving /\ j.pending = i.pending /\ j.lastRed = i.lastRed
        /\ j.lastGreen = i.lastGreen /\ j.needsRespawn = FALSE /\ j.pipe = p
    <3> HIDE DEF p
    <3> QED  BY <2>4 DEF Instance
  <2> HIDE DEF j, p, o, g
  <2>6. IsPut(u, s, n, j)
    BY PutFields
  <2>7. t.inst = u.inst
    <3>1. u = [inst |-> u.inst, queue |-> u.queue, building |-> u.building, gen |-> u.gen,
               out |-> u.out]
      BY <2>6 DEF IsPut
    <3> HIDE DEF u
    <3>2. v = [inst |-> u.inst, queue |-> u.queue, building |-> u.building, gen |-> g,
               out |-> u.out]
      BY <3>1
    <3> HIDE DEF v, t
    <3>3. t = [v EXCEPT !.out = Append(v.out, o)]
      BY <2>3 DEF Emit
    <3> QED  BY <3>2, <3>3
  <2> HIDE DEF u, t
  <2>8. Only(s, t, n) /\ t.inst[n] = j
    BY <2>6, <2>7 DEF IsPut, Only
  <2>9. i.serving = None
    BY <1>2 DEF OwesRespawn
  <2> QED  BY <1>2, <2>5, <2>8, <2>9 DEF t, p
<1> QED  BY <1>1, <1>2

-----------------------------------------------------------------------------
(* Settling.                                                               *)

\* A respawn settles what was owed.
LEMMA TryRespawnPursues ==
  ASSUME NEW s, NEW A, NEW G, Sound(s, A, G), NEW n \in DOMAIN s.inst,
         NEW h, NEW R, NEW f, Unsettled(s.inst[n], h, R, f), s.inst[n].pipe = Idle
  PROVE  LET t == TryRespawn(s, n)
             j == t.inst[n]
         IN /\ Only(s, t, n) /\ Aware(j, R)
            /\ Excused(h, R, f) \/ HeadsFor(j, h)
            /\ IF OwesRespawn(s.inst[n]) THEN j.pipe.at = "probing" ELSE j = s.inst[n]
<1> DEFINE t == TryRespawn(s, n)
           i == s.inst[n]
           j == t.inst[n]
           p == Probing(i.lastGreen, s.gen, TRUE)
<1>1. i \in Instance
  BY InstanceFacts
<1>2. i.pipe.at = "idle"
  BY DEF Idle
<1>3. /\ Only(s, t, n)
      /\ IF ~OwesRespawn(i) THEN j = i
         ELSE /\ j.serving = None /\ j.pending = i.pending /\ j.lastRed = i.lastRed
              /\ j.lastGreen = i.lastGreen /\ j.needsRespawn = FALSE
              /\ j.pipe = p
  BY TryRespawnIs
<1>4. p.at = "probing" /\ p.sha = i.lastGreen /\ p.respawn = TRUE
  BY DEF Probing
<1> HIDE DEF t, i, p
<1>5. Unsettled(i, h, R, f)
  BY DEF i
<1>6. CASE ~OwesRespawn(i)
  BY <1>2, <1>3, <1>5, <1>6 DEF Unsettled, t, i
<1>7. CASE OwesRespawn(i)
  <2>1. i.serving = None
    BY <1>7 DEF OwesRespawn
  <2>2. Aware(j, R)
    BY <1>3, <1>4, <1>5, <1>7 DEF Unsettled, Aware
  <2>3. Excused(h, R, f) \/ HeadsFor(j, h)
    BY <1>2, <1>3, <1>4, <1>5, <1>7, <2>1 DEF Unsettled, HeadsFor, Serves
  <2> QED  BY <1>3, <1>4, <1>7, <2>2, <2>3 DEF t, i
<1> QED  BY <1>6, <1>7

\* A build of sha is requested in place of what is pending.
LEMMA RequestPursues ==
  ASSUME NEW s, NEW A, NEW G, Sound(s, A, G), NEW n \in DOMAIN s.inst, NEW sha \in Sha,
         s.inst[n].pipe = Idle,
         NEW h, NEW R, NEW f, Aware(s.inst[n], R), Excused(h, R, f) \/ h = sha
  PROVE  LET t == RequestBuild([s EXCEPT !.inst[n].pending = None], n, sha)
         IN Only(s, t, n) /\ Pursues(t.inst[n], h, R, f)
<1> DEFINE i == s.inst[n]
           j == [i EXCEPT !.pending = None]
           u == Put(s, n, j)
           t == RequestBuild(u, n, sha)
           k == t.inst[n]
<1>1. [s EXCEPT !.inst[n].pending = None] = u
  BY DEF Put
<1>2. i \in Instance /\ Fits(i, n, Work(s, A), s.gen, G[n]) /\ i.pipe.at = "idle"
  BY InstanceFacts DEF Idle
<1>3. /\ j \in Instance /\ j.pipe = i.pipe /\ j.lastGreen = i.lastGreen /\ j.pending = None
      /\ j.serving = i.serving /\ j.lastRed = i.lastRed
  BY <1>2 DEF Instance
<1> HIDE DEF j
<1>4. Fits(j, n, Work(s, A), s.gen, G[n]) /\ n \notin s.building
  BY <1>2, <1>3, CalmFits, OutOfSlot
<1>5. Sound(u, A, G)
  BY <1>2, <1>3, <1>4, PutSound
<1>6. IsPut(u, s, n, j)
  BY PutFields
<1> HIDE DEF u
<1>7. n \in DOMAIN u.inst /\ u.inst[n] = j /\ Only(s, u, n)
  BY <1>6 DEF IsPut, Only
<1>8. j.pipe = Idle
  BY <1>3
<1>9. /\ Only(u, t, n)
      /\ IF Serves(j, sha) \/ j.lastRed = sha THEN k = j ELSE IsPiped(k, j, Queued(sha))
  BY <1>5, <1>7, <1>8, RequestBuildIs
<1>10. Aware(j, R)
  BY <1>2, <1>3 DEF Aware
<1>11. Queued(sha).at = "queued" /\ Queued(sha).sha = sha
  BY RestTypes
<1> HIDE DEF t
<1>12. CASE Serves(j, sha) \/ j.lastRed = sha
  <2>1. k = j
    BY <1>9, <1>12
  <2>2. j.lastRed = sha => sha \in R
    BY <1>10, NoneAssumption DEF Aware
  <2>3. Excused(h, R, f) \/ HeadsFor(j, h)
    BY <1>2, <1>3, <1>12, <2>2 DEF Excused, HeadsFor
  <2> QED  BY <1>1, <1>3, <1>7, <1>9, <1>10, <2>1, <2>3 DEF Pursues, Only, t
<1>13. CASE ~(Serves(j, sha) \/ j.lastRed = sha)
  <2>1. IsPiped(k, j, Queued(sha))
    BY <1>9, <1>13
  <2>2. k.pipe.at = "queued" /\ k.pipe.sha = sha /\ k.pending = None
    BY <1>3, <1>11, <2>1 DEF IsPiped
  <2>3. Aware(k, R)
    BY <1>10, <2>1, <2>2 DEF Aware, IsPiped
  <2>4. Excused(h, R, f) \/ HeadsFor(k, h)
    BY <2>2 DEF HeadsFor
  <2> QED  BY <1>1, <1>7, <1>9, <2>2, <2>3, <2>4 DEF Pursues, Only, t
<1> QED  BY <1>12, <1>13

LEMMA SettleIdlePursues ==
  ASSUME NEW s, NEW A, NEW G, Sound(s, A, G), NEW n \in DOMAIN s.inst,
         NEW h, NEW R, NEW f, Unsettled(s.inst[n], h, R, f), s.inst[n].pipe = Idle
  PROVE  LET t == SettleIdle(s, n)
         IN Only(s, t, n) /\ Pursues(t.inst[n], h, R, f)
<1> DEFINE t == TryRespawn(s, n)
           i == t.inst[n]
           u == RequestBuild([t EXCEPT !.inst[n].pending = None], n, i.pending)
<1>1. SettleIdle(s, n) = IF i.pipe = Idle /\ i.pending # None THEN u ELSE t
  BY DEF SettleIdle
<1>2. Sound(t, A, G)
  BY TryRespawnKeeps
<1>3. /\ Only(s, t, n) /\ Aware(i, R)
      /\ Excused(h, R, f) \/ HeadsFor(i, h)
      /\ IF OwesRespawn(s.inst[n]) THEN i.pipe.at = "probing" ELSE i = s.inst[n]
  BY TryRespawnPursues
<1> HIDE DEF t
<1>4. n \in DOMAIN t.inst
  BY <1>3 DEF Only
<1>5. i \in Instance
  BY <1>2, <1>4, InstanceFacts
<1>6. CASE i.pipe = Idle /\ i.pending # None
  <2>1. i.pending \in Sha
    BY <1>5, <1>6, InstanceTypes
  <2>2. Excused(h, R, f) \/ h = i.pending
    BY <1>3, <1>6 DEF HeadsFor
  <2>3. Only(t, u, n) /\ Pursues(u.inst[n], h, R, f)
    BY <1>2, <1>3, <1>4, <1>6, <2>1, <2>2, RequestPursues
  <2> HIDE DEF u
  <2>4. Only(s, u, n)
    BY <1>3, <2>3 DEF Only
  <2> QED  BY <1>1, <1>6, <2>3, <2>4
<1>7. CASE ~(i.pipe = Idle /\ i.pending # None)
  <2>1. i.pipe.at = "idle" => i.pending = None
    BY <1>5, <1>7, InstanceTypes
  <2>2. i.pipe.at \in {"idle", "probing"}
    BY <1>3 DEF Idle
  <2>3. Pursues(i, h, R, f)
    BY <1>3, <2>1, <2>2 DEF Pursues
  <2> QED  BY <1>1, <1>3, <1>7, <2>3
<1> QED  BY <1>6, <1>7

LEMMA RequeuePursues ==
  ASSUME NEW s, NEW A, NEW G, Sound(s, A, G), NEW n \in DOMAIN s.inst, NEW sha \in Sha,
         s.inst[n].pipe = Idle, NEW h, NEW R, NEW f, Aware(s.inst[n], R),
         Excused(h, R, f) \/ h = IF s.inst[n].pending = None THEN sha ELSE s.inst[n].pending
  PROVE  LET t == Requeue(s, n, sha)
         IN Only(s, t, n) /\ Pursues(t.inst[n], h, R, f)
<1> DEFINE next == IF s.inst[n].pending = None THEN sha ELSE s.inst[n].pending
           t == RequestBuild([s EXCEPT !.inst[n].pending = None], n, next)
<1>1. next \in Sha
  BY InstanceFacts
<1>2. Requeue(s, n, sha) = t
  BY DEF Requeue
<1>3. Excused(h, R, f) \/ h = next
  OBVIOUS
<1> HIDE DEF next
<1>4. Only(s, t, n) /\ Pursues(t.inst[n], h, R, f)
  BY <1>1, <1>3, RequestPursues
<1> QED  BY <1>2, <1>4

\* A red is recorded for what it refuses from now on.
LEMMA RecordRedPursues ==
  ASSUME NEW s, NEW A, NEW G, Sound(s, A, G), NEW n \in DOMAIN s.inst, NEW sha \in Sha,
         s.inst[n].pipe = Idle,
         NEW h, NEW R, NEW f, Unsettled(s.inst[n], h, R \cup {sha}, f)
  PROVE  LET t == SettleIdle(RecordRed(s, n, sha), n)
         IN /\ Only(s, t, n)
            /\ Pursues(t.inst[n], h, R \cup {sha}, f)
            /\ sha \in RedsIn(t, n)
<1> DEFINE i == s.inst[n]
           j == [i EXCEPT !.lastRed = sha]
           u == Put(s, n, j)
           o == [act |-> "RecordRed", name |-> n, sha |-> sha]
           v == RecordRed(s, n, sha)
           t == SettleIdle(v, n)
<1>1. v = Emit(u, o)
  BY DEF RecordRed, Put
<1>2. n \in Name /\ i \in Instance /\ Fits(i, n, Work(s, A), s.gen, G[n]) /\ i.pipe.at = "idle"
  BY InstanceFacts DEF Idle
<1>3. /\ j \in Instance /\ j.pipe = i.pipe /\ j.lastGreen = i.lastGreen /\ j.pending = i.pending
      /\ j.serving = i.serving /\ j.lastRed = sha /\ j.needsRespawn = i.needsRespawn
  BY <1>2 DEF Instance
<1> HIDE DEF j
<1>4. Fits(j, n, Work(s, A), s.gen, G[n]) /\ n \notin s.building
  BY <1>2, <1>3, CalmFits, OutOfSlot
<1>5. Sound(u, A, G)
  BY <1>2, <1>3, <1>4, PutSound
<1>6. IsPut(u, s, n, j)
  BY PutFields
<1>7. o \in Order /\ o.act = "RecordRed" /\ o.name = n /\ o.sha = sha
  BY <1>2 DEF Order
<1> HIDE DEF u, o
<1>8. Sound(v, A, G)
  BY RecordRedKeeps
<1> HIDE DEF v
<1>9. v.inst = u.inst /\ Orders(v) = Orders(u) \cup {o}
  BY <1>1, <1>5, <1>7, EmitFields, EmitOrders
<1>10. Only(s, v, n) /\ v.inst[n] = j /\ n \in DOMAIN v.inst
  BY <1>6, <1>9 DEF IsPut, Only
<1>11. sha \in RedsIn(v, n)
  BY <1>7, <1>9 DEF RedsIn
<1>12. Unsettled(j, h, R \cup {sha}, f)
  <2> DEFINE Q == R \cup {sha}
  <2>1. Aware(j, Q)
    BY <1>2, <1>3 DEF Unsettled, Aware
  <2>2. HeadsFor(i, h) => HeadsFor(j, h)
    BY <1>3 DEF HeadsFor, Serves
  <2>3. OwesRespawn(i) => OwesRespawn(j)
    BY <1>3 DEF OwesRespawn
  <2>4. Unsettled(i, h, Q, f)
    OBVIOUS
  <2> HIDE DEF Q
  <2>5. Unsettled(j, h, Q, f)
    BY <1>3, <2>1, <2>2, <2>3, <2>4 DEF Unsettled
  <2> QED  BY <2>5 DEF Q
<1>13. j.pipe = Idle
  BY <1>3
<1>14. Only(v, t, n) /\ Pursues(t.inst[n], h, R \cup {sha}, f)
  BY <1>8, <1>10, <1>12, <1>13, SettleIdlePursues
<1>15. Kept(v, t)
  BY <1>8, <1>10, SettleIdleKeeps
<1> HIDE DEF t
<1>16. sha \in RedsIn(t, n)
  BY <1>11, <1>15, RedsKept DEF Kept
<1>17. Only(s, t, n)
  BY <1>10, <1>14 DEF Only
<1> QED  BY <1>14, <1>16, <1>17 DEF t, v

-----------------------------------------------------------------------------
(* The handlers.                                                           *)

\* A queued instance may be launched.
Launches(i, j) ==
  \/ j = i
  \/ i.pipe.at = "queued" /\ \E g : IsPiped(j, i, Building(i.pipe.sha, g))

Elsewhere(s, t, n) ==
  /\ DOMAIN t.inst = DOMAIN s.inst
  /\ \A m \in DOMAIN s.inst : m # n => Launches(s.inst[m], t.inst[m])

LEMMA LaunchesPursues ==
  ASSUME NEW i, NEW j, NEW h, NEW R, NEW f, Pursues(i, h, R, f), Launches(i, j)
  PROVE  Pursues(j, h, R, f)
<1>1. CASE j = i
  BY <1>1
<1>2. CASE j # i
  <2>1. PICK g : IsPiped(j, i, Building(i.pipe.sha, g))
    BY <1>2 DEF Launches
  <2>2. i.pipe.at = "queued"
    BY <1>2 DEF Launches
  <2>3. j.pipe.at = "building" /\ j.pipe.sha = i.pipe.sha
    BY <2>1 DEF IsPiped, Building
  <2> QED  BY <2>1, <2>2, <2>3 DEF IsPiped, Pursues, Aware, HeadsFor
<1> QED  BY <1>1, <1>2

LEMMA OnlyElsewhere ==
  ASSUME NEW s, NEW t, NEW n, Only(s, t, n)
  PROVE  Elsewhere(s, t, n)
BY DEF Only, Elsewhere, Launches

\* What s0 became, dispatched.
LEMMA DispatchPursues ==
  ASSUME NEW s, NEW A, NEW G, Sound(s, A, G), NEW s0, NEW n \in DOMAIN s0.inst, Only(s0, s, n),
         NEW h, NEW R, NEW f, Pursues(s.inst[n], h, R \cup RedsIn(s, n), f)
  PROVE  LET t == Dispatch(s)
         IN Elsewhere(s0, t, n) /\ Pursues(t.inst[n], h, R \cup RedsIn(t, n), f)
<1> DEFINE t == Dispatch(s)
<1>1. t.inst = [m \in DOMAIN s.inst |-> IF Starts(s, m) THEN Launched(s, m) ELSE s.inst[m]]
  BY DispatchIs DEF IsDispatch
<1>2. Kept(s, t)
  BY DispatchKeeps
<1> HIDE DEF t
<1>3. ASSUME NEW m \in DOMAIN s.inst
      PROVE  Launches(s.inst[m], t.inst[m])
  <2>1. CASE ~Starts(s, m)
    BY <1>1, <2>1 DEF Launches
  <2>2. CASE Starts(s, m)
    <3> DEFINE p == Building(s.inst[m].pipe.sha, s.gen + Place(s, m) - 1)
    <3>1. t.inst[m] = [s.inst[m] EXCEPT !.pipe = p]
      BY <1>1, <2>2, LaunchedIs
    <3>2. s.inst[m].pipe.at = "queued"
      BY <2>2, StartingFacts
    <3>3. IsPiped(t.inst[m], s.inst[m], p)
      BY <3>1, InstanceFacts, Piped
    <3> QED  BY <3>2, <3>3 DEF Launches
  <2> QED  BY <2>1, <2>2
<1>4. n \in DOMAIN s.inst
  BY DEF Only
<1>5. Pursues(t.inst[n], h, R \cup RedsIn(s, n), f)
  BY <1>3, <1>4, LaunchesPursues
<1>6. R \cup RedsIn(s, n) \subseteq R \cup RedsIn(t, n)
  BY <1>2, RedsKept DEF Kept
<1>7. Pursues(t.inst[n], h, R \cup RedsIn(t, n), f)
  BY <1>5, <1>6, PursuesGrows
<1>8. Elsewhere(s0, t, n)
  BY <1>1, <1>3 DEF Elsewhere, Only
<1> QED  BY <1>7, <1>8 DEF t

\* The commit in hand, while another is pending.
ComesBack(i, sha) == /\ i.pipe.at \in {"building", "probing"} /\ i.pipe.sha = sha
                     /\ i.pending \notin {sha, None}

\* on_head: the head sha, unless it comes back.
LEMMA OnHeadPursues ==
  ASSUME NEW s, NEW A, NEW G, Sound(s, A, G), NEW n \in DOMAIN s.inst, NEW sha \in Sha,
         NEW h, NEW R, NEW f, Pursues(s.inst[n], h, R, f), NEW e,
         ComesBack(s.inst[n], sha) => e = TRUE
  PROVE  LET t == OnHead(s, n, sha)
         IN Elsewhere(s, t, n) /\ Pursues(t.inst[n], sha, R \cup RedsIn(t, n), e)
<1> DEFINE i == s.inst[n]
           t == OnHead(s, n, sha)
<1>1. i \in Instance /\ i.pipe.at \in {"idle", "queued", "building", "probing"} /\ Aware(i, R)
      /\ (i.pipe.at \in {"idle", "queued"} => i.pending = None)
  BY InstanceFacts, InstanceTypes DEF Pursues
<1>2. CASE i.pipe.at = "idle"
  <2> DEFINE u == RequestBuild(s, n, sha)
             j == u.inst[n]
  <2>1. t = Dispatch(u)
    BY <1>2 DEF OnHead
  <2>2. i.pipe = Idle
    BY <1>1, <1>2, InstanceTypes
  <2>3. /\ Only(s, u, n)
        /\ IF Serves(i, sha) \/ i.lastRed = sha THEN j = i ELSE IsPiped(j, i, Queued(sha))
    BY <2>2, RequestBuildIs
  <2>4. Sound(u, A, G)
    BY RequestBuildKeeps
  <2> HIDE DEF u
  <2>5. Pursues(j, sha, R, e)
    <3>1. CASE Serves(i, sha) \/ i.lastRed = sha
      <4>1. i.lastRed = sha => sha \in R
        BY <1>1, NoneAssumption DEF Aware
      <4>2. Excused(sha, R, e) \/ HeadsFor(i, sha)
        BY <1>1, <1>2, <3>1, <4>1 DEF Excused, HeadsFor
      <4> QED  BY <1>1, <2>3, <3>1, <4>2 DEF Pursues
    <3>2. CASE ~(Serves(i, sha) \/ i.lastRed = sha)
      <4>1. IsPiped(j, i, Queued(sha))
        BY <2>3, <3>2
      <4>2. j.pipe.at = "queued" /\ j.pipe.sha = sha /\ j.pending = None
        BY <1>1, <1>2, <4>1 DEF IsPiped, Queued
      <4>3. Aware(j, R)
        BY <1>1, <4>1, <4>2 DEF Aware, IsPiped
      <4> QED  BY <4>2, <4>3 DEF Pursues, HeadsFor
    <3> QED  BY <3>1, <3>2
  <2>6. Pursues(j, sha, R \cup RedsIn(u, n), e)
    BY <2>5, PursuesGrows
  <2>7. Elsewhere(s, Dispatch(u), n)
        /\ Pursues(Dispatch(u).inst[n], sha, R \cup RedsIn(Dispatch(u), n), e)
    BY <2>3, <2>4, <2>6, DispatchPursues
  <2> QED  BY <2>1, <2>7
<1>3. CASE i.pipe.at = "queued"
  <2> DEFINE j == [i EXCEPT !.pipe = Queued(sha)]
  <2>1. t = Put(s, n, j)
    BY <1>3 DEF OnHead, SetPipe, Put
  <2>2. IsPiped(j, i, Queued(sha))
    BY <1>1, Piped
  <2> HIDE DEF j, t
  <2>3. IsPut(t, s, n, j)
    BY <2>1, PutFields
  <2>4. Only(s, t, n) /\ t.inst[n] = j
    BY <2>3 DEF IsPut, Only
  <2>5. j.pipe.at = "queued" /\ j.pipe.sha = sha /\ j.pending = None
    BY <1>1, <1>3, <2>2 DEF IsPiped, Queued
  <2>6. Aware(j, R)
    BY <1>1, <2>2, <2>5 DEF Aware, IsPiped
  <2>7. Pursues(j, sha, R, e)
    BY <2>5, <2>6 DEF Pursues, HeadsFor
  <2>8. Pursues(j, sha, R \cup RedsIn(t, n), e)
    BY <2>7, PursuesGrows
  <2> QED  BY <2>4, <2>8, OnlyElsewhere DEF t
<1>4. CASE i.pipe.at \in {"building", "probing"} /\ i.pipe.sha = sha
  <2>1. t = s
    BY <1>4 DEF OnHead
  <2>2. Excused(sha, R, e) \/ HeadsFor(i, sha)
    BY <1>4, <1>1 DEF Excused, HeadsFor, ComesBack
  <2>3. Pursues(i, sha, R, e)
    BY <1>1, <2>2 DEF Pursues
  <2>4. Pursues(i, sha, R \cup RedsIn(t, n), e)
    BY <2>3, PursuesGrows
  <2>5. Only(s, s, n)
    BY DEF Only
  <2> HIDE DEF t
  <2> QED  BY <2>1, <2>4, <2>5, OnlyElsewhere DEF t
<1>5. CASE i.pipe.at \in {"building", "probing"} /\ i.pipe.sha # sha
  <2> DEFINE j == [i EXCEPT !.pending = sha]
  <2>1. t = Put(s, n, j)
    BY <1>5 DEF OnHead, Put
  <2>2. /\ j.serving = i.serving /\ j.pending = sha /\ j.lastRed = i.lastRed
        /\ j.lastGreen = i.lastGreen /\ j.pipe = i.pipe
    BY <1>1 DEF Instance
  <2> HIDE DEF j, t
  <2>3. IsPut(t, s, n, j)
    BY <2>1, PutFields
  <2>4. Only(s, t, n) /\ t.inst[n] = j
    BY <2>3 DEF IsPut, Only
  <2>5. HeadsFor(j, sha)
    BY <2>2, NoneAssumption DEF HeadsFor
  <2>6. Aware(j, R)
    BY <1>1, <2>2 DEF Aware
  <2>7. Pursues(j, sha, R, e)
    BY <1>5, <2>2, <2>5, <2>6 DEF Pursues
  <2>8. Pursues(j, sha, R \cup RedsIn(t, n), e)
    BY <2>7, PursuesGrows
  <2> QED  BY <2>4, <2>8, OnlyElsewhere DEF t
<1> QED  BY <1>1, <1>2, <1>3, <1>4, <1>5

-----------------------------------------------------------------------------
(* The end of a build.                                                     *)

\* An attempt at sha has ended: were sha red, there would be nothing left.
LEMMA EndedUnsettled ==
  ASSUME NEW i, NEW j, NEW h, NEW R, NEW f, Pursues(i, h, R, f),
         i.pipe.at \in {"building", "probing"}, IsPiped(j, i, Idle)
  PROVE  Unsettled(j, h, R \cup {i.pipe.sha}, f)
<1> DEFINE Q == R \cup {i.pipe.sha}
<1>1. j.pipe.at = "idle"
  BY DEF IsPiped, Idle
<1>2. Aware(j, Q)
  BY <1>1 DEF Pursues, Aware, IsPiped
<1>3. HeadsFor(i, h) => h \in Q \/ HeadsFor(j, h)
  BY DEF HeadsFor, IsPiped
<1>4. Excused(h, Q, f) \/ HeadsFor(j, h)
  BY <1>3 DEF Pursues, Excused
<1> HIDE DEF Q
<1>5. Unsettled(j, h, Q, f)
  BY <1>2, <1>4 DEF Unsettled
<1> QED  BY <1>5 DEF Q

\* The record of n has become j, which is idle.
LEMMA PutIdle ==
  ASSUME NEW s, NEW A, NEW G, Sound(s, A, G), NEW n \in DOMAIN s.inst, n \notin s.building,
         s.inst[n].pipe.at \in {"building", "probing"},
         NEW j \in Instance, IsPiped(j, s.inst[n], Idle)
  PROVE  LET u == Put(s, n, j)
         IN Sound(u, A, G) /\ Only(s, u, n) /\ n \in DOMAIN u.inst /\ u.inst[n] = j
<1>1. Sound(Put(s, n, j), A, G)
  BY RestSound DEF IsPiped
<1>2. IsPut(Put(s, n, j), s, n, j)
  BY PutFields
<1> QED  BY <1>1, <1>2 DEF IsPut, Only

\* It ended red.
LEMMA EndedRed ==
  ASSUME NEW s, NEW A, NEW G, Sound(s, A, G), NEW n \in DOMAIN s.inst, n \notin s.building,
         s.inst[n].pipe.at \in {"building", "probing"},
         NEW h, NEW R, NEW f, Pursues(s.inst[n], h, R, f),
         NEW j \in Instance, IsPiped(j, s.inst[n], Idle)
  PROVE  LET t == SettleIdle(RecordRed(Put(s, n, j), n, s.inst[n].pipe.sha), n)
         IN Only(s, t, n) /\ Pursues(t.inst[n], h, R \cup RedsIn(t, n), f)
<1> DEFINE sha == s.inst[n].pipe.sha
           u == Put(s, n, j)
           t == SettleIdle(RecordRed(u, n, sha), n)
<1>1. sha \in Sha
  BY InstanceFacts, InstanceTypes
<1>2. Sound(u, A, G) /\ Only(s, u, n) /\ n \in DOMAIN u.inst /\ u.inst[n] = j
  BY PutIdle
<1>3. j.pipe = Idle
  BY DEF IsPiped
<1>4. Unsettled(j, h, R \cup {sha}, f)
  BY EndedUnsettled
<1> HIDE DEF sha, u
<1>5. Only(u, t, n) /\ Pursues(t.inst[n], h, R \cup {sha}, f) /\ sha \in RedsIn(t, n)
  BY <1>1, <1>2, <1>3, <1>4, RecordRedPursues
<1> HIDE DEF t
<1>6. R \cup {sha} \subseteq R \cup RedsIn(t, n)
  BY <1>5
<1>7. Pursues(t.inst[n], h, R \cup RedsIn(t, n), f)
  BY <1>5, <1>6, PursuesGrows
<1>8. Only(s, t, n)
  BY <1>2, <1>5 DEF Only
<1> QED  BY <1>7, <1>8 DEF sha, u, t

\* It ended in no verdict and is made again, or what is pending is.
LEMMA EndedUnjudged ==
  ASSUME NEW s, NEW A, NEW G, Sound(s, A, G), NEW n \in DOMAIN s.inst, n \notin s.building,
         s.inst[n].pipe.at = "building",
         NEW h, NEW R, NEW f, Pursues(s.inst[n], h, R, f),
         NEW j \in Instance, IsPiped(j, s.inst[n], Idle)
  PROVE  LET t == Requeue(Put(s, n, j), n, s.inst[n].pipe.sha)
         IN Only(s, t, n) /\ Pursues(t.inst[n], h, R \cup RedsIn(t, n), f)
<1> DEFINE i == s.inst[n]
           sha == i.pipe.sha
           u == Put(s, n, j)
           t == Requeue(u, n, sha)
<1>1. sha \in Sha
  BY InstanceFacts, InstanceTypes
<1>2. Sound(u, A, G) /\ Only(s, u, n) /\ n \in DOMAIN u.inst /\ u.inst[n] = j
  BY PutIdle
<1>3. j.pipe = Idle /\ j.pipe.at = "idle"
  BY DEF IsPiped, Idle
<1>4. Aware(j, R)
  BY <1>3 DEF Pursues, Aware, IsPiped
<1>5. Excused(h, R, f) \/ h = IF j.pending = None THEN sha ELSE j.pending
  BY DEF Pursues, HeadsFor, IsPiped
<1> HIDE DEF sha, u
<1>6. Only(u, t, n) /\ Pursues(t.inst[n], h, R, f)
  BY <1>1, <1>2, <1>3, <1>4, <1>5, RequeuePursues
<1> HIDE DEF t
<1>7. Pursues(t.inst[n], h, R \cup RedsIn(t, n), f)
  BY <1>6, PursuesGrows
<1>8. Only(s, t, n)
  BY <1>2, <1>6 DEF Only
<1> QED  BY <1>7, <1>8 DEF sha, u, t

\* The records the outcomes of a build leave.
LEMMA EndedRecord ==
  ASSUME NEW i \in Instance, NEW x \in 0..IndeterminateCap, NEW e \in 0..EnospcCap
  PROVE  /\ LET j == [i EXCEPT !.indeterminate = x, !.enospc = e, !.pipe = Idle]
            IN j \in Instance /\ IsPiped(j, i, Idle)
         /\ LET j == [i EXCEPT !.indeterminate = x, !.pipe = Idle, !.enospc = e]
            IN j \in Instance /\ IsPiped(j, i, Idle)
         /\ LET j == [i EXCEPT !.pipe = Idle, !.indeterminate = x]
            IN j \in Instance /\ IsPiped(j, i, Idle)
<1>1. Idle \in Pipeline
  BY DEF Pipeline, Idle
<1>2. /\ [i EXCEPT !.indeterminate = x, !.enospc = e, !.pipe = Idle] \in Instance
      /\ [i EXCEPT !.indeterminate = x, !.pipe = Idle, !.enospc = e] \in Instance
      /\ [i EXCEPT !.pipe = Idle, !.indeterminate = x] \in Instance
  BY <1>1, RestRecord DEF Rests
<1> QED  BY <1>2 DEF Instance, IsPiped

LEMMA OnRedPursues ==
  ASSUME NEW s, NEW A, NEW G, Sound(s, A, G), NEW n \in DOMAIN s.inst, n \notin s.building,
         s.inst[n].pipe.at = "building",
         NEW h, NEW R, NEW f, Pursues(s.inst[n], h, R, f)
  PROVE  LET t == OnRed(s, n, s.inst[n].pipe.sha)
         IN Only(s, t, n) /\ Pursues(t.inst[n], h, R \cup RedsIn(t, n), f)
<1> DEFINE i == s.inst[n]
           j == [i EXCEPT !.indeterminate = 0, !.enospc = 0, !.pipe = Idle]
           t == SettleIdle(RecordRed(Put(s, n, j), n, i.pipe.sha), n)
<1>1. OnRed(s, n, i.pipe.sha) = t
  BY DEF OnRed, Put
<1>2. j \in Instance /\ IsPiped(j, i, Idle)
  BY InstanceFacts, EndedRecord, StreakTypes
<1> HIDE DEF j
<1>3. Only(s, t, n) /\ Pursues(t.inst[n], h, R \cup RedsIn(t, n), f)
  BY <1>2, EndedRed
<1> QED  BY <1>1, <1>3

LEMMA OnEnospcPursues ==
  ASSUME NEW s, NEW A, NEW G, Sound(s, A, G), NEW n \in DOMAIN s.inst, n \notin s.building,
         s.inst[n].pipe.at = "building",
         NEW h, NEW R, NEW f, Pursues(s.inst[n], h, R, f)
  PROVE  LET t == OnEnospc(s, n, s.inst[n].pipe.sha)
         IN Only(s, t, n) /\ Pursues(t.inst[n], h, R \cup RedsIn(t, n), f)
<1> DEFINE i == s.inst[n]
           sha == i.pipe.sha
           t == OnEnospc(s, n, sha)
<1>1. i \in Instance /\ i.enospc \in 0..EnospcCap
  BY InstanceFacts DEF Instance
<1>2. CASE i.enospc >= EnospcCap
  <2> DEFINE j == [i EXCEPT !.indeterminate = 0, !.pipe = Idle, !.enospc = 0]
             v == SettleIdle(RecordRed(Put(s, n, j), n, sha), n)
  <2>1. t = v
    <3>1. [[s EXCEPT !.inst[n].indeterminate = 0, !.inst[n].pipe = Idle]
             EXCEPT !.inst[n].enospc = 0] = Put(s, n, j)
      BY DEF Put
    <3> QED  BY <1>2, <3>1 DEF OnEnospc
  <2>2. j \in Instance /\ IsPiped(j, i, Idle)
    BY <1>1, EndedRecord, StreakTypes
  <2> HIDE DEF j
  <2>3. Only(s, v, n) /\ Pursues(v.inst[n], h, R \cup RedsIn(v, n), f)
    BY <2>2, EndedRed
  <2> QED  BY <2>1, <2>3
<1>3. CASE ~(i.enospc >= EnospcCap)
  <2> DEFINE j == [i EXCEPT !.indeterminate = 0, !.pipe = Idle, !.enospc = i.enospc + 1]
             v == Requeue(Put(s, n, j), n, sha)
  <2>1. t = v
    <3>1. n \in DOMAIN s.inst /\ s = [inst |-> s.inst, queue |-> s.queue,
              building |-> s.building, gen |-> s.gen, out |-> s.out]
      BY SoundFields
    <3>2. [[s EXCEPT !.inst[n].indeterminate = 0, !.inst[n].pipe = Idle]
             EXCEPT !.inst[n].enospc = @ + 1] = Put(s, n, j)
      BY <1>1, <3>1, ZenonT(60) DEF Put, Instance
    <3> QED  BY <1>3, <3>2 DEF OnEnospc
  <2>2. j \in Instance /\ IsPiped(j, i, Idle)
    <3>1. i.enospc + 1 \in 0..EnospcCap
      BY <1>1, <1>3, StreakTypes
    <3> QED  BY <1>1, <3>1, EndedRecord, StreakTypes
  <2> HIDE DEF j
  <2>3. Only(s, v, n) /\ Pursues(v.inst[n], h, R \cup RedsIn(v, n), f)
    BY <2>2, EndedUnjudged
  <2> QED  BY <2>1, <2>3
<1> QED  BY <1>2, <1>3

LEMMA OnIndeterminatePursues ==
  ASSUME NEW s, NEW A, NEW G, Sound(s, A, G), NEW n \in DOMAIN s.inst, n \notin s.building,
         s.inst[n].pipe.at = "building",
         NEW h, NEW R, NEW f, Pursues(s.inst[n], h, R, f)
  PROVE  LET t == OnIndeterminate(s, n, s.inst[n].pipe.sha)
         IN Only(s, t, n) /\ Pursues(t.inst[n], h, R \cup RedsIn(t, n), f)
<1> DEFINE i == s.inst[n]
           sha == i.pipe.sha
           t == OnIndeterminate(s, n, sha)
<1>1. i \in Instance /\ i.indeterminate \in 0..IndeterminateCap
  BY InstanceFacts DEF Instance
<1>2. CASE i.indeterminate >= IndeterminateCap
  <2> DEFINE j == [i EXCEPT !.pipe = Idle, !.indeterminate = 0]
             v == SettleIdle(RecordRed(Put(s, n, j), n, sha), n)
  <2>1. t = v
    <3>1. [SetPipe(s, n, Idle) EXCEPT !.inst[n].indeterminate = 0] = Put(s, n, j)
      BY DEF Put, SetPipe
    <3> QED  BY <1>2, <3>1 DEF OnIndeterminate
  <2>2. j \in Instance /\ IsPiped(j, i, Idle)
    BY <1>1, EndedRecord, StreakTypes
  <2> HIDE DEF j
  <2>3. Only(s, v, n) /\ Pursues(v.inst[n], h, R \cup RedsIn(v, n), f)
    BY <2>2, EndedRed
  <2> QED  BY <2>1, <2>3
<1>3. CASE ~(i.indeterminate >= IndeterminateCap)
  <2> DEFINE j == [i EXCEPT !.pipe = Idle, !.indeterminate = i.indeterminate + 1]
             v == Requeue(Put(s, n, j), n, sha)
  <2>1. t = v
    <3>1. n \in DOMAIN s.inst /\ s = [inst |-> s.inst, queue |-> s.queue,
              building |-> s.building, gen |-> s.gen, out |-> s.out]
      BY SoundFields
    <3>2. [SetPipe(s, n, Idle) EXCEPT !.inst[n].indeterminate = @ + 1] = Put(s, n, j)
      BY <1>1, <3>1 DEF Put, SetPipe, Instance
    <3> QED  BY <1>3, <3>2 DEF OnIndeterminate
  <2>2. j \in Instance /\ IsPiped(j, i, Idle)
    <3>1. i.indeterminate + 1 \in 0..IndeterminateCap
      BY <1>1, <1>3, StreakTypes
    <3> QED  BY <1>1, <3>1, EndedRecord, StreakTypes
  <2> HIDE DEF j
  <2>3. Only(s, v, n) /\ Pursues(v.inst[n], h, R \cup RedsIn(v, n), f)
    BY <2>2, EndedUnjudged
  <2> QED  BY <2>1, <2>3
<1> QED  BY <1>2, <1>3

LEMMA OnGreenPursues ==
  ASSUME NEW s, NEW A, NEW G, Sound(s, A, G), NEW n \in DOMAIN s.inst, n \notin s.building,
         s.inst[n].pipe.at = "building", s.inst[n].pipe.sha \in G[n],
         NEW h, NEW R, NEW f, Pursues(s.inst[n], h, R, f)
  PROVE  LET t == OnGreen(s, n, s.inst[n].pipe.sha, s.inst[n].pipe.gen)
         IN Only(s, t, n) /\ Pursues(t.inst[n], h, R \cup RedsIn(t, n), f)
<1> DEFINE i == s.inst[n]
           sha == i.pipe.sha
           g == i.pipe.gen
           p == Probing(sha, g, FALSE)
           j == [i EXCEPT !.indeterminate = 0, !.enospc = 0, !.pipe = p]
           u == Put(s, n, j)
           o == [act |-> "SpawnAndProbe", name |-> n, sha |-> sha, gen |-> g]
           t == OnGreen(s, n, sha, g)
<1>1. t = Emit(u, o)
  BY DEF OnGreen, Put
<1>2. i \in Instance
  BY InstanceFacts
<1>3. p.at = "probing" /\ p.sha = sha /\ p.respawn = FALSE
  BY DEF Probing
<1> HIDE DEF p, o, t
<1>4. IsPiped(j, i, p)
  BY <1>2 DEF Instance, IsPiped
<1> HIDE DEF j
<1>5. IsPut(u, s, n, j)
  BY PutFields
<1>6. t.inst = u.inst
  <2>1. u = [inst |-> u.inst, queue |-> u.queue, building |-> u.building, gen |-> u.gen,
             out |-> u.out]
    BY <1>5 DEF IsPut
  <2> HIDE DEF u
  <2>2. t = [u EXCEPT !.out = Append(u.out, o)]
    BY <1>1 DEF Emit
  <2> QED  BY <2>1, <2>2
<1>7. Only(s, t, n) /\ t.inst[n] = j
  BY <1>5, <1>6 DEF IsPut, Only
<1>8. Pursues(j, h, R, f)
  <2>1. Aware(j, R)
    BY <1>3, <1>4 DEF Pursues, Aware, IsPiped
  <2>2. Excused(h, R, f) \/ HeadsFor(j, h)
    BY <1>3, <1>4 DEF Pursues, HeadsFor, IsPiped
  <2> QED  BY <1>3, <1>4, <2>1, <2>2 DEF Pursues, IsPiped
<1>9. Pursues(t.inst[n], h, R \cup RedsIn(t, n), f)
  BY <1>7, <1>8, PursuesGrows
<1> QED  BY <1>7, <1>9 DEF t

LEMMA OnBuildFinishedPursues ==
  ASSUME NEW s, NEW A, NEW G, Sound(s, A, G), NEW n \in DOMAIN s.inst, NEW g,
         Awaits(s, n, "building", g), NEW outcome \in BuildOutcome,
         outcome = "green" => s.inst[n].pipe.sha \in G[n],
         NEW h, NEW R, NEW f, Pursues(s.inst[n], h, R, f)
  PROVE  LET t == OnBuildFinished(s, n, g, outcome)
         IN Elsewhere(s, t, n) /\ Pursues(t.inst[n], h, R \cup RedsIn(t, n), f)
<1> DEFINE sha == s.inst[n].pipe.sha
           u == Slotless(s, n)
           v == CASE outcome = "green" -> OnGreen(u, n, sha, g)
                  [] outcome = "red" -> OnRed(u, n, sha)
                  [] outcome = "enospc" -> OnEnospc(u, n, sha)
                  [] outcome = "indeterminate" -> OnIndeterminate(u, n, sha)
           t == Dispatch(v)
<1>1. OnBuildFinished(s, n, g, outcome) = t
  BY DEF OnBuildFinished, Slotless
<1>2. Sound(u, A, G) /\ u.inst = s.inst /\ n \notin u.building
  BY LeaveSlotKeeps
<1> HIDE DEF u
<1>3. /\ n \in DOMAIN u.inst /\ u.inst[n].pipe.at = "building" /\ u.inst[n].pipe.sha = sha
      /\ u.inst[n].pipe.gen = g /\ Pursues(u.inst[n], h, R, f)
  BY <1>2 DEF Awaits
<1>4. Sound(v, A, G) /\ Only(u, v, n) /\ Pursues(v.inst[n], h, R \cup RedsIn(v, n), f)
  <2>1. CASE outcome = "green"
    <3>1. v = OnGreen(u, n, sha, g)
      BY <2>1
    <3> QED  BY <1>2, <1>3, <2>1, <3>1, OnGreenJudges, OnGreenPursues
  <2>2. CASE outcome = "red"
    <3>1. v = OnRed(u, n, sha)
      BY <2>2
    <3> QED  BY <1>2, <1>3, <2>2, <3>1, OnRedJudges, OnRedPursues
  <2>3. CASE outcome = "enospc"
    <3>1. v = OnEnospc(u, n, sha)
      BY <2>3
    <3> QED  BY <1>2, <1>3, <2>3, <3>1, OnEnospcJudges, OnEnospcPursues
  <2>4. CASE outcome = "indeterminate"
    <3>1. v = OnIndeterminate(u, n, sha)
      BY <2>4
    <3> QED  BY <1>2, <1>3, <2>4, <3>1, OnIndeterminateJudges, OnIndeterminatePursues
  <2> QED  BY <2>1, <2>2, <2>3, <2>4 DEF BuildOutcome
<1> HIDE DEF v
<1>5. Only(s, v, n)
  BY <1>2, <1>4 DEF Only
<1>6. Elsewhere(s, t, n) /\ Pursues(t.inst[n], h, R \cup RedsIn(t, n), f)
  BY <1>4, <1>5, DispatchPursues
<1> QED  BY <1>1, <1>6

-----------------------------------------------------------------------------
(* The end of a probe.                                                     *)

LEMMA OnProbeSucceededPursues ==
  ASSUME NEW s, NEW A, NEW G, Sound(s, A, G), NEW n \in DOMAIN s.inst, NEW g,
         Awaits(s, n, "probing", g),
         NEW h, NEW R, NEW f, Pursues(s.inst[n], h, R, f)
  PROVE  LET t == OnProbeSucceeded(s, n, g)
         IN Elsewhere(s, t, n) /\ Pursues(t.inst[n], h, R \cup RedsIn(t, n), f)
<1> DEFINE i == s.inst[n]
           c == [sha |-> i.pipe.sha, gen |-> i.pipe.gen]
           d == i.draining \cup IF i.serving = None THEN {} ELSE {i.serving.gen}
           j == [i EXCEPT !.serving = c, !.lastGreen = c.sha, !.pipe = Idle,
                          !.needsRespawn = FALSE, !.respawns = 0, !.draining = d]
           u == Put(s, n, j)
           o == [act |-> "Promote", name |-> n, sha |-> c.sha, gen |-> c.gen]
           v == Emit(u, o)
           e == [act |-> "StartDrain", name |-> n, gen |-> i.serving.gen]
           w == IF i.serving = None THEN v ELSE Emit(v, e)
           x == SettleIdle(w, n)
           t == Dispatch(x)
<1>1. /\ n \in Name /\ i \in Instance /\ i.pipe \in Pipeline
      /\ i.draining \in SUBSET Nat /\ i.serving \in Child \cup {None}
      /\ Fits(i, n, Work(s, A), s.gen, G[n])
  BY InstanceFacts DEF Instance
<1>2. i.pipe.at = "probing" /\ i.pipe.sha \in Sha /\ i.pipe.gen \in Nat
      /\ i.pipe.sha \in G[n]
  BY <1>1, PipeFacts DEF Awaits, Fits
<1>3. OnProbeSucceeded(s, n, g) = t
  <2>1. Promoted(s, n) = w
    BY DEF Promoted, Put
  <2> HIDE DEF w
  <2> QED  BY <2>1 DEF OnProbeSucceeded
<1>4. c \in Child /\ c.sha = i.pipe.sha /\ c.gen = i.pipe.gen
  BY <1>2 DEF Child
<1>5. i.serving # None => i.serving.gen \in Nat
  BY <1>1 DEF Child
<1>6. d \in SUBSET Nat
  BY <1>1, <1>5
<1>7. o \in Order /\ o.act \notin Attempting
  BY <1>1, <1>2, <1>4 DEF Order, Attempting
<1>8. i.serving # None => e \in Order /\ e.act \notin Attempting
  BY <1>1, <1>5 DEF Order, Attempting
<1> HIDE DEF d, o, e
<1>9. Serving(j, i, c, d) /\ j.pending = i.pending /\ j.lastRed = i.lastRed
  <2> HIDE DEF c
  <2>1. Serving(j, i, c, d)
    BY <1>1, <1>4, <1>6, ServingRecord
  <2>2. j.pending = i.pending /\ j.lastRed = i.lastRed
    BY <1>1 DEF Instance
  <2> QED  BY <2>1, <2>2
<1> HIDE DEF j
<1>10. /\ j.pipe = Idle /\ j.pipe.at = "idle" /\ j.serving = c /\ j.lastGreen = c.sha
       /\ j \in Instance
  BY <1>9 DEF Serving, Idle
<1>11. Fits(j, n, Work(s, A), s.gen, G[n])
  BY <1>2, <1>4, <1>10 DEF Fits, Matches
<1>12. n \notin s.building
  BY <1>2, OutOfSlot
<1>13. Sound(u, A, G)
  BY <1>2, <1>11, <1>12, PutSound
<1>14. Only(s, u, n) /\ n \in DOMAIN u.inst /\ u.inst[n] = j
  <2>1. IsPut(u, s, n, j)
    BY PutFields
  <2> QED  BY <2>1 DEF IsPut, Only
<1>15. Unsettled(j, h, R, f)
  <2>1. c # None => Serves(j, c.sha)
    BY <1>10 DEF Serves
  <2>2. c # None
    BY <1>4, NoneAssumption
  <2>3. HeadsFor(i, h) => HeadsFor(j, h)
    BY <1>2, <1>4, <1>9, <1>10, <2>1, <2>2 DEF HeadsFor
  <2>4. Aware(j, R)
    BY <1>9, <1>10 DEF Pursues, Aware
  <2> QED  BY <2>3, <2>4 DEF Pursues, Unsettled
<1> HIDE DEF u
<1>16. Sound(v, A, G) /\ v.inst = u.inst
  BY <1>7, <1>13, EmitKept, EmitFields
<1> HIDE DEF v
<1>17. Sound(w, A, G) /\ w.inst = u.inst
  BY <1>8, <1>16, EmitKept, EmitFields
<1> HIDE DEF w
<1>18. Only(w, x, n) /\ Pursues(x.inst[n], h, R, f) /\ Sound(x, A, G)
  BY <1>10, <1>14, <1>15, <1>17, SettleIdlePursues, SettleIdleKeeps
<1> HIDE DEF x
<1>19. Only(s, x, n) /\ Pursues(x.inst[n], h, R \cup RedsIn(x, n), f)
  BY <1>14, <1>17, <1>18, PursuesGrows DEF Only
<1>20. Elsewhere(s, t, n) /\ Pursues(t.inst[n], h, R \cup RedsIn(t, n), f)
  BY <1>18, <1>19, DispatchPursues
<1> QED  BY <1>3, <1>20

LEMMA OnProbeFailedPursues ==
  ASSUME NEW s, NEW A, NEW G, Sound(s, A, G), NEW n \in DOMAIN s.inst, NEW g,
         NEW h, NEW R, NEW f, Pursues(s.inst[n], h, R, f)
  PROVE  LET t == OnProbeFailed(s, n, g)
         IN Elsewhere(s, t, n) /\ Pursues(t.inst[n], h, R \cup RedsIn(t, n), f)
<1> DEFINE i == s.inst[n]
           p == i.pipe
           j == [i EXCEPT !.pipe = Idle]
           u == Put(s, n, j)
           o == [act |-> "KillStandby", name |-> n, gen |-> g]
           v == Emit(u, o)
           w == ProbeRed(v, n, p.sha, p.respawn)
           x == SettleIdle(w, n)
           t == Dispatch(x)
<1>1. CASE ~Awaits(s, n, "probing", g)
  <2>1. OnProbeFailed(s, n, g) = s
    BY <1>1 DEF OnProbeFailed
  <2>2. Elsewhere(s, s, n)
    BY DEF Elsewhere, Launches
  <2>3. Pursues(s.inst[n], h, R \cup RedsIn(s, n), f)
    BY PursuesGrows
  <2> QED  BY <2>1, <2>2, <2>3
<1>2. CASE Awaits(s, n, "probing", g)
  <2>1. OnProbeFailed(s, n, g) = t
    BY <1>2 DEF OnProbeFailed, SetPipe, Put
  <2>2. n \in Name /\ i \in Instance /\ p \in Pipeline
    BY InstanceFacts
  <2>3. p.at = "probing" /\ p.gen = g
    BY <1>2 DEF Awaits
  <2>4. p.sha \in Sha /\ g \in Nat
    BY <2>2, <2>3, PipeFacts
  <2>5. n \notin s.building
    BY <2>3, OutOfSlot
  <2>6. j \in Instance /\ IsPiped(j, i, Idle) /\ j.respawns = i.respawns
    <3>1. Idle \in Pipeline
      BY DEF Pipeline, Idle
    <3> QED  BY <2>2, <3>1 DEF Instance, IsPiped
  <2> HIDE DEF j
  <2>7. Sound(u, A, G) /\ Only(s, u, n) /\ n \in DOMAIN u.inst /\ u.inst[n] = j
    BY <2>3, <2>5, <2>6, PutIdle
  <2>8. o \in Order /\ o.act \notin Attempting
    BY <2>2, <2>4 DEF Order, Attempting
  <2> HIDE DEF u, o
  <2>9. Sound(v, A, G) /\ v.inst = u.inst
    BY <2>7, <2>8, EmitKept, EmitFields
  <2> HIDE DEF v
  <2>10. n \in DOMAIN v.inst /\ v.inst[n] = j
    BY <2>7, <2>9
  <2>11. Sound(w, A, G)
    BY <2>4, <2>9, <2>10, ProbeRedKeeps
  <2>12. j.pipe = Idle /\ j.pipe.at = "idle"
    BY <2>6 DEF IsPiped, Idle
  <2>13. n \notin v.building
    BY <2>9, <2>10, <2>12, OutOfSlot
  <2>14. Sound(x, A, G) /\ Only(v, x, n) /\ Pursues(x.inst[n], h, R \cup RedsIn(x, n), f)
    <3>1. CASE p.respawn /\ j.respawns < RespawnCap
      <4> DEFINE k == [j EXCEPT !.respawns = j.respawns + 1, !.needsRespawn = TRUE]
      <4>1. w = Put(v, n, k)
        <5>1. w = [v EXCEPT !.inst[n].respawns = @ + 1, !.inst[n].needsRespawn = TRUE]
          BY <2>10, <3>1 DEF ProbeRed
        <5> QED  BY <2>10, <5>1 DEF Put
      <4>2. /\ k.serving = j.serving /\ k.pending = j.pending /\ k.lastRed = j.lastRed
            /\ k.lastGreen = j.lastGreen /\ k.needsRespawn = TRUE /\ k.pipe = j.pipe
        BY <2>6 DEF Instance
      <4> HIDE DEF k, w
      <4>3. IsPut(w, v, n, k)
        BY <2>9, <2>10, <4>1, PutFields
      <4>4. Only(v, w, n) /\ n \in DOMAIN w.inst /\ w.inst[n] = k
        BY <2>10, <4>3 DEF IsPut, Only
      <4>5. p.respawn = TRUE
        BY <2>2, <2>3, <3>1 DEF Pipeline
      <4>6. i.serving = None /\ p.sha = i.lastGreen
        BY <2>3, <4>5 DEF Pursues, Aware
      <4>7. /\ k.serving = None /\ k.lastGreen = p.sha /\ k.pending = i.pending
            /\ k.pipe = Idle /\ k.pipe.at = "idle" /\ k.lastRed = i.lastRed
        BY <2>6, <2>12, <4>2, <4>6 DEF IsPiped
      <4>8. OwesRespawn(k)
        BY <2>4, <4>2, <4>7, NoneAssumption DEF OwesRespawn
      <4>9. Aware(k, R)
        BY <4>7 DEF Pursues, Aware
      <4>10. HeadsFor(i, h) => HeadsFor(k, h) \/ (k.pending = None /\ h = k.lastGreen)
        BY <2>3, <4>7 DEF HeadsFor
      <4>11. Unsettled(k, h, R, f)
        BY <4>8, <4>9, <4>10 DEF Pursues, Unsettled
      <4>12. Only(w, x, n) /\ Pursues(x.inst[n], h, R, f) /\ Sound(x, A, G)
        BY <2>11, <4>4, <4>7, <4>11, SettleIdlePursues, SettleIdleKeeps
      <4> HIDE DEF x
      <4>13. Only(v, x, n)
        BY <4>4, <4>12 DEF Only
      <4>14. Pursues(x.inst[n], h, R \cup RedsIn(x, n), f)
        BY <4>12, PursuesGrows
      <4> QED  BY <4>12, <4>13, <4>14
    <3>2. CASE ~(p.respawn /\ j.respawns < RespawnCap)
      <4> DEFINE r == IF p.respawn THEN 0 ELSE j.respawns
                 k == [j EXCEPT !.respawns = r]
                 y == Put(v, n, k)
      <4>1. w = RecordRed(y, n, p.sha)
        BY <2>10, <3>2 DEF ProbeRed, Put
      <4>2. r \in 0..RespawnCap
        BY <2>6 DEF Instance, RespawnCap
      <4> HIDE DEF r
      <4>3. /\ k \in Instance /\ k.pipe = j.pipe /\ k.serving = j.serving
            /\ k.pending = j.pending /\ k.lastRed = j.lastRed
            /\ k.lastGreen = j.lastGreen /\ k.needsRespawn = j.needsRespawn
        BY <2>6, <4>2 DEF Instance
      <4> HIDE DEF k
      <4>4. IsPiped(k, i, Idle)
        BY <2>6, <4>3 DEF IsPiped
      <4>5. Fits(k, n, Work(v, A), v.gen, G[n])
        <5>1. Fits(j, n, Work(v, A), v.gen, G[n])
          BY <2>9, <2>10, InstanceFacts
        <5> QED  BY <4>3, <5>1, CalmFits
      <4>6. Sound(y, A, G)
        BY <2>9, <2>10, <2>12, <2>13, <4>5, PutSound
      <4>7. IsPut(y, v, n, k)
        BY <2>9, <2>10, PutFields
      <4> HIDE DEF y
      <4>8. Only(v, y, n) /\ n \in DOMAIN y.inst /\ y.inst[n] = k
        BY <2>10, <4>7 DEF IsPut, Only
      <4>9. Unsettled(k, h, R \cup {p.sha}, f)
        BY <2>3, <4>4, EndedUnsettled
      <4>10. k.pipe = Idle
        BY <4>4 DEF IsPiped
      <4>11. x = SettleIdle(RecordRed(y, n, p.sha), n)
        BY <4>1
      <4> HIDE DEF x, w
      <4>12. Only(y, x, n) /\ Pursues(x.inst[n], h, R \cup {p.sha}, f) /\ p.sha \in RedsIn(x, n)
        <5> DEFINE q == p.sha
        <5>1. q \in Sha /\ Unsettled(y.inst[n], h, R \cup {q}, f)
          BY <2>4, <4>8, <4>9
        <5>2. x = SettleIdle(RecordRed(y, n, q), n)
          BY <4>11
        <5> HIDE DEF q, p
        <5>3. Only(y, x, n) /\ Pursues(x.inst[n], h, R \cup {q}, f) /\ q \in RedsIn(x, n)
          BY <4>6, <4>8, <4>10, <5>1, <5>2, RecordRedPursues
        <5> QED  BY <5>3 DEF q
      <4>13. R \cup {p.sha} \subseteq R \cup RedsIn(x, n)
        BY <4>12
      <4>14. Pursues(x.inst[n], h, R \cup RedsIn(x, n), f)
        BY <4>12, <4>13, PursuesGrows
      <4>15. Sound(x, A, G)
        <5>1. Kept(v, w) /\ n \in DOMAIN w.inst
          BY <2>4, <2>9, <2>10, ProbeRedKeeps DEF w, Kept
        <5> QED  BY <2>11, <5>1, SettleIdleKeeps DEF x
      <4> QED  BY <4>8, <4>12, <4>14, <4>15 DEF Only
    <3> QED  BY <3>1, <3>2
  <2> HIDE DEF w, x
  <2>15. Only(s, x, n)
    BY <2>7, <2>9, <2>14 DEF Only
  <2>16. Elsewhere(s, t, n) /\ Pursues(t.inst[n], h, R \cup RedsIn(t, n), f)
    BY <2>14, <2>15, DispatchPursues
  <2> QED  BY <2>1, <2>16
<1> QED  BY <1>1, <1>2

-----------------------------------------------------------------------------
(* The exit of a child, the end of a drain, a bundle found on disk.        *)

\* A respawn is owed and nothing else is in the way.
LEMMA OwedPursues ==
  ASSUME NEW s, NEW A, NEW G, Sound(s, A, G), NEW n \in DOMAIN s.inst,
         NEW h, NEW R, NEW f, Unsettled(s.inst[n], h, R, f), OwesRespawn(s.inst[n])
  PROVE  LET t == TryRespawn(s, n)
         IN Only(s, t, n) /\ Pursues(t.inst[n], h, R \cup RedsIn(t, n), f)
<1> DEFINE t == TryRespawn(s, n)
           j == t.inst[n]
<1>1. s.inst[n].pipe = Idle
  BY DEF OwesRespawn
<1>2. /\ Only(s, t, n) /\ Aware(j, R)
      /\ Excused(h, R, f) \/ HeadsFor(j, h)
      /\ j.pipe.at = "probing"
  BY <1>1, TryRespawnPursues
<1> HIDE DEF t
<1>3. Pursues(j, h, R, f)
  BY <1>2 DEF Pursues
<1>4. Pursues(j, h, R \cup RedsIn(t, n), f)
  BY <1>3, PursuesGrows
<1> QED  BY <1>2, <1>4 DEF t

LEMMA OnServingExitedPursues ==
  ASSUME NEW s, NEW A, NEW G, Sound(s, A, G), NEW n \in DOMAIN s.inst, NEW g,
         NEW h, NEW R, NEW f, Pursues(s.inst[n], h, R, f)
  PROVE  LET t == OnServingExited(s, n, g)
         IN Elsewhere(s, t, n) /\ Pursues(t.inst[n], h, R \cup RedsIn(t, n), f)
<1> DEFINE i == s.inst[n]
           b == i.lastGreen # None
           e == OnServingExited(s, n, g)
<1>1. /\ i \in Instance /\ i.pipe \in Pipeline /\ b \in BOOLEAN
      /\ Fits(i, n, Work(s, A), s.gen, G[n])
  BY InstanceFacts
<1>2. n \in s.building => i.pipe.at = "building"
  BY DEF Sound, SlotsOK
<1>3. CASE i.serving = None \/ (i.serving # None /\ i.serving.gen # g)
  <2>1. e = s
    BY <1>3 DEF OnServingExited
  <2>2. Elsewhere(s, s, n)
    BY DEF Elsewhere, Launches
  <2>3. Pursues(s.inst[n], h, R \cup RedsIn(s, n), f)
    BY PursuesGrows
  <2> HIDE DEF e
  <2> QED  BY <2>1, <2>2, <2>3 DEF e
<1>4. i.serving # None => i.lastGreen = i.serving.sha /\ i.lastGreen \in Sha /\ b = TRUE
  BY <1>1, InstanceTypes, NoneAssumption DEF Pursues, Aware
<1>5. CASE /\ i.serving # None /\ i.serving.gen = g
           /\ ~(i.pipe.at = "queued" /\ i.lastGreen # None)
  <2> DEFINE j == [i EXCEPT !.serving = None, !.needsRespawn = b]
             u == Put(s, n, j)
             t == TryRespawn(u, n)
  <2>1. e = t
    BY <1>5 DEF OnServingExited, Put
  <2> HIDE DEF b, e
  <2>2. /\ Lost(j, i, i.pipe) /\ j.pending = i.pending /\ j.lastRed = i.lastRed
        /\ j.needsRespawn = TRUE
    <3>1. Lost(j, i, i.pipe)
      BY <1>1 DEF Instance, Lost
    <3>2. j.pending = i.pending /\ j.lastRed = i.lastRed /\ j.needsRespawn = b
      BY <1>1 DEF Instance
    <3> QED  BY <1>4, <1>5, <3>1, <3>2
  <2> HIDE DEF j
  <2>3. Fits(j, n, Work(s, A), s.gen, G[n])
    BY <1>1, <2>2, CalmFits DEF Lost
  <2>4. Sound(u, A, G)
    BY <1>2, <2>2, <2>3, PutSound DEF Lost
  <2>5. Only(s, u, n) /\ n \in DOMAIN u.inst /\ u.inst[n] = j
    <3>1. IsPut(u, s, n, j)
      BY PutFields
    <3> QED  BY <3>1 DEF IsPut, Only
  <2> HIDE DEF u
  <2>6. Aware(j, R)
    BY <1>5, <2>2 DEF Pursues, Aware, Lost
  <2>7. CASE i.pipe.at = "idle"
    <3>1. OwesRespawn(j)
      BY <1>1, <1>4, <1>5, <2>2, <2>7, InstanceTypes, NoneAssumption DEF OwesRespawn, Lost
    <3>2. i.pending = None
      BY <2>7 DEF Pursues
    <3>3. HeadsFor(i, h) => h = j.lastGreen
      BY <1>4, <1>5, <2>2, <2>7, <3>2 DEF HeadsFor, Serves, Lost
    <3>4. Unsettled(j, h, R, f)
      BY <2>2, <2>6, <3>1, <3>2, <3>3 DEF Pursues, Unsettled
    <3>5. Only(u, t, n) /\ Pursues(t.inst[n], h, R \cup RedsIn(t, n), f)
      BY <2>4, <2>5, <3>1, <3>4, OwedPursues
    <3> HIDE DEF t
    <3>6. Only(s, t, n)
      BY <2>5, <3>5 DEF Only
    <3> QED  BY <2>1, <3>5, <3>6, OnlyElsewhere DEF e
  <2>8. CASE i.pipe.at # "idle"
    <3>1. j.pipe = i.pipe
      BY <2>2 DEF Lost
    <3>2. ~OwesRespawn(j)
      BY <2>8, <3>1 DEF OwesRespawn, Idle
    <3>3. t = u
      BY <2>5, <3>2 DEF TryRespawn
    <3>4. HeadsFor(i, h) => HeadsFor(j, h)
      BY <2>2, <2>8, <3>1 DEF HeadsFor
    <3>5. Pursues(j, h, R, f)
      BY <2>2, <2>6, <3>1, <3>4 DEF Pursues
    <3>6. Pursues(j, h, R \cup RedsIn(u, n), f)
      BY <3>5, PursuesGrows
    <3> HIDE DEF t
    <3> QED  BY <2>1, <2>5, <3>3, <3>6, OnlyElsewhere DEF e
  <2> QED  BY <2>7, <2>8
<1>6. CASE /\ i.serving # None /\ i.serving.gen = g
           /\ i.pipe.at = "queued" /\ i.lastGreen # None
  <2> DEFINE d == [i EXCEPT !.serving = None, !.needsRespawn = b]
             j == [d EXCEPT !.pending = i.pipe.sha, !.pipe = Idle]
             v == Unqueued(s, n)
             u == Put(v, n, j)
             t == TryRespawn(u, n)
  <2>1. e = t
    <3>1. s = [inst |-> s.inst, queue |-> s.queue, building |-> s.building,
               gen |-> s.gen, out |-> s.out]
      BY SoundFields
    <3> DEFINE w == [s EXCEPT !.inst[n] = j, !.queue = Leave(@, n)]
    <3>2. e = TryRespawn(w, n)
      BY <1>6 DEF OnServingExited
    <3> HIDE DEF j
    <3>3. w = u
      BY <3>1 DEF Put, Unqueued
    <3> QED  BY <3>2, <3>3
  <2>2. /\ Sound(v, A, G) /\ v.inst = s.inst /\ v.building = s.building
        /\ Work(v, A) = Work(s, A) /\ v.gen = s.gen
        /\ \A k \in 1..Len(v.queue) : v.queue[k] # n
    BY UnqueueKeeps DEF Work
  <2> HIDE DEF b, e, v
  <2>3. i.pipe.sha \in Sha /\ Idle \in Pipeline
    BY <1>1, <1>6, PipeFacts DEF Pipeline, Idle
  <2>4. /\ Lost(j, i, Idle) /\ j.pending = i.pipe.sha /\ j.lastRed = i.lastRed
        /\ j.needsRespawn = TRUE
    <3>1. Lost(j, i, Idle)
      BY <1>1, <2>3, LostRecord
    <3>2. j.pending = i.pipe.sha /\ j.lastRed = i.lastRed /\ j.needsRespawn = b
      BY <1>1 DEF Instance
    <3> QED  BY <1>4, <1>6, <3>1, <3>2
  <2> HIDE DEF j
  <2>5. j.pipe.at = "idle"
    BY <2>4 DEF Lost, Idle
  <2>6. Fits(j, n, Work(v, A), v.gen, G[n])
    BY <1>1, <2>2, <2>4, <2>5, CalmFits DEF Lost
  <2>7. Sound(u, A, G)
    BY <1>2, <1>6, <2>2, <2>6, PutAnySound
  <2>8. Only(s, u, n) /\ n \in DOMAIN u.inst /\ u.inst[n] = j
    <3>1. IsPut(u, v, n, j)
      BY <2>2, PutFields
    <3> QED  BY <2>2, <3>1 DEF IsPut, Only
  <2> HIDE DEF u
  <2>9. Aware(j, R)
    BY <2>4, <2>5 DEF Pursues, Aware, Lost
  <2>10. HeadsFor(i, h) => HeadsFor(j, h)
    BY <1>6, <2>3, <2>4, NoneAssumption DEF Pursues, HeadsFor
  <2>11. HeadsFor(i, h) \/ Excused(h, R, f)
    BY DEF Pursues
  <2>12. Unsettled(j, h, R, f)
    BY <2>9, <2>10, <2>11 DEF Unsettled
  <2>13. OwesRespawn(j)
    BY <1>6, <2>4 DEF OwesRespawn, Lost
  <2>14. Only(u, t, n) /\ Pursues(t.inst[n], h, R \cup RedsIn(t, n), f)
    BY <2>7, <2>8, <2>12, <2>13, OwedPursues
  <2> HIDE DEF t
  <2>15. Only(s, t, n)
    BY <2>8, <2>14 DEF Only
  <2> QED  BY <2>1, <2>14, <2>15, OnlyElsewhere DEF e
<1> QED  BY <1>3, <1>5, <1>6

LEMMA OnDrainCompletePursues ==
  ASSUME NEW s, NEW A, NEW G, Sound(s, A, G), NEW n \in DOMAIN s.inst, NEW g,
         NEW h, NEW R, NEW f, Pursues(s.inst[n], h, R, f)
  PROVE  LET t == OnDrainComplete(s, n, g)
         IN Elsewhere(s, t, n) /\ Pursues(t.inst[n], h, R \cup RedsIn(t, n), f)
<1> DEFINE i == s.inst[n]
           j == [i EXCEPT !.draining = i.draining \ {g}]
           t == Put(s, n, j)
<1>1. OnDrainComplete(s, n, g) = t
  BY DEF OnDrainComplete, Put
<1>2. IsPiped(j, i, i.pipe)
  BY InstanceFacts DEF Instance, IsPiped
<1> HIDE DEF j
<1>3. IsPut(t, s, n, j)
  BY PutFields
<1> HIDE DEF t
<1>4. Only(s, t, n) /\ t.inst[n] = j
  BY <1>3 DEF IsPut, Only
<1>5. Pursues(j, h, R, f)
  BY <1>2 DEF IsPiped, Pursues, Aware, HeadsFor, Serves
<1>6. Pursues(t.inst[n], h, R \cup RedsIn(t, n), f)
  BY <1>4, <1>5, PursuesGrows
<1> QED  BY <1>1, <1>4, <1>6, OnlyElsewhere

LEMMA OnRecoverPursues ==
  ASSUME NEW s, NEW A, NEW G, Sound(s, A, G), NEW n \in DOMAIN s.inst, NEW sha \in Sha,
         sha \in G[n], NEW R, NEW f, Pursues(s.inst[n], None, R, f)
  PROVE  LET t == OnRecover(s, n, sha)
         IN Elsewhere(s, t, n) /\ Pursues(t.inst[n], None, R \cup RedsIn(t, n), f)
<1> DEFINE i == s.inst[n]
           j == [i EXCEPT !.lastGreen = sha, !.needsRespawn = TRUE]
           u == Put(s, n, j)
           t == TryRespawn(u, n)
<1>1. CASE i.pipe # Idle \/ i.serving # None
  <2>1. OnRecover(s, n, sha) = s
    BY <1>1 DEF OnRecover
  <2>2. Elsewhere(s, s, n)
    BY DEF Elsewhere, Launches
  <2>3. Pursues(s.inst[n], None, R \cup RedsIn(s, n), f)
    BY PursuesGrows
  <2> QED  BY <2>1, <2>2, <2>3
<1>2. CASE ~(i.pipe # Idle \/ i.serving # None)
  <2>1. OnRecover(s, n, sha) = t
    BY <1>2 DEF OnRecover, Put
  <2>2. i \in Instance /\ Fits(i, n, Work(s, A), s.gen, G[n])
    BY InstanceFacts
  <2>3. i.pipe.at = "idle" /\ n \notin s.building
    BY <1>2, OutOfSlot DEF Idle
  <2>4. /\ j \in Instance /\ j.pipe = i.pipe /\ j.lastGreen = sha /\ j.needsRespawn = TRUE
        /\ j.serving = i.serving /\ j.lastRed = i.lastRed /\ j.pending = i.pending
    BY <2>2 DEF Instance
  <2> HIDE DEF j
  <2>5. Fits(j, n, Work(s, A), s.gen, G[n])
    BY <2>2, <2>4 DEF Fits
  <2>6. Sound(u, A, G)
    BY <2>3, <2>4, <2>5, PutSound
  <2>7. Only(s, u, n) /\ n \in DOMAIN u.inst /\ u.inst[n] = j
    <3>1. IsPut(u, s, n, j)
      BY PutFields
    <3> QED  BY <3>1 DEF IsPut, Only
  <2> HIDE DEF u
  <2>8. Unsettled(j, None, R, f)
    BY <1>2, <2>3, <2>4 DEF Pursues, Unsettled, Aware, Excused
  <2>9. OwesRespawn(j)
    BY <1>2, <2>4, NoneAssumption DEF OwesRespawn
  <2>10. Only(u, t, n) /\ Pursues(t.inst[n], None, R \cup RedsIn(t, n), f)
    BY <2>6, <2>7, <2>8, <2>9, OwedPursues
  <2> HIDE DEF t
  <2>11. Only(s, t, n)
    BY <2>7, <2>10 DEF Only
  <2> QED  BY <2>1, <2>10, <2>11, OnlyElsewhere DEF t
<1> QED  BY <1>1, <1>2

-----------------------------------------------------------------------------
(* What every step does to the newest heads.                               *)

HeadInv ==
  /\ newest \in [Name -> Sha \cup {None}]
  /\ red \in [Name -> SUBSET Sha]
  /\ flipped \in [Name -> BOOLEAN]
  /\ \A n \in Names : Pursues(machine.inst[n], newest[n], red[n], flipped[n])
  /\ \A n \in Name \ Names : newest[n] = None /\ red[n] = {} /\ flipped[n] = FALSE

LEMMA NewPursues ==
  ASSUME NEW R, NEW f
  PROVE  Pursues(NewInstance, None, R, f)
<1>1. /\ NewInstance.serving = None /\ NewInstance.lastRed = None
      /\ NewInstance.pending = None /\ NewInstance.pipe.at = "idle"
  BY DEF NewInstance, Idle
<1> QED  BY <1>1 DEF Pursues, Aware, Excused

LEMMA InitHeadInv == MInit => HeadInv
<1> SUFFICES ASSUME MInit PROVE HeadInv
  OBVIOUS
<1>1. PICK names \in SUBSET Name : machine = NewApp(names)
  BY DEF MInit
<1>2. machine.inst = [n \in names |-> NewInstance]
  BY <1>1 DEF NewApp
<1>3. /\ newest = [n \in Name |-> None] /\ red = [n \in Name |-> {}]
      /\ flipped = [n \in Name |-> FALSE]
  BY DEF MInit
<1>4. \A n \in Names : n \in Name /\ machine.inst[n] = NewInstance
  BY <1>2 DEF Names
<1> QED  BY <1>3, <1>4, NewPursues DEF HeadInv

\* The reds of a step are commits.
LEMMA RedsTypes ==
  ASSUME NEW s, NEW A, NEW G, Sound(s, A, G), NEW n
  PROVE  RedsIn(s, n) \in SUBSET Sha
<1>1. s.out \in Seq(Order)
  BY SoundFields
<1>2. \A o \in Orders(s) : o \in Order
  BY <1>1 DEF Orders
<1>3. \A o \in Order : o.act = "RecordRed" => o.sha \in Sha
  BY DEF Order
<1> QED  BY <1>2, <1>3 DEF RedsIn

\* An event of n: n pursues its head, and the others at most start a build.
LEMMA EventHeads ==
  ASSUME HeadInv, MachineInv', NEW n \in Name, NEW ev, NEW done, Step(n, ev, done),
         Elsewhere(machine, machine', n),
         n \in Names => Pursues(machine'.inst[n], newest'[n], red[n] \cup RedsIn(machine', n), flipped'[n]),
         n \notin Names => /\ newest' = newest /\ flipped' = flipped
                           /\ RedsIn(machine', n) = {},
         newest' \in [Name -> Sha \cup {None}], flipped' \in [Name -> BOOLEAN],
         \A m \in Name : m # n => newest'[m] = newest[m] /\ flipped'[m] = flipped[m]
  PROVE  HeadInv'
<1>1. Reds(n) = RedsIn(machine', n)
  BY DEF Reds, RedsIn
<1>2. red' = [red EXCEPT ![n] = red[n] \cup RedsIn(machine', n)]
  BY <1>1 DEF Step
<1>3. RedsIn(machine', n) \in SUBSET Sha
  BY RedsTypes DEF MachineInv
<1>4. /\ red' \in [Name -> SUBSET Sha] /\ red'[n] = red[n] \cup RedsIn(machine', n)
      /\ \A m \in Name : m # n => red'[m] = red[m]
  BY <1>2, <1>3 DEF HeadInv
<1>5. Names' = Names
  BY DEF Elsewhere, Names
<1>6. ASSUME NEW m \in Names
      PROVE  Pursues(machine'.inst[m], newest'[m], red'[m], flipped'[m])
  <2>1. m \in Name
    BY <1>5 DEF MachineInv, Sound, Shape, Names
  <2>2. CASE m = n
    BY <1>4, <2>2
  <2>3. CASE m # n
    <3>1. Launches(machine.inst[m], machine'.inst[m])
      BY <2>3 DEF Elsewhere, Names
    <3>2. Pursues(machine.inst[m], newest[m], red[m], flipped[m])
      BY DEF HeadInv
    <3>3. Pursues(machine'.inst[m], newest[m], red[m], flipped[m])
      BY <3>1, <3>2, LaunchesPursues
    <3> QED  BY <1>4, <2>1, <2>3, <3>3
  <2> QED  BY <2>2, <2>3
<1>7. ASSUME NEW m \in Name \ Names
      PROVE  newest'[m] = None /\ red'[m] = {} /\ flipped'[m] = FALSE
  <2>1. newest[m] = None /\ red[m] = {} /\ flipped[m] = FALSE
    BY DEF HeadInv
  <2> QED  BY <1>4, <2>1
<1> QED  BY <1>4, <1>5, <1>6, <1>7 DEF HeadInv

\* An event of n that leaves its newest head alone.
LEMMA SameHeads ==
  ASSUME HeadInv, MachineInv', NEW n \in Name, NEW ev, NEW done, Step(n, ev, done),
         newest' = newest, flipped' = flipped, n \in DOMAIN machine.inst,
         Elsewhere(Reset(machine), machine', n), Reset(machine).inst = machine.inst,
         Pursues(machine'.inst[n], newest[n], red[n] \cup RedsIn(machine', n), flipped[n])
  PROVE  HeadInv'
<1>1. Elsewhere(machine, machine', n)
  BY DEF Elsewhere
<1>2. newest \in [Name -> Sha \cup {None}] /\ flipped \in [Name -> BOOLEAN]
  BY DEF HeadInv
<1> QED  BY <1>1, <1>2, EventHeads DEF Names

\* A result nobody awaits.
LEMMA StaleHeads ==
  ASSUME HeadInv, MachineInv, MachineInv', NEW n \in Name, NEW ev, NEW done, Step(n, ev, done),
         newest' = newest, flipped' = flipped, machine' = Reset(machine)
  PROVE  HeadInv'
<1>1. machine'.inst = machine.inst /\ Orders(machine') = {}
  BY ResetFacts DEF MachineInv
<1>2. RedsIn(machine', n) = {}
  BY <1>1 DEF RedsIn
<1>3. Elsewhere(machine, machine', n)
  BY <1>1 DEF Elsewhere, Launches
<1>4. n \in Names => Pursues(machine'.inst[n], newest[n], red[n] \cup RedsIn(machine', n), flipped[n])
  BY <1>1, PursuesGrows DEF HeadInv
<1>5. newest \in [Name -> Sha \cup {None}] /\ flipped \in [Name -> BOOLEAN]
  BY DEF HeadInv
<1> QED  BY <1>2, <1>3, <1>4, <1>5, EventHeads

\* What the step lemmas below start from.
LEMMA FromResetHeads ==
  ASSUME HeadInv, MachineInv, NEW n \in DOMAIN machine.inst
  PROVE  /\ Sound(Reset(machine), attempts, green) /\ Reset(machine).inst = machine.inst
         /\ Ordered(Reset(machine)) = {}
         /\ n \in DOMAIN Reset(machine).inst /\ n \in Name
         /\ Pursues(Reset(machine).inst[n], newest[n], red[n], flipped[n])
<1>1. Sound(machine, attempts, green)
  BY DEF MachineInv
<1>2. /\ Sound(Reset(machine), attempts, green) /\ Reset(machine).inst = machine.inst
      /\ Ordered(Reset(machine)) = {}
  BY <1>1, ResetFacts
<1>3. n \in Name
  BY <1>1 DEF Sound, Shape
<1>4. Pursues(machine.inst[n], newest[n], red[n], flipped[n])
  BY DEF HeadInv, Names
<1> QED  BY <1>2, <1>3, <1>4

LEMMA HeadAdvancedHeads ==
  ASSUME HeadInv, MachineInv, MachineInv', NEW n \in Name, NEW sha \in Sha, HeadAdvanced(n, sha)
  PROVE  HeadInv'
<1> DEFINE r == Reset(machine)
           ev == [type |-> "HeadAdvanced", sha |-> sha]
           back == ComesBack(r.inst[n], sha)
<1>1. n \in DOMAIN machine.inst
  BY DEF HeadAdvanced, Names
<1>2. /\ Sound(r, attempts, green) /\ r.inst = machine.inst /\ n \in DOMAIN r.inst
      /\ Pursues(r.inst[n], newest[n], red[n], flipped[n])
  BY <1>1, FromResetHeads
<1>3. StepApp(machine, n, ev) = OnHead(r, n, sha)
  BY <1>2, StepAppIs
<1>4. Step(n, ev, {}) /\ newest' = [newest EXCEPT ![n] = sha]
  BY DEF HeadAdvanced
<1>5. machine' = OnHead(r, n, sha)
  BY <1>3, <1>4 DEF Step
<1>6. flipped' = [flipped EXCEPT ![n] = flipped[n] \/ back]
  BY <1>2 DEF HeadAdvanced, ComesBack
<1>7. flipped \in [Name -> BOOLEAN]
  BY DEF HeadInv
<1> HIDE DEF r, ev
<1>8. /\ newest' \in [Name -> Sha \cup {None}] /\ newest'[n] = sha
      /\ \A m \in Name : m # n => newest'[m] = newest[m]
  BY <1>4 DEF HeadInv
<1>9. back => flipped'[n]
  <2> HIDE DEF back
  <2> QED  BY <1>6, <1>7, Zenon
<1>10. \A m \in Name : m # n => flipped'[m] = flipped[m]
  <2> HIDE DEF back
  <2> QED  BY <1>6, <1>7, Zenon
<1>11. flipped' \in [Name -> BOOLEAN]
  <2> HIDE DEF back
  <2> QED  BY <1>6, <1>7
<1>12. /\ Elsewhere(r, machine', n)
       /\ Pursues(machine'.inst[n], sha, red[n] \cup RedsIn(machine', n), flipped'[n])
  <2> DEFINE h == newest[n]
             R == red[n]
             f == flipped[n]
             k == flipped'[n]
  <2>1. Pursues(r.inst[n], h, R, f) /\ (back => k = TRUE)
    BY <1>2, <1>9, <1>11
  <2> HIDE DEF h, R, f, k
  <2>2. Elsewhere(r, machine', n) /\ Pursues(machine'.inst[n], sha, R \cup RedsIn(machine', n), k)
    BY <1>2, <1>5, <2>1, OnHeadPursues
  <2> QED  BY <2>2 DEF R, k
<1>13. Pursues(machine'.inst[n], newest'[n], red[n] \cup RedsIn(machine', n), flipped'[n])
  BY <1>8, <1>12
<1>14. Elsewhere(machine, machine', n)
  BY <1>2, <1>12 DEF Elsewhere
<1>15. n \in Names
  BY <1>1 DEF Names
<1> QED  BY <1>4, <1>8, <1>10, <1>11, <1>13, <1>14, <1>15, EventHeads

LEMMA BuildFinishedHeads ==
  ASSUME HeadInv, MachineInv, MachineInv', NEW a \in attempts, NEW outcome \in BuildOutcome,
         BuildFinished(a, outcome)
  PROVE  HeadInv'
<1> DEFINE n == a.name
           r == Reset(machine)
           ev == [type |-> "BuildFinished", gen |-> a.gen, outcome |-> outcome]
<1>1. Sound(machine, attempts, green) /\ n \in Name /\ a.sha \in Sha
  BY AttemptFacts DEF MachineInv
<1>2. /\ Step(n, ev, {a}) /\ a.kind = "build" /\ newest' = newest /\ flipped' = flipped
  BY DEF BuildFinished
<1>3. r.inst = machine.inst
  BY <1>1, ResetFacts
<1>4. CASE n \notin DOMAIN machine.inst
  <2>1. StepApp(machine, n, ev) = r
    BY <1>3, <1>4, StepAppIs
  <2>2. machine' = Reset(machine)
    BY <1>2, <2>1 DEF Step
  <2> HIDE DEF n, ev
  <2> QED  BY <1>1, <1>2, <2>2, StaleHeads
<1>5. CASE n \in DOMAIN machine.inst
  <2>1. /\ Sound(r, attempts, green) /\ n \in DOMAIN r.inst /\ Ordered(r) = {}
        /\ Pursues(r.inst[n], newest[n], red[n], flipped[n])
    BY <1>5, FromResetHeads
  <2>2. machine' = OnBuildFinished(r, n, a.gen, outcome)
    <3>1. StepApp(machine, n, ev) = OnBuildFinished(r, n, a.gen, outcome)
      BY <2>1, StepAppBuild
    <3> QED  BY <1>2, <3>1 DEF Step
  <2>3. CASE ~Awaits(r, n, "building", a.gen)
    <3>1. machine' = Reset(machine)
      BY <2>2, <2>3 DEF OnBuildFinished
    <3> HIDE DEF n, ev
    <3> QED  BY <1>1, <1>2, <3>1, StaleHeads
  <2>4. CASE Awaits(r, n, "building", a.gen)
    <3>1. r.inst[n].pipe.sha = a.sha
      <4>1. Fits(r.inst[n], n, Work(r, attempts), r.gen, green[n])
        BY <2>1 DEF Sound
      <4>2. a \in Work(r, attempts)
        BY DEF Work
      <4>3. Matches(a, r.inst[n].pipe)
        BY <4>1, <4>2 DEF Fits
      <4> QED  BY <1>2, <2>4, <4>3 DEF Awaits, Matches
    <3>2. Awaits(machine, n, "building", a.gen) /\ n \in Names
      BY <1>3, <1>5, <2>4 DEF Awaits, Names
    <3>3. green' = [green EXCEPT ![n] = IF outcome = "green" THEN green[n] \cup {a.sha} ELSE green[n]]
      BY <3>2 DEF BuildFinished
    <3>4. green \in [Name -> SUBSET Sha]
      BY DEF MachineInv
    <3> HIDE DEF r, ev, n
    <3>5. /\ \A m \in Name : green[m] \subseteq green'[m]
          /\ outcome = "green" => a.sha \in green'[n]
      BY <1>1, <3>3, <3>4
    <3>6. Sound(r, attempts, green')
      <4>1. DOMAIN r.inst \in SUBSET Name
        BY <2>1 DEF Sound, Shape
      <4> QED  BY <2>1, <3>5, <4>1, Narrowed DEF Work
    <3>7. outcome = "green" => r.inst[n].pipe.sha \in green'[n]
      BY <3>1, <3>5
    <3>8. /\ Elsewhere(r, machine', n)
          /\ Pursues(machine'.inst[n], newest[n], red[n] \cup RedsIn(machine', n), flipped[n])
      <4> DEFINE G == green'
                 h == newest[n]
                 R == red[n]
                 f == flipped[n]
      <4>1. Sound(r, attempts, G) /\ (outcome = "green" => r.inst[n].pipe.sha \in G[n])
            /\ Pursues(r.inst[n], h, R, f)
        BY <2>1, <3>6, <3>7
      <4> HIDE DEF G, h, R, f
      <4>2. Elsewhere(r, machine', n) /\ Pursues(machine'.inst[n], h, R \cup RedsIn(machine', n), f)
        BY <2>1, <2>2, <2>4, <4>1, OnBuildFinishedPursues
      <4> QED  BY <4>2 DEF h, R, f
    <3> QED  BY <1>1, <1>2, <1>3, <1>5, <3>8, SameHeads DEF r
  <2> QED  BY <2>3, <2>4
<1> QED  BY <1>4, <1>5

LEMMA ProbedHeads ==
  ASSUME HeadInv, MachineInv, MachineInv', NEW a \in attempts, NEW type \in {"ProbeSucceeded", "ProbeFailed"},
         Probed(a, type)
  PROVE  HeadInv'
<1> DEFINE n == a.name
           r == Reset(machine)
           ev == [type |-> type, gen |-> a.gen]
<1>1. Sound(machine, attempts, green) /\ n \in Name
  BY AttemptFacts DEF MachineInv
<1>2. Step(n, ev, {a}) /\ newest' = newest /\ flipped' = flipped
  BY DEF Probed
<1>3. r.inst = machine.inst
  BY <1>1, ResetFacts
<1>4. CASE n \notin DOMAIN machine.inst
  <2>1. StepApp(machine, n, ev) = r
    BY <1>3, <1>4, StepAppIs, ZenonT(60)
  <2>2. machine' = Reset(machine)
    BY <1>2, <2>1 DEF Step
  <2> HIDE DEF n, ev
  <2> QED  BY <1>1, <1>2, <2>2, StaleHeads
<1>5. CASE n \in DOMAIN machine.inst
  <2>1. /\ Sound(r, attempts, green) /\ n \in DOMAIN r.inst
        /\ Pursues(r.inst[n], newest[n], red[n], flipped[n])
    BY <1>5, FromResetHeads
  <2>2. CASE type = "ProbeSucceeded" /\ ~Awaits(r, n, "probing", a.gen)
    <3>1. machine' = OnProbeSucceeded(r, n, a.gen)
      <4>1. StepApp(machine, n, [type |-> "ProbeSucceeded", gen |-> a.gen]) = OnProbeSucceeded(r, n, a.gen)
        BY <2>1, StepAppIs
      <4> QED  BY <1>2, <2>2, <4>1 DEF Step
    <3>2. machine' = Reset(machine)
      BY <2>2, <3>1 DEF OnProbeSucceeded
    <3> HIDE DEF n, ev
    <3> QED  BY <1>1, <1>2, <3>2, StaleHeads
  <2>3. CASE type = "ProbeSucceeded" /\ Awaits(r, n, "probing", a.gen)
    <3>1. machine' = OnProbeSucceeded(r, n, a.gen)
      <4>1. StepApp(machine, n, [type |-> "ProbeSucceeded", gen |-> a.gen]) = OnProbeSucceeded(r, n, a.gen)
        BY <2>1, StepAppIs
      <4> QED  BY <1>2, <2>3, <4>1 DEF Step
    <3> HIDE DEF r, ev, n
    <3>2. /\ Elsewhere(r, machine', n)
          /\ Pursues(machine'.inst[n], newest[n], red[n] \cup RedsIn(machine', n), flipped[n])
      BY <2>1, <2>3, <3>1, OnProbeSucceededPursues
    <3> QED  BY <1>1, <1>2, <1>3, <1>5, <3>2, SameHeads DEF r
  <2>4. CASE type = "ProbeFailed"
    <3>1. machine' = OnProbeFailed(r, n, a.gen)
      <4>1. StepApp(machine, n, [type |-> "ProbeFailed", gen |-> a.gen]) = OnProbeFailed(r, n, a.gen)
        BY <2>1, StepAppIs
      <4> QED  BY <1>2, <2>4, <4>1 DEF Step
    <3> HIDE DEF r, ev, n
    <3>2. /\ Elsewhere(r, machine', n)
          /\ Pursues(machine'.inst[n], newest[n], red[n] \cup RedsIn(machine', n), flipped[n])
      BY <2>1, <3>1, OnProbeFailedPursues
    <3> QED  BY <1>1, <1>2, <1>3, <1>5, <3>2, SameHeads DEF r
  <2> QED  BY <2>2, <2>3, <2>4
<1> QED  BY <1>4, <1>5

LEMMA ServingExitedHeads ==
  ASSUME HeadInv, MachineInv, MachineInv', NEW n \in Names, NEW g, ServingExited(n, g)
  PROVE  HeadInv'
<1> DEFINE r == Reset(machine)
           ev == [type |-> "ServingExited", gen |-> g]
<1>1. /\ Sound(r, attempts, green) /\ r.inst = machine.inst /\ n \in DOMAIN r.inst /\ n \in Name
      /\ Pursues(r.inst[n], newest[n], red[n], flipped[n])
  BY FromResetHeads DEF Names
<1>2. Step(n, ev, {}) /\ newest' = newest /\ flipped' = flipped
  BY DEF ServingExited
<1>3. machine' = OnServingExited(r, n, g)
  <2>1. StepApp(machine, n, ev) = OnServingExited(r, n, g)
    BY <1>1, StepAppIs
  <2> QED  BY <1>2, <2>1 DEF Step
<1> HIDE DEF r, ev
<1>4. /\ Elsewhere(r, machine', n)
      /\ Pursues(machine'.inst[n], newest[n], red[n] \cup RedsIn(machine', n), flipped[n])
  BY <1>1, <1>3, OnServingExitedPursues
<1> QED  BY <1>1, <1>2, <1>4, SameHeads DEF r, Names

LEMMA DrainCompleteHeads ==
  ASSUME HeadInv, MachineInv, MachineInv', NEW n \in Names, NEW g, DrainComplete(n, g)
  PROVE  HeadInv'
<1> DEFINE r == Reset(machine)
           ev == [type |-> "DrainComplete", gen |-> g]
<1>1. /\ Sound(r, attempts, green) /\ r.inst = machine.inst /\ n \in DOMAIN r.inst /\ n \in Name
      /\ Pursues(r.inst[n], newest[n], red[n], flipped[n])
  BY FromResetHeads DEF Names
<1>2. Step(n, ev, {}) /\ newest' = newest /\ flipped' = flipped
  BY DEF DrainComplete
<1>3. machine' = OnDrainComplete(r, n, g)
  <2>1. StepApp(machine, n, ev) = OnDrainComplete(r, n, g)
    BY <1>1, StepAppIs
  <2> QED  BY <1>2, <2>1 DEF Step
<1> HIDE DEF r, ev
<1>4. /\ Elsewhere(r, machine', n)
      /\ Pursues(machine'.inst[n], newest[n], red[n] \cup RedsIn(machine', n), flipped[n])
  BY <1>1, <1>3, OnDrainCompletePursues
<1> QED  BY <1>1, <1>2, <1>4, SameHeads DEF r, Names

LEMMA RecoverHeads ==
  ASSUME HeadInv, MachineInv, MachineInv', NEW n \in Name, NEW sha \in Sha, Recover(n, sha)
  PROVE  HeadInv'
<1> DEFINE r == Reset(machine)
           ev == [type |-> "RecoverFromPointer", sha |-> sha]
<1>1. n \in DOMAIN machine.inst /\ newest[n] = None
  BY DEF Recover, Names
<1>2. /\ Sound(r, attempts, green) /\ r.inst = machine.inst /\ n \in DOMAIN r.inst
      /\ Ordered(r) = {} /\ Pursues(r.inst[n], None, red[n], flipped[n])
  BY <1>1, FromResetHeads
<1>3. Step(n, ev, {}) /\ newest' = newest /\ flipped' = flipped
  BY DEF Recover
<1>4. machine' = OnRecover(r, n, sha)
  <2>1. StepApp(machine, n, ev) = OnRecover(r, n, sha)
    BY <1>2, StepAppIs
  <2> QED  BY <1>3, <2>1 DEF Step
<1>5. sha \in green'[n] /\ \A m \in Name : green[m] \subseteq green'[m]
  BY DEF Recover, MachineInv
<1> HIDE DEF r, ev
<1>6. Sound(r, attempts, green')
  <2>1. DOMAIN r.inst \in SUBSET Name
    BY <1>2 DEF Sound, Shape
  <2> QED  BY <1>2, <1>5, <2>1, Narrowed DEF Work
<1>7. /\ Elsewhere(r, machine', n)
      /\ Pursues(machine'.inst[n], newest[n], red[n] \cup RedsIn(machine', n), flipped[n])
  BY <1>1, <1>2, <1>4, <1>5, <1>6, OnRecoverPursues
<1> QED  BY <1>1, <1>2, <1>3, <1>7, SameHeads DEF r

LEMMA AddHeads ==
  ASSUME HeadInv, MachineInv, NEW n \in Name, Add(n)
  PROVE  HeadInv'
<1>1. /\ n \notin DOMAIN machine.inst /\ machine' = AddInstance(machine, n)
      /\ newest' = newest /\ red' = red /\ flipped' = flipped
  BY DEF Add, Names, history
<1>2. /\ DOMAIN machine'.inst = DOMAIN machine.inst \cup {n} /\ machine'.inst[n] = NewInstance
      /\ \A m \in DOMAIN machine.inst : machine'.inst[m] = machine.inst[m]
  BY <1>1, AddSound DEF MachineInv
<1>3. newest[n] = None
  BY <1>1 DEF HeadInv, Names
<1>4. Pursues(machine'.inst[n], newest[n], red[n], flipped[n])
  BY <1>2, <1>3, NewPursues
<1> QED  BY <1>1, <1>2, <1>4 DEF HeadInv, Names

LEMMA RemoveHeads ==
  ASSUME HeadInv, MachineInv, NEW n \in Name, Remove(n)
  PROVE  HeadInv'
<1>1. /\ machine' = RemoveInstance(machine, n)
      /\ newest' = [newest EXCEPT ![n] = None] /\ red' = [red EXCEPT ![n] = {}]
      /\ flipped' = [flipped EXCEPT ![n] = FALSE]
  BY DEF Remove, Forget
<1>2. /\ newest \in [Name -> Sha \cup {None}] /\ red \in [Name -> SUBSET Sha]
      /\ flipped \in [Name -> BOOLEAN]
  BY DEF HeadInv
<1>3. /\ newest' \in [Name -> Sha \cup {None}] /\ red' \in [Name -> SUBSET Sha]
      /\ flipped' \in [Name -> BOOLEAN]
      /\ newest'[n] = None /\ red'[n] = {} /\ flipped'[n] = FALSE
      /\ \A m \in Name : m # n => /\ newest'[m] = newest[m] /\ red'[m] = red[m]
                                  /\ flipped'[m] = flipped[m]
  BY <1>1, <1>2
<1>4. /\ DOMAIN machine'.inst = DOMAIN machine.inst \ {n}
      /\ \A m \in DOMAIN machine'.inst : machine'.inst[m] = machine.inst[m]
  <2> DEFINE t == RemoveInstance(machine, n)
  <2>1. Sound(machine, attempts, green) /\ \A m \in DOMAIN machine.inst : m # n => green[m] = green[m]
    BY DEF MachineInv
  <2>2. /\ DOMAIN t.inst = DOMAIN machine.inst \ {n}
        /\ \A m \in DOMAIN t.inst : t.inst[m] = machine.inst[m]
    BY <2>1, RemoveSound
  <2> QED  BY <1>1, <2>2
<1>5. DOMAIN machine.inst \in SUBSET Name
  BY DEF MachineInv, Sound, Shape
<1>6. ASSUME NEW m \in DOMAIN machine'.inst
      PROVE  Pursues(machine'.inst[m], newest'[m], red'[m], flipped'[m])
  <2>1. m # n /\ m \in Name /\ m \in DOMAIN machine.inst /\ machine'.inst[m] = machine.inst[m]
    BY <1>4, <1>5
  <2>2. Pursues(machine.inst[m], newest[m], red[m], flipped[m])
    BY <2>1 DEF HeadInv, Names
  <2> QED  BY <1>3, <2>1, <2>2
<1>7. ASSUME NEW m \in Name \ DOMAIN machine'.inst
      PROVE  newest'[m] = None /\ red'[m] = {} /\ flipped'[m] = FALSE
  <2>1. CASE m = n
    BY <1>3, <2>1
  <2>2. CASE m # n
    BY <1>3, <1>4, <2>2 DEF HeadInv, Names
  <2> QED  BY <2>1, <2>2
<1> QED  BY <1>3, <1>6, <1>7 DEF HeadInv, Names

LEMMA NextHeads ==
  ASSUME HeadInv, MachineInv, MachineInv', [MNext]_mvars
  PROVE  HeadInv'
<1>1. ASSUME NEW n \in Name, Add(n) \/ Remove(n) PROVE HeadInv'
  BY <1>1, AddHeads, RemoveHeads
<1>2. ASSUME NEW n \in Name, NEW sha \in Sha, HeadAdvanced(n, sha) \/ Recover(n, sha)
      PROVE  HeadInv'
  BY <1>2, HeadAdvancedHeads, RecoverHeads
<1>3. ASSUME NEW a \in attempts, NEW outcome \in BuildOutcome, BuildFinished(a, outcome)
      PROVE  HeadInv'
  BY <1>3, BuildFinishedHeads
<1>4. ASSUME NEW a \in attempts, NEW type \in {"ProbeSucceeded", "ProbeFailed"}, Probed(a, type)
      PROVE  HeadInv'
  BY <1>4, ProbedHeads
<1>5. ASSUME NEW n \in Names, NEW g \in Children(n), ServingExited(n, g) PROVE HeadInv'
  BY <1>5, ServingExitedHeads
<1>6. ASSUME NEW n \in Names, NEW g \in machine.inst[n].draining, DrainComplete(n, g) PROVE HeadInv'
  BY <1>6, DrainCompleteHeads
<1>7. CASE UNCHANGED mvars
  BY <1>7 DEF mvars, history, HeadInv, Names
<1> QED  BY <1>1, <1>2, <1>3, <1>4, <1>5, <1>6, <1>7 DEF MNext

(* However the head of a branch moves while a commit is built, probed or   *)
(* served, and however builds, probes and children fail, an instance with  *)
(* nothing in hand serves its newest head or has recorded it red: on_head, *)
(* settle_idle, requeue and on_serving_exited hand the newest commit on    *)
(* and drop it only for a verdict.  The exception is a head that comes     *)
(* back to the commit in hand (on_head).                                   *)
THEOREM NewestIsNeverForgotten == MSpec => []NewestIsJudged
<1>1. HeadInv /\ MachineInv /\ MachineInv' /\ [MNext]_mvars => HeadInv'
  BY NextHeads
<1>2. HeadInv => NewestIsJudged
  <2> SUFFICES ASSUME HeadInv, NEW n \in Names
               PROVE  flipped[n] \/ Judged(n)
    BY DEF NewestIsJudged
  <2> DEFINE i == machine.inst[n]
  <2>1. Pursues(i, newest[n], red[n], flipped[n])
    BY DEF HeadInv
  <2>2. i.pipe = Idle => i.pipe.at = "idle"
    BY DEF Idle
  <2> QED  BY <2>1, <2>2 DEF Judged, Pursues, Excused, HeadsFor
<1> QED  BY <1>1, <1>2, InitHeadInv, AlwaysIInv, PTL DEF MSpec
=============================================================================
