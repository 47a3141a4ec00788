-------------------------- MODULE Coalescer_proofs --------------------------
(***************************************************************************)
(* The batch coalescer, for every number of threads, keys and members, and *)
(* for every limit.                                                        *)
(*                                                                         *)
(* The gate: the count and the limit follow from Claim, which tests and    *)
(* takes a slot in one hold of the lock; that a key has one leader follows *)
(* from led, which Elect reads and writes in one hold, and from the key of *)
(* a leader staying what it is until FinishLeader gives it back.           *)
(*                                                                         *)
(* The answers: a waiter is in the queue of its key or in the group of its *)
(* leader, once, until its answer is written; so its request stays, and    *)
(* the report of a group, which tells every member of every waiter in      *)
(* order, is cut where the members of one waiter end.                      *)
(*                                                                         *)
(* The culprits: with one slot, no run starts between the run that records *)
(* a cooldown and the drain that respects it.                              *)
(***************************************************************************)
EXTENDS Coalescer, FiniteSetTheorems, SequenceTheorems, WellFoundedInduction, TLAPS

Stage == {"idle", "look", "locked", "waits", "gate", "drain", "run", "release", "share",
          "finish"}

Types ==
  /\ pc \in [Thread -> Stage]
  /\ DOMAIN req = Thread /\ DOMAIN group = Thread

Slots == {t \in Thread : HoldsSlot(t)}

\* inflight counts the slots, within the limit.
Counted == IsFiniteSet(Slots) /\ inflight = Cardinality(Slots)
Limited == Limit > 0 => inflight <= Limit

OneLeader == \A t, u \in Thread : Leads(t) /\ Leads(u) /\ KeyOf(t) = KeyOf(u) => t = u
LedBy == \A k : k \in led <=> \E t \in Thread : Leads(t) /\ KeyOf(t) = k

RunsSomething == \A t \in Thread : pc[t] = "run" => group[t] # <<>>

GateInv == Types /\ Counted /\ Limited /\ OneLeader /\ LedBy /\ RunsSomething

-----------------------------------------------------------------------------
LEMMA GateInvImplies == GateInv => SlotsAreRuns
  <1> SUFFICES ASSUME GateInv PROVE SlotsAreRuns
    OBVIOUS
  <1>1. led = {KeyOf(t) : t \in {u \in Thread : Leads(u)}}
    BY DEF GateInv, LedBy
  <1> QED
    BY <1>1 DEF GateInv, Counted, Limited, Slots, OneLeader, RunsSomething, SlotsAreRuns

LEMMA GateInvInit == Init => GateInv
  <1> SUFFICES ASSUME Init PROVE GateInv
    OBVIOUS
  <1>1. Types
    BY DEF Init, Types, Stage
  <1>2. Slots = {}
    BY DEF Init, Slots, HoldsSlot
  <1>3. Counted
    BY <1>2, FS_EmptySet DEF Init, Counted
  <1>4. Limited
    BY CoalescerAssumption DEF Init, Limited
  <1>5. OneLeader /\ LedBy
    BY DEF Init, OneLeader, LedBy, Leads
  <1>6. RunsSomething
    BY DEF Init, RunsSomething
  <1> QED
    BY <1>1, <1>3, <1>4, <1>5, <1>6 DEF GateInv

-----------------------------------------------------------------------------
\* A slot is taken by one thread, given back by one thread, or none moves.
LEMMA SlotTaken ==
  ASSUME Counted, NEW t, t \notin Slots, Slots' = Slots \cup {t}, inflight' = inflight + 1
  PROVE  Counted'
  BY FS_AddElement DEF Counted

LEMMA SlotGiven ==
  ASSUME Counted, NEW t, t \in Slots, Slots' = Slots \ {t}, inflight' = inflight - 1
  PROVE  Counted'
  BY FS_RemoveElement DEF Counted

LEMMA SlotsStay ==
  ASSUME Counted, Slots' = Slots, inflight' = inflight
  PROVE  Counted'
  BY DEF Counted

LEMMA CountIsNat == Counted => inflight \in Nat
  BY FS_CardinalityType DEF Counted

\* Nobody starts or stops to lead, and who leads keeps its key.
LEMMA LeadersStay ==
  ASSUME OneLeader, LedBy, led' = led,
         \A u \in Thread : Leads(u)' <=> Leads(u),
         \A u \in Thread : Leads(u) => KeyOf(u)' = KeyOf(u)
  PROVE  OneLeader' /\ LedBy'
  BY DEF OneLeader, LedBy

-----------------------------------------------------------------------------
LEMMA SubmitKeeps ==
  ASSUME GateInv, NEW t \in Thread, NEW r, Submit(t, r)
  PROVE  GateInv'
  <1> USE DEF GateInv, Types, Submit, Goto, gate, runs
  <1>1. Types'
    BY DEF Stage
  <1>2. Slots' = Slots
    BY DEF Slots, HoldsSlot
  <1>3. Counted' /\ Limited'
    BY <1>2, SlotsStay DEF Limited
  <1>4. OneLeader' /\ LedBy'
    BY LeadersStay DEF Leads, KeyOf
  <1>5. RunsSomething'
    BY DEF RunsSomething
  <1> QED
    BY <1>1, <1>3, <1>4, <1>5

\* A thread that does not lead goes to a stage where it does not lead either.
LEMMA FollowerMoves ==
  ASSUME GateInv, NEW t \in Thread, ~Leads(t),
         NEW s \in {"idle", "locked", "waits"}, Goto(t, s),
         req' = req \/ req' = [req EXCEPT ![t] = None],
         UNCHANGED <<led, inflight, group>>
  PROVE  GateInv'
  <1> USE DEF GateInv, Types, Goto
  <1>1. Types'
    BY DEF Stage
  <1>2. Slots' = Slots
    BY DEF Slots, HoldsSlot, Leads
  <1>3. Counted' /\ Limited'
    BY <1>2, SlotsStay DEF Limited
  <1>4. OneLeader' /\ LedBy'
    BY LeadersStay DEF Leads, KeyOf
  <1>5. RunsSomething'
    BY DEF RunsSomething
  <1> QED
    BY <1>1, <1>3, <1>4, <1>5

LEMMA LookKeeps ==
  ASSUME GateInv, NEW t \in Thread, Look(t)
  PROVE  GateInv'
  <1>1. ~Leads(t)
    BY DEF Look, Leads
  <1>2. UNCHANGED <<led, inflight, group>>
    BY DEF Look, queues, gate, runs
  <1>3. CASE Goto(t, "idle") /\ req' = [req EXCEPT ![t] = None]
    BY <1>1, <1>2, <1>3, FollowerMoves
  <1>4. CASE Goto(t, "locked") /\ req' = req
    BY <1>1, <1>2, <1>4, FollowerMoves
  <1> QED
    BY <1>3, <1>4 DEF Look, Return

LEMMA ElectKeeps ==
  ASSUME GateInv, NEW t \in Thread, Elect(t)
  PROVE  GateInv'
  <1>1. ~Leads(t) /\ UNCHANGED <<inflight, group>>
    BY DEF Elect, Leads, gate, runs
  <1>2. CASE Return(t) /\ led' = led
    BY <1>1, <1>2, FollowerMoves DEF Return
  <1>3. CASE Park(t, "waits") /\ UNCHANGED <<led, req>>
    BY <1>1, <1>3, FollowerMoves DEF Park
  <1>4. CASE /\ KeyOf(t) \in open \ led
             /\ led' = led \cup {KeyOf(t)}
             /\ Goto(t, "gate")
             /\ req' = req
    <2> USE <1>4 DEF GateInv, Types, Goto
    <2>1. Types'
      BY <1>1 DEF Stage
    <2>2. Slots' = Slots
      BY <1>1 DEF Slots, HoldsSlot, Leads
    <2>3. Counted' /\ Limited'
      BY <1>1, <2>2, SlotsStay DEF Limited
    <2>4. \A u \in Thread : KeyOf(u)' = KeyOf(u) /\ (Leads(u)' <=> Leads(u) \/ u = t)
      BY DEF Leads, KeyOf
    <2>5. \A u \in Thread : Leads(u) => KeyOf(u) # KeyOf(t)
      BY DEF LedBy
    <2>6. OneLeader'
      BY <2>4, <2>5 DEF OneLeader
    <2>7. LedBy'
      BY <2>4 DEF LedBy
    <2>8. RunsSomething'
      BY <1>1 DEF RunsSomething
    <2> QED
      BY <2>1, <2>3, <2>6, <2>7, <2>8
  <1> QED
    BY <1>2, <1>3, <1>4 DEF Elect

-----------------------------------------------------------------------------
\* A leader that stays the leader of its key: only its slot and group matter.
LEMMA LeaderMoves ==
  ASSUME GateInv, NEW t \in Thread, Leads(t),
         NEW s \in {"gate", "drain", "run", "release", "share", "finish"}, Goto(t, s),
         UNCHANGED <<led, req>>
  PROVE  /\ pc' \in [Thread -> Stage] /\ DOMAIN req' = Thread
         /\ OneLeader' /\ LedBy'
         /\ \A u \in Thread : u # t => pc'[u] = pc[u]
         /\ pc'[t] = s
  <1> USE DEF GateInv, Types, Goto
  <1>1. pc' \in [Thread -> Stage] /\ DOMAIN req' = Thread
    BY DEF Stage
  <1>2. \A u \in Thread : (Leads(u)' <=> Leads(u)) /\ KeyOf(u)' = KeyOf(u)
    BY DEF Leads, KeyOf
  <1>3. OneLeader' /\ LedBy'
    BY <1>2, LeadersStay
  <1> QED
    BY <1>1, <1>3

LEMMA ClaimKeeps ==
  ASSUME GateInv, NEW t \in Thread, Claim(t)
  PROVE  GateInv'
  <1>1. Leads(t) /\ pc[t] = "gate" /\ UNCHANGED <<led, req, group>>
    BY DEF Claim, Leads, queues, runs
  <1>2. CASE Open /\ inflight' = inflight + 1 /\ Goto(t, "drain")
    <2>1. /\ Types' /\ OneLeader' /\ LedBy'
          /\ \A u \in Thread : u # t => pc'[u] = pc[u]
          /\ pc'[t] = "drain"
      BY <1>1, <1>2, LeaderMoves DEF GateInv, Types
    <2>2. t \notin Slots /\ Slots' = Slots \cup {t}
      BY <1>1, <2>1 DEF Slots, HoldsSlot
    <2>3. Counted'
      BY <1>2, <2>2, SlotTaken DEF GateInv
    <2>4. Limited'
      BY <1>2, CountIsNat, CoalescerAssumption DEF Limited, Open, GateInv
    <2>5. RunsSomething'
      BY <1>1, <2>1 DEF RunsSomething, GateInv
    <2> QED
      BY <2>1, <2>3, <2>4, <2>5 DEF GateInv
  <1>3. CASE Park(t, "gate") /\ inflight' = inflight
    <2>1. /\ Types' /\ OneLeader' /\ LedBy'
          /\ \A u \in Thread : u # t => pc'[u] = pc[u]
          /\ pc'[t] = "gate"
      BY <1>1, <1>3, LeaderMoves DEF GateInv, Types, Park
    <2>2. Slots' = Slots
      BY <1>1, <2>1 DEF Slots, HoldsSlot
    <2>3. Counted' /\ Limited'
      BY <1>3, <2>2, SlotsStay DEF GateInv, Limited
    <2>4. RunsSomething'
      BY <1>1, <2>1 DEF RunsSomething, GateInv
    <2> QED
      BY <2>1, <2>3, <2>4 DEF GateInv
  <1> QED
    BY <1>2, <1>3 DEF Claim

\* A slot given back: the count stays within the limit.
LEMMA GivenIsLimited ==
  ASSUME GateInv, inflight' = inflight - 1
  PROVE  Limited'
  BY CountIsNat, CoalescerAssumption DEF GateInv, Limited

LEMMA DrainGroupKeeps ==
  ASSUME GateInv, NEW t \in Thread, DrainGroup(t)
  PROVE  GateInv'
  <1> DEFINE g == Drained(queue[KeyOf(t)])
  <1>1. /\ Leads(t) /\ pc[t] = "drain" /\ UNCHANGED <<led, req>>
        /\ group' = [group EXCEPT ![t] = g]
        /\ \/ g = <<>> /\ inflight' = inflight - 1 /\ Goto(t, "finish")
           \/ g # <<>> /\ inflight' = inflight /\ Goto(t, "run")
    BY DEF DrainGroup, Leads
  <1> HIDE DEF g
  <1>2. DOMAIN group' = Thread /\ group'[t] = g /\ \A u \in Thread : u # t => group'[u] = group[u]
    BY <1>1 DEF GateInv, Types
  <1>3. CASE g = <<>> /\ inflight' = inflight - 1 /\ Goto(t, "finish")
    <2>1. /\ Types' /\ OneLeader' /\ LedBy'
          /\ \A u \in Thread : u # t => pc'[u] = pc[u]
          /\ pc'[t] = "finish"
      BY <1>1, <1>2, <1>3, LeaderMoves DEF Types
    <2>2. t \in Slots /\ Slots' = Slots \ {t}
      BY <1>1, <2>1 DEF Slots, HoldsSlot
    <2>3. Counted' /\ Limited'
      BY <1>3, <2>2, SlotGiven, GivenIsLimited DEF GateInv
    <2>4. RunsSomething'
      BY <1>2, <2>1 DEF RunsSomething, GateInv
    <2> QED
      BY <2>1, <2>3, <2>4 DEF GateInv
  <1>4. CASE g # <<>> /\ inflight' = inflight /\ Goto(t, "run")
    <2>1. /\ Types' /\ OneLeader' /\ LedBy'
          /\ \A u \in Thread : u # t => pc'[u] = pc[u]
          /\ pc'[t] = "run"
      BY <1>1, <1>2, <1>4, LeaderMoves DEF Types
    <2>2. Slots' = Slots
      BY <1>1, <2>1 DEF Slots, HoldsSlot
    <2>3. Counted' /\ Limited'
      BY <1>4, <2>2, SlotsStay DEF GateInv, Limited
    <2>4. RunsSomething'
      BY <1>2, <1>4, <2>1 DEF RunsSomething, GateInv
    <2> QED
      BY <2>1, <2>3, <2>4 DEF GateInv
  <1> QED
    BY <1>1, <1>3, <1>4

LEMMA RunKeeps ==
  ASSUME GateInv, NEW t \in Thread, Run(t)
  PROVE  GateInv'
  <1>1. /\ Leads(t) /\ pc[t] = "run" /\ Goto(t, "release")
        /\ UNCHANGED <<led, req, group, inflight>>
    BY DEF Run, Leads, queues
  <1>2. /\ Types' /\ OneLeader' /\ LedBy'
        /\ \A u \in Thread : u # t => pc'[u] = pc[u]
        /\ pc'[t] = "release"
    BY <1>1, LeaderMoves DEF GateInv, Types
  <1>3. Slots' = Slots
    BY <1>1, <1>2 DEF Slots, HoldsSlot
  <1>4. Counted' /\ Limited'
    BY <1>1, <1>3, SlotsStay DEF GateInv, Limited
  <1>5. RunsSomething'
    BY <1>1, <1>2 DEF RunsSomething, GateInv
  <1> QED
    BY <1>2, <1>4, <1>5 DEF GateInv

LEMMA ReleaseKeeps ==
  ASSUME GateInv, NEW t \in Thread, Release(t)
  PROVE  GateInv'
  <1>1. /\ Leads(t) /\ pc[t] = "release" /\ Goto(t, "share")
        /\ inflight' = inflight - 1 /\ UNCHANGED <<led, req, group>>
    BY DEF Release, Leads, queues, runs
  <1>2. /\ Types' /\ OneLeader' /\ LedBy'
        /\ \A u \in Thread : u # t => pc'[u] = pc[u]
        /\ pc'[t] = "share"
    BY <1>1, LeaderMoves DEF GateInv, Types
  <1>3. t \in Slots /\ Slots' = Slots \ {t}
    BY <1>1, <1>2 DEF Slots, HoldsSlot
  <1>4. Counted' /\ Limited'
    BY <1>1, <1>3, SlotGiven, GivenIsLimited DEF GateInv
  <1>5. RunsSomething'
    BY <1>1, <1>2 DEF RunsSomething, GateInv
  <1> QED
    BY <1>2, <1>4, <1>5 DEF GateInv

LEMMA DistributeKeeps ==
  ASSUME GateInv, NEW t \in Thread, Distribute(t)
  PROVE  GateInv'
  <1> DEFINE rest == Tail(group[t])
  <1>1. /\ Leads(t) /\ pc[t] = "share" /\ UNCHANGED <<led, req, inflight>>
        /\ group' = [group EXCEPT ![t] = rest]
        /\ Goto(t, "finish") \/ pc' = pc
    BY DEF Distribute, Leads, queues, gate
  <1> HIDE DEF rest
  <1>2. pc' = pc => Goto(t, "share")
    BY <1>1 DEF Goto, GateInv, Types
  <1>3. \E s \in {"share", "finish"} : Goto(t, s)
    BY <1>1, <1>2
  <1>4. PICK s \in {"share", "finish"} : Goto(t, s)
    BY <1>3
  <1>5. DOMAIN group' = Thread /\ \A u \in Thread : u # t => group'[u] = group[u]
    BY <1>1 DEF GateInv, Types
  <1>6. /\ Types' /\ OneLeader' /\ LedBy'
        /\ \A u \in Thread : u # t => pc'[u] = pc[u]
        /\ pc'[t] = s
    BY <1>1, <1>4, <1>5, LeaderMoves DEF Types
  <1>7. Slots' = Slots
    BY <1>1, <1>6 DEF Slots, HoldsSlot
  <1>8. Counted' /\ Limited'
    BY <1>1, <1>7, SlotsStay DEF GateInv, Limited
  <1>9. RunsSomething'
    BY <1>5, <1>6 DEF RunsSomething, GateInv
  <1> QED
    BY <1>6, <1>8, <1>9 DEF GateInv

LEMMA FinishLeaderKeeps ==
  ASSUME GateInv, NEW t \in Thread, FinishLeader(t)
  PROVE  GateInv'
  <1>1. /\ Leads(t) /\ pc[t] = "finish" /\ led' = led \ {KeyOf(t)} /\ Goto(t, "look")
        /\ UNCHANGED <<req, group, inflight>>
    BY DEF FinishLeader, Leads, gate, runs
  <1>2. Types'
    BY <1>1 DEF GateInv, Types, Goto, Stage
  <1>3. pc'[t] = "look" /\ \A u \in Thread : u # t => pc'[u] = pc[u]
    BY <1>1 DEF GateInv, Types, Goto
  <1>4. Slots' = Slots
    BY <1>1, <1>3 DEF Slots, HoldsSlot
  <1>5. Counted' /\ Limited'
    BY <1>1, <1>4, SlotsStay DEF GateInv, Limited
  <1>6. \A u \in Thread : KeyOf(u)' = KeyOf(u) /\ (Leads(u)' <=> Leads(u) /\ u # t)
    BY <1>1, <1>3 DEF KeyOf, Leads
  <1>7. OneLeader'
    BY <1>6 DEF GateInv, OneLeader
  <1>8. LedBy'
    BY <1>1, <1>6 DEF GateInv, OneLeader, LedBy
  <1>9. RunsSomething'
    BY <1>1, <1>3 DEF RunsSomething, GateInv
  <1> QED
    BY <1>2, <1>5, <1>7, <1>8, <1>9 DEF GateInv

-----------------------------------------------------------------------------
LEMMA GateInvNext == GateInv /\ [Next]_vars => GateInv'
  <1> SUFFICES ASSUME GateInv, [Next]_vars PROVE GateInv'
    OBVIOUS
  <1>1. CASE \E t \in Thread : \E r \in Request[t] : Submit(t, r)
    BY <1>1, SubmitKeeps
  <1>2. ASSUME NEW t \in Thread, Step(t) PROVE GateInv'
    BY <1>2, LookKeeps, ElectKeeps, ClaimKeeps, DrainGroupKeeps, RunKeeps, ReleaseKeeps,
       DistributeKeeps, FinishLeaderKeeps DEF Step
  <1>3. CASE UNCHANGED vars
    <2> USE <1>3 DEF vars, GateInv
    <2>1. Types' /\ Slots' = Slots
      BY DEF Types, Slots, HoldsSlot
    <2>2. Counted' /\ Limited'
      BY <2>1, SlotsStay DEF Limited
    <2>3. OneLeader' /\ LedBy' /\ RunsSomething'
      BY DEF OneLeader, LedBy, RunsSomething, Leads, KeyOf
    <2> QED
      BY <2>1, <2>2, <2>3
  <1> QED
    BY <1>1, <1>2, <1>3 DEF Next

(* inflight_runs counts exactly the leaders between their claim and the    *)
(* drop of their guard and stays within global_inflight_limit, a key has   *)
(* one leader, led holds the keys of the leaders, and no run starts        *)
(* without a waiter: for every set of threads and keys and every limit.    *)
THEOREM GateIsExact == Spec => []SlotsAreRuns
  <1>1. Init => GateInv
    BY GateInvInit
  <1>2. GateInv /\ [Next]_vars => GateInv'
    BY GateInvNext
  <1>3. GateInv => SlotsAreRuns
    BY GateInvImplies
  <1> QED
    BY <1>1, <1>2, <1>3, PTL DEF Spec
-----------------------------------------------------------------------------
(* Nth: the ranks of a finite set of numbers are 1..Cardinality.           *)

Rank(I, i) == Cardinality({j \in I : j <= i})

LEMMA RankType ==
  ASSUME NEW I \in SUBSET Nat, IsFiniteSet(I), NEW i \in I
  PROVE  Rank(I, i) \in 1..Cardinality(I)
<1> DEFINE J == {j \in I : j <= i}
<1>1. IsFiniteSet(J) /\ Cardinality(J) <= Cardinality(I) /\ J # {}
  BY FS_Subset
<1>2. Cardinality(J) \in Nat /\ Cardinality(I) \in Nat /\ Cardinality(J) # 0
  BY <1>1, FS_CardinalityType, FS_EmptySet
<1> QED  BY <1>1, <1>2 DEF Rank

LEMMA RankIncreases ==
  ASSUME NEW I \in SUBSET Nat, IsFiniteSet(I), NEW i \in I, NEW k \in I, i < k
  PROVE  Rank(I, i) < Rank(I, k)
<1> DEFINE J == {j \in I : j <= i}
           K == {j \in I : j <= k}
<1>1. IsFiniteSet(K) /\ IsFiniteSet(J)
  BY FS_Subset
<1>2. J \in SUBSET K /\ J # K
  <2>1. \A j \in I : j \in Int
    OBVIOUS
  <2>2. (\A j \in J : j \in K) /\ k \in K /\ k \notin J
    BY <2>1
  <2> QED  BY <2>2
<1>3. Cardinality(J) <= Cardinality(K) /\ Cardinality(J) # Cardinality(K)
  BY <1>1, <1>2, FS_Subset
<1>4. Cardinality(J) \in Nat /\ Cardinality(K) \in Nat
  BY <1>1, FS_CardinalityType
<1> QED  BY <1>3, <1>4 DEF Rank

LEMMA NthFacts ==
  ASSUME NEW I \in SUBSET Nat, IsFiniteSet(I)
  PROVE  /\ Cardinality(I) \in Nat
         /\ \A k \in 1..Cardinality(I) : Nth(I, k) \in I
         /\ \A j, k \in 1..Cardinality(I) : Nth(I, j) = Nth(I, k) => j = k
         /\ \A i \in I : \E k \in 1..Cardinality(I) : Nth(I, k) = i
<1> DEFINE n == Cardinality(I)
           r == [i \in I |-> Rank(I, i)]
<1>1. n \in Nat
  BY FS_CardinalityType
<1>2. r \in [I -> 1..n]
  BY RankType
<1>3. ASSUME NEW i \in I, NEW j \in I, i # j PROVE Rank(I, i) # Rank(I, j)
  <2>1. i < j \/ j < i
    BY <1>3
  <2>2. Rank(I, i) \in Nat /\ Rank(I, j) \in Nat
    BY RankType
  <2> QED  BY <2>1, <2>2, RankIncreases
<1>4. r \in Injection(I, 1..n)
  BY <1>2, <1>3 DEF Injection, IsInjective
<1>5. IsFiniteSet(1..n) /\ Cardinality(1..n) = n
  BY <1>1, FS_Interval
<1>6. r \in Surjection(I, 1..n)
  BY <1>4, <1>5, FS_Injection
<1>7. ASSUME NEW k \in 1..n PROVE Nth(I, k) \in I /\ Rank(I, Nth(I, k)) = k
  <2>1. PICK i \in I : Rank(I, i) = k
    BY <1>6 DEF Surjection
  <2> QED  BY <2>1 DEF Nth, Rank
<1>8. ASSUME NEW i \in I PROVE \E k \in 1..n : Nth(I, k) = i
  BY <1>3, <1>7, RankType
<1> QED  BY <1>1, <1>7, <1>8
\* The position of rank k has rank k, and no other has.
LEMMA NthRank ==
  ASSUME NEW I \in SUBSET Nat, IsFiniteSet(I), NEW i \in I
  PROVE  Nth(I, Rank(I, i)) = i
<1>1. ASSUME NEW j \in I, Rank(I, j) = Rank(I, i)  PROVE j = i
  <2>1. ~(i < j) /\ ~(j < i)
    BY <1>1, RankType, RankIncreases
  <2> QED  BY <2>1
<1> QED  BY <1>1 DEF Nth, Rank

Distinct(s) == \A j, k \in DOMAIN s : s[j] = s[k] => j = k

\* Picking keeps the elements at the positions, each once, in their order.
LEMMA PickFacts ==
  ASSUME NEW S, NEW s \in Seq(S), NEW I \in SUBSET (DOMAIN s)
  PROVE  /\ Pick(s, I) \in Seq(S) /\ ToSet(Pick(s, I)) = {s[i] : i \in I}
         /\ Len(Pick(s, I)) = Cardinality(I) /\ DOMAIN Pick(s, I) = 1..Cardinality(I)
         /\ Distinct(s) => Distinct(Pick(s, I))
         /\ \A i \in I : /\ Rank(I, i) \in 1..Cardinality(I) /\ Pick(s, I)[Rank(I, i)] = s[i]
         /\ \A k \in 1..Cardinality(I) : \E i \in I : Pick(s, I)[k] = s[i]
<1> DEFINE n == Cardinality(I)
           p == [k \in 1..n |-> s[Nth(I, k)]]
<1>1. I \in SUBSET Nat /\ IsFiniteSet(I) /\ DOMAIN s = 1..Len(s) /\ Len(s) \in Nat
  <2>1. DOMAIN s = 1..Len(s) /\ Len(s) \in Nat
    OBVIOUS
  <2>2. IsFiniteSet(1..Len(s))
    BY <2>1, FS_Interval
  <2> QED  BY <2>1, <2>2, FS_Subset
<1>2. /\ n \in Nat
      /\ \A k \in 1..n : Nth(I, k) \in I
      /\ \A j, k \in 1..n : Nth(I, j) = Nth(I, k) => j = k
      /\ \A i \in I : Rank(I, i) \in 1..n /\ Nth(I, Rank(I, i)) = i
  BY <1>1, NthFacts, NthRank, RankType
<1> HIDE DEF n
<1>3. \A k \in 1..n : s[Nth(I, k)] \in S
  BY <1>1, <1>2
<1>4. p \in Seq(S) /\ Len(p) = n /\ DOMAIN p = 1..n
  BY <1>2, <1>3
<1>5. \A k \in 1..n : p[k] = s[Nth(I, k)]
  OBVIOUS
<1>6. \A i \in I : Rank(I, i) \in 1..n /\ p[Rank(I, i)] = s[i]
  BY <1>2, <1>5
<1>7. \A k \in 1..n : \E i \in I : p[k] = s[i]
  BY <1>2, <1>5
<1> HIDE DEF p
<1>8. ToSet(p) = {s[i] : i \in I}
  BY <1>4, <1>6, <1>7 DEF ToSet
<1>9. Distinct(s) => Distinct(p)
  BY <1>1, <1>2, <1>4, <1>5 DEF Distinct
<1>10. Pick(s, I) = p
  BY DEF Pick, p, n
<1> QED  BY <1>4, <1>6, <1>7, <1>8, <1>9, <1>10 DEF n

-----------------------------------------------------------------------------
(* Induction, by the least counterexample.                                 *)

LEMMA Least ==
  ASSUME NEW T \in SUBSET Nat, T # {}
  PROVE  \E x \in T : \A y \in T : x <= y
<1> DEFINE R == OpToRel(<, Nat)
<1>1. IsWellFoundedOn(R, Nat)
  BY NatLessThanWellFounded
<1>2. \A x, y \in Nat : x < y => <<x, y>> \in R
  BY DEF OpToRel
<1> HIDE DEF R
<1>3. \E x \in T : \A y \in T : ~(<<y, x>> \in R)
  <2>1. T \subseteq Nat /\ T # {}
    OBVIOUS
  <2> QED  BY <1>1, <2>1, WFMin, Zenon
<1>4. PICK x \in T : \A y \in T : ~(<<y, x>> \in R)
  BY <1>3
<1>5. x \in Nat /\ \A y \in T : y \in Nat /\ ~(y < x)
  BY <1>2, <1>4
<1> QED  BY <1>5

LEMMA Induct ==
  ASSUME NEW T \in SUBSET Nat, 0 \in T, \A n \in T : n + 1 \in T
  PROVE  T = Nat
<1> SUFFICES ASSUME Nat \ T # {}  PROVE FALSE
  OBVIOUS
<1>1. PICK x \in Nat \ T : \A y \in Nat \ T : x <= y
  BY Least
<1>2. x # 0 /\ x - 1 \in Nat /\ x - 1 \notin Nat \ T
  BY <1>1
<1> QED  BY <1>2

LEMMA Greatest ==
  ASSUME NEW n \in Nat, NEW K \in SUBSET (1..n), K # {}
  PROVE  \E m \in K : \A k \in K : k <= m
<1> DEFINE T == {n - k : k \in K}
<1>1. T \in SUBSET Nat /\ T # {}
  <2>1. PICK k \in K : TRUE
    OBVIOUS
  <2>2. n - k \in T
    BY <2>1
  <2>3. \A j \in 1..n : n - j \in Nat
    OBVIOUS
  <2> QED  BY <2>2, <2>3
<1>2. PICK x \in T : \A y \in T : x <= y
  BY <1>1, Least
<1>3. PICK m \in K : x = n - m
  OBVIOUS
<1>4. \A k \in K : n - m <= n - k
  BY <1>2, <1>3
<1> QED  BY <1>4
-----------------------------------------------------------------------------
(* FlattenSeq, by its recursion: the prefixes of the result exist.         *)

Cat(a, b) == a \o b

LEMMA CatType ==
  ASSUME NEW S, NEW a \in Seq(S), NEW b \in Seq(S)
  PROVE  Cat(a, b) \in Seq(S)
BY DEF Cat

LEMMA CatAssoc ==
  ASSUME NEW S, NEW a \in Seq(S), NEW b \in Seq(S), NEW c \in Seq(S)
  PROVE  Cat(Cat(a, b), c) = Cat(a, Cat(b, c))
BY SMT DEF Cat

LEMMA CatEmpty ==
  ASSUME NEW S, NEW a \in Seq(S)
  PROVE  Cat(a, <<>>) = a
BY ConcatEmptySeq DEF Cat

\* f[k] is the concatenation of the first k sequences of s.
Joins(f, s, n) == \A k \in 1..n : f[k] = IF k = 1 THEN s[k] ELSE Cat(f[k - 1], s[k])

LEMMA JoinsStep ==
  ASSUME NEW S, NEW s \in Seq(Seq(S)), NEW n \in Nat, n + 1 <= Len(s),
         NEW f \in [1..n -> Seq(S)], Joins(f, s, n)
  PROVE  \E g \in [1..(n + 1) -> Seq(S)] : Joins(g, s, n + 1)
<1> DEFINE last == IF n = 0 THEN s[1] ELSE Cat(f[n], s[n + 1])
           g == [k \in 1..(n + 1) |-> IF k = n + 1 THEN last ELSE f[k]]
<1>1. n + 1 \in 1..Len(s) /\ s[n + 1] \in Seq(S)
  OBVIOUS
<1>2. last \in Seq(S)
  <2>1. CASE n = 0
    BY <1>1, <2>1
  <2>2. CASE n # 0
    <3>1. f[n] \in Seq(S)
      BY <2>2
    <3> QED  BY <1>1, <2>2, <3>1, CatType
  <2> QED  BY <2>1, <2>2
<1>3. \A k \in 1..(n + 1) : k = n + 1 \/ k \in 1..n
  OBVIOUS
<1> HIDE DEF last
<1>4. g \in [1..(n + 1) -> Seq(S)]
  BY <1>2, <1>3
<1>5. \A k \in 1..n : k \in 1..(n + 1) /\ k # n + 1
  OBVIOUS
<1>6. \A k \in 1..n : g[k] = f[k]
  BY <1>5
<1>7. g[n + 1] = last
  OBVIOUS
<1> HIDE DEF g
<1>8. g[n + 1] = IF n + 1 = 1 THEN s[n + 1] ELSE Cat(g[n], s[n + 1])
  <2>1. CASE n = 0
    BY <1>7, <2>1 DEF last
  <2>2. CASE n # 0
    <3>1. n \in 1..n /\ n + 1 # 1
      BY <2>2
    <3> QED  BY <1>6, <1>7, <2>2, <3>1 DEF last
  <2> QED  BY <2>1, <2>2
<1>9. \A k \in 1..n : k # 1 => k - 1 \in 1..n
  OBVIOUS
<1>10. ASSUME NEW k \in 1..n  PROVE g[k] = IF k = 1 THEN s[k] ELSE Cat(g[k - 1], s[k])
  BY <1>6, <1>9 DEF Joins
<1>11. (n + 1) - 1 = n
  OBVIOUS
<1>12. Joins(g, s, n + 1)
  BY <1>3, <1>8, <1>10, <1>11 DEF Joins
<1> QED  BY <1>4, <1>12

LEMMA JoinsExist ==
  ASSUME NEW S, NEW s \in Seq(Seq(S))
  PROVE  \E f \in [1..Len(s) -> Seq(S)] : Joins(f, s, Len(s))
<1> DEFINE Upto(n) == \E f \in [1..n -> Seq(S)] : Joins(f, s, n)
           T == {n \in Nat : n <= Len(s) => Upto(n)}
<1>1. Len(s) \in Nat
  OBVIOUS
<1>2. Upto(0)
  <2>1. [k \in 1..0 |-> <<>>] \in [1..0 -> Seq(S)] /\ 1..0 = {}
    OBVIOUS
  <2> QED  BY <2>1 DEF Joins
<1>3. ASSUME NEW n \in Nat, n + 1 <= Len(s), Upto(n)  PROVE Upto(n + 1)
  BY <1>3, JoinsStep
<1> HIDE DEF Upto
<1>4. 0 \in T
  BY <1>2
<1>5. ASSUME NEW n \in T  PROVE n + 1 \in T
  <2>1. n \in Nat /\ (n <= Len(s) => Upto(n))
    BY <1>5
  <2>2. n + 1 <= Len(s) => n <= Len(s)
    BY <1>1, <2>1
  <2>3. n + 1 <= Len(s) => Upto(n + 1)
    BY <1>3, <2>1, <2>2
  <2>4. n + 1 \in Nat
    BY <2>1
  <2> QED  BY <2>3, <2>4
<1>6. T \in SUBSET Nat
  OBVIOUS
<1>7. T = Nat
  <2> HIDE DEF T
  <2> QED  BY <1>4, <1>5, <1>6, Induct
<1>8. Len(s) \in T
  BY <1>1, <1>7
<1>9. Upto(Len(s))
  BY <1>8
<1> QED  BY <1>9 DEF Upto

LEMMA FlattenIs ==
  ASSUME NEW S, NEW s \in Seq(Seq(S)), s # <<>>
  PROVE  \E f : Joins(f, s, Len(s)) /\ FlattenSeq(s) = f[Len(s)]
<1> DEFINE flatten[i \in 1..Len(s)] == IF i = 1 THEN s[i] ELSE flatten[i-1] \o s[i]
<1>1. Len(s) # 0 /\ Len(s) \in Nat
  OBVIOUS
<1>2. FlattenSeq(s) = flatten[Len(s)]
  BY <1>1 DEF FlattenSeq
<1>3. PICK f \in [1..Len(s) -> Seq(S)] : Joins(f, s, Len(s))
  BY JoinsExist
<1>4. f = [i \in 1..Len(s) |-> IF i = 1 THEN s[i] ELSE f[i-1] \o s[i]]
  <2> DEFINE n == Len(s)
  <2>1. f = [i \in 1..n |-> f[i]]
    BY <1>3
  <2>2. \A i \in 1..n : f[i] = IF i = 1 THEN s[i] ELSE f[i-1] \o s[i]
    BY <1>3, Zenon DEF Joins, Cat
  <2> HIDE DEF n
  <2> QED  BY <2>1, <2>2, Zenon DEF n
<1>5. flatten = [i \in 1..Len(s) |-> IF i = 1 THEN s[i] ELSE flatten[i-1] \o s[i]]
  BY <1>4, Zenon
<1> HIDE DEF flatten
<1>6. Joins(flatten, s, Len(s))
  BY <1>5 DEF Joins, Cat
<1> QED  BY <1>2, <1>6

\* The concatenations are determined, step by step.
LEMMA JoinsTyped ==
  ASSUME NEW S, NEW s \in Seq(Seq(S)), NEW f, Joins(f, s, Len(s))
  PROVE  \A n \in 1..Len(s) : f[n] \in Seq(S)
<1> DEFINE T == {n \in Nat : n + 1 <= Len(s) => f[n + 1] \in Seq(S)}
<1>1. Len(s) \in Nat /\ \A k \in 1..Len(s) : s[k] \in Seq(S)
  OBVIOUS
<1>2. 0 \in T
  <2>1. 1 <= Len(s) => f[1] = s[1]
    BY <1>1 DEF Joins
  <2> QED  BY <1>1, <2>1
<1>3. ASSUME NEW n \in T  PROVE n + 1 \in T
  <2>1. n \in Nat /\ (n + 1 <= Len(s) => f[n + 1] \in Seq(S))
    BY <1>3
  <2>2. ASSUME (n + 1) + 1 <= Len(s)  PROVE f[(n + 1) + 1] \in Seq(S)
    <3>1. n + 1 <= Len(s) /\ (n + 1) + 1 \in 1..Len(s) /\ (n + 1) + 1 # 1
      BY <1>1, <2>1, <2>2
    <3>2. f[(n + 1) + 1] = Cat(f[((n + 1) + 1) - 1], s[(n + 1) + 1])
      BY <3>1 DEF Joins
    <3>3. ((n + 1) + 1) - 1 = n + 1
      BY <2>1
    <3>4. f[(n + 1) + 1] = Cat(f[n + 1], s[(n + 1) + 1])
      BY <3>2, <3>3
    <3> QED  BY <1>1, <2>1, <3>1, <3>4, CatType
  <2> QED  BY <2>1, <2>2
<1>4. T = Nat
  <2>1. T \in SUBSET Nat
    OBVIOUS
  <2> HIDE DEF T
  <2> QED  BY <1>2, <1>3, <2>1, Induct
<1>5. ASSUME NEW n \in 1..Len(s)  PROVE f[n] \in Seq(S)
  <2>1. n - 1 \in Nat /\ (n - 1) + 1 = n /\ n <= Len(s)
    OBVIOUS
  <2>2. n - 1 \in T
    BY <1>4, <2>1
  <2> QED  BY <2>1, <2>2
<1> QED  BY <1>5

Rows(S) == Seq(Seq(S))
TailOf(u, s, n) == Len(s) = n + 1 /\ Len(u) = n /\ \A k \in 1..n : u[k] = s[k + 1]
Shifted(f, s, g, n) == \A k \in 1..n : f[k + 1] = Cat(s[1], g[k])

\* What follows the first sequence is the concatenation of the others.
LEMMA JoinsTail ==
  ASSUME NEW S, NEW s, NEW u, NEW f, NEW g, NEW n \in Nat,
         s \in Rows(S), u \in Rows(S), TailOf(u, s, n),
         Joins(f, s, Len(s)), Joins(g, u, Len(u))
  PROVE  Shifted(f, s, g, n)
<1> DEFINE T == {k \in Nat : k + 1 <= n => f[(k + 1) + 1] = Cat(s[1], g[k + 1])}
<1> USE DEF Rows, TailOf
<1>1. \A k \in 1..n : u[k] = s[k + 1]
  OBVIOUS
<1>2. \A k \in 1..(n + 1) : s[k] \in Seq(S)
  OBVIOUS
<1>3. \A k \in 1..n : g[k] \in Seq(S)
  BY <1>1, JoinsTyped
<1>4. f[1] = s[1]
  BY DEF Joins
<1>5. 0 \in T
  <2>1. ASSUME 1 <= n  PROVE f[1 + 1] = Cat(s[1], g[1])
    <3>1. 1 + 1 \in 1..Len(s) /\ 1 + 1 # 1 /\ (1 + 1) - 1 = 1
      BY <2>1
    <3>2. f[1 + 1] = Cat(f[(1 + 1) - 1], s[1 + 1])
      BY <3>1 DEF Joins
    <3>3. g[1] = u[1] /\ u[1] = s[1 + 1]
      BY <1>1, <2>1 DEF Joins
    <3>4. f[(1 + 1) - 1] = s[1]
      BY <1>4, <3>1
    <3>5. g[1] = s[1 + 1]
      BY <3>3
    <3>6. f[1 + 1] = Cat(s[1], s[1 + 1])
      BY <3>2, <3>4, Zenon
    <3> QED  BY <3>5, <3>6, Zenon
  <2> QED  BY <2>1
<1>6. ASSUME NEW k \in T  PROVE k + 1 \in T
  <2>1. k \in Nat /\ (k + 1 <= n => f[(k + 1) + 1] = Cat(s[1], g[k + 1]))
    BY <1>6
  <2> DEFINE i == (k + 1) + 1
  <2>2. ASSUME i <= n  PROVE f[i + 1] = Cat(s[1], g[i])
    <3>0. k \in Nat /\ Len(s) = n + 1
      BY <2>1
    <3>1. /\ k + 1 <= n /\ i \in 1..n /\ k + 1 \in 1..n /\ i # 1 /\ i - 1 = k + 1
          /\ i + 1 \in 1..Len(s) /\ i + 1 # 1 /\ (i + 1) - 1 = i /\ i + 1 \in 1..(n + 1)
      BY <2>2, <3>0
    <3>2. f[i] = Cat(s[1], g[k + 1])
      BY <2>1, <3>1
    <3> HIDE DEF i
    <3>3. f[i + 1] = Cat(f[(i + 1) - 1], s[i + 1])
      BY <3>1 DEF Joins
    <3>4. g[i] = Cat(g[i - 1], u[i])
      BY <1>1, <3>1 DEF Joins
    <3>5. f[i + 1] = Cat(Cat(s[1], g[k + 1]), s[i + 1]) /\ g[i] = Cat(g[k + 1], s[i + 1])
      BY <1>1, <3>1, <3>2, <3>3, <3>4
    <3>6. s[1] \in Seq(S) /\ g[k + 1] \in Seq(S) /\ s[i + 1] \in Seq(S)
      BY <1>2, <1>3, <3>1
    <3> QED  BY <3>5, <3>6, CatAssoc
  <2> QED  BY <2>1, <2>2
<1>7. T = Nat
  <2>1. T \in SUBSET Nat
    OBVIOUS
  <2> HIDE DEF T
  <2> QED  BY <1>5, <1>6, <2>1, Induct
<1>8. ASSUME NEW k \in 1..n  PROVE f[k + 1] = Cat(s[1], g[k])
  <2>1. k - 1 \in Nat /\ (k - 1) + 1 = k /\ k <= n
    OBVIOUS
  <2>2. k - 1 \in T
    BY <1>7, <2>1
  <2> QED  BY <2>1, <2>2
<1> QED  BY <1>8 DEF Shifted

LEMMA FlattenType ==
  ASSUME NEW S, NEW s \in Seq(Seq(S))
  PROVE  FlattenSeq(s) \in Seq(S)
<1>1. CASE s = <<>>
  BY <1>1 DEF FlattenSeq
<1>2. CASE s # <<>>
  <2>1. PICK f : Joins(f, s, Len(s)) /\ FlattenSeq(s) = f[Len(s)]
    BY <1>2, FlattenIs
  <2>2. Len(s) \in 1..Len(s)
    BY <1>2
  <2> QED  BY <2>1, <2>2, JoinsTyped
<1> QED  BY <1>1, <1>2

\* The first sequence, and then the concatenation of the others.
LEMMA FlattenTail ==
  ASSUME NEW S, NEW s \in Seq(Seq(S)), s # <<>>
  PROVE  FlattenSeq(s) = Cat(s[1], FlattenSeq(Tail(s)))
<1>1. /\ Len(s) \in Nat \ {0} /\ s[1] \in Seq(S)
      /\ Tail(s) \in Seq(Seq(S)) /\ Len(Tail(s)) = Len(s) - 1
      /\ \A k \in 1..(Len(s) - 1) : Tail(s)[k] = s[k + 1]
  OBVIOUS
<1>2. PICK f : Joins(f, s, Len(s)) /\ FlattenSeq(s) = f[Len(s)]
  BY FlattenIs
<1>3. f[1] = s[1]
  BY <1>1, <1>2 DEF Joins
<1>4. CASE Len(s) = 1
  <2>1. Len(Tail(s)) = 0
    BY <1>1, <1>4
  <2>2. FlattenSeq(Tail(s)) = Tail(s)
    BY <2>1 DEF FlattenSeq
  <2>3. Tail(s) = <<>>
    BY <1>1, <2>1, EmptySeq
  <2>4. Cat(s[1], <<>>) = s[1]
    BY <1>1, CatEmpty
  <2> QED  BY <1>2, <1>3, <1>4, <2>2, <2>3, <2>4
<1>5. CASE Len(s) # 1
  <2>0. Len(Tail(s)) # 0 /\ Len(<<>>) = 0
    BY <1>1, <1>5
  <2>1. Tail(s) # <<>>
    BY <2>0, Zenon
  <2> DEFINE n == Len(s) - 1
             u == Tail(s)
  <2>2. n \in Nat /\ Len(s) = n + 1 /\ n \in 1..n
    BY <1>1, <1>5
  <2>3. u \in Seq(Seq(S)) /\ u # <<>> /\ Len(u) = n /\ \A k \in 1..n : u[k] = s[k + 1]
    BY <1>1, <2>1
  <2> HIDE DEF n, u
  <2>4. PICK g : Joins(g, u, Len(u)) /\ FlattenSeq(u) = g[Len(u)]
    BY <2>3, FlattenIs
  <2>5. Shifted(f, s, g, n)
    <3>1. s \in Rows(S) /\ u \in Rows(S) /\ TailOf(u, s, n)
      BY <2>2, <2>3 DEF Rows, TailOf
    <3> QED  BY <1>2, <2>2, <2>4, <3>1, JoinsTail
  <2>6. FlattenSeq(s) = Cat(s[1], FlattenSeq(u))
    BY <1>2, <2>2, <2>3, <2>4, <2>5 DEF Shifted
  <2> QED  BY <2>6 DEF u
<1> QED  BY <1>4, <1>5
-----------------------------------------------------------------------------
(* What a run finds out is about its members, and earned.                  *)

Earned(m) ==
  /\ m.verdict = "green" => /\ m.patch \in m.basis \ Truncated
                            /\ m.basis \notin RedUnions /\ ~Conflicting(m.basis)
  /\ m.provenance = "solo_red" => {m.patch} \in RedUnions
  /\ m.provenance = "interaction_red" =>
       /\ m.basis \in RedUnions \/ Conflicting(m.basis)
       /\ \A p \in m.basis : {p} \notin RedUnions

About(m, r) == r.wt = m.wt /\ r.patch = m.patch

\* rs tells every member of ms something it has earned.
Judged(rs, ms) ==
  /\ rs \in Seq(MemberResult) /\ ms \in Seq(Member) /\ Len(rs) = Len(ms)
  /\ \A i \in 1..Len(ms) : About(ms[i], rs[i]) /\ Earned(rs[i])

LEMMA ToldFacts ==
  ASSUME NEW m \in Member, NEW v \in Verdict, NEW p \in Provenance, NEW S \in SUBSET Patch
  PROVE  /\ Told(m, v, p, S) \in MemberResult /\ About(m, Told(m, v, p, S))
         /\ Told(m, v, p, S).verdict = v /\ Told(m, v, p, S).provenance = p
         /\ Told(m, v, p, S).basis = S /\ Told(m, v, p, S).patch = m.patch
         /\ m.patch \in Patch
BY DEF Told, Member, MemberResult, About

LEMMA PatchesType ==
  ASSUME NEW ms \in Seq(Member)
  PROVE  PatchesOf(ms) \in SUBSET Patch /\ \A i \in 1..Len(ms) : ms[i].patch \in PatchesOf(ms)
<1>1. DOMAIN ms = 1..Len(ms) /\ \A i \in 1..Len(ms) : ms[i] \in Member
  OBVIOUS
<1>2. \A i \in 1..Len(ms) : ms[i].patch \in Patch
  BY <1>1 DEF Member
<1> QED  BY <1>1, <1>2 DEF PatchesOf

LEMMA UnknownFacts ==
  ASSUME NEW m \in Member
  PROVE  Unknown(m) \in MemberResult /\ About(m, Unknown(m)) /\ Earned(Unknown(m))
<1>1. "indeterminate" \in Verdict /\ "indeterminate" \in Provenance /\ {} \in SUBSET Patch
  BY DEF Verdict, Provenance
<1> DEFINE r == Told(m, "indeterminate", "indeterminate", {})
<1>2. /\ r \in MemberResult /\ About(m, r)
      /\ r.verdict = "indeterminate" /\ r.provenance = "indeterminate"
  BY <1>1, ToldFacts
<1> HIDE DEF r
<1>3. Earned(r)
  BY <1>2 DEF Earned
<1> QED  BY <1>2, <1>3 DEF r, Unknown

\* A patch by itself does not clash.
LEMMA OneDoesNotClash == \A p : ~Conflicting({p})
BY PatchAssumption DEF Conflicting

LEMMA SoloFacts ==
  ASSUME NEW m \in Member, ~Suspect(m), NEW infra
  PROVE  /\ Solo(m, infra) \in MemberResult /\ About(m, Solo(m, infra)) /\ Earned(Solo(m, infra))
         /\ Solo(m, infra).verdict = "green" => {m.patch} \notin RedUnions
<1> DEFINE S == {m.patch}
           c == Checks(S, infra)
<1>1. S \in SUBSET Patch /\ m.patch \in S \ Truncated /\ ~Conflicting(S)
  BY OneDoesNotClash DEF Member, Suspect
<1>2. /\ {"green", "red", "indeterminate"} \subseteq Verdict
      /\ {"solo_green", "solo_red", "indeterminate"} \subseteq Provenance
  BY DEF Verdict, Provenance
<1>3. c \in {"infra", "green", "red"} /\ (c = "green" => S \notin RedUnions)
      /\ (c = "red" => S \in RedUnions)
  BY DEF Checks
<1>4. /\ c = "infra" => Solo(m, infra) = Told(m, "indeterminate", "indeterminate", S)
      /\ c = "green" => Solo(m, infra) = Told(m, "green", "solo_green", S)
      /\ c = "red" => Solo(m, infra) = Told(m, "red", "solo_red", S)
  BY DEF Solo
<1> DEFINE r == Solo(m, infra)
<1> HIDE DEF S, c, r
<1>5. CASE c = "infra"
  <2>1. /\ r \in MemberResult /\ About(m, r)
        /\ r.verdict = "indeterminate" /\ r.provenance = "indeterminate"
    BY <1>1, <1>2, <1>4, <1>5, ToldFacts DEF r
  <2> QED  BY <2>1 DEF Earned, r
<1>6. CASE c = "green"
  <2>1. /\ r \in MemberResult /\ About(m, r)
        /\ r.verdict = "green" /\ r.provenance = "solo_green" /\ r.basis = S
        /\ r.patch = m.patch
    BY <1>1, <1>2, <1>4, <1>6, ToldFacts DEF r
  <2>2. Earned(r)
    BY <1>1, <1>3, <1>6, <2>1 DEF Earned
  <2> QED  BY <1>3, <1>6, <2>1, <2>2 DEF r, S
<1>7. CASE c = "red"
  <2>1. /\ r \in MemberResult /\ About(m, r)
        /\ r.verdict = "red" /\ r.provenance = "solo_red" /\ r.patch = m.patch
    BY <1>1, <1>2, <1>4, <1>7, ToldFacts DEF r
  <2>2. Earned(r)
    BY <1>3, <1>7, <2>1 DEF Earned, S
  <2> QED  BY <2>1, <2>2 DEF r
<1> QED  BY <1>3, <1>5, <1>6, <1>7

\* A function on the positions of ms, about its members and earned, judges ms.
LEMMA JudgedBy ==
  ASSUME NEW ms \in Seq(Member), NEW rs, DOMAIN rs = 1..Len(ms),
         rs = [i \in 1..Len(ms) |-> rs[i]],
         \A i \in 1..Len(ms) : /\ rs[i] \in MemberResult
                               /\ About(ms[i], rs[i]) /\ Earned(rs[i])
  PROVE  Judged(rs, ms)
<1> DEFINE n == Len(ms)
<1>1. n \in Nat
  OBVIOUS
<1> HIDE DEF n
<1>2. rs \in [1..n -> MemberResult]
  BY DEF n
<1>3. rs \in Seq(MemberResult) /\ Len(rs) = n
  BY <1>1, <1>2
<1> QED  BY <1>3 DEF Judged, n

LEMMA AllUnknownJudges ==
  ASSUME NEW ms \in Seq(Member)
  PROVE  Judged(AllUnknown(ms), ms)
<1> DEFINE rs == AllUnknown(ms)
<1>1. DOMAIN rs = 1..Len(ms) /\ rs = [i \in 1..Len(ms) |-> rs[i]]
      /\ \A i \in 1..Len(ms) : rs[i] = Unknown(ms[i])
  BY DEF AllUnknown
<1>2. \A i \in 1..Len(ms) : ms[i] \in Member
  OBVIOUS
<1> HIDE DEF rs
<1> QED  BY <1>1, <1>2, UnknownFacts, JudgedBy DEF rs

LEMMA SolosJudge ==
  ASSUME NEW ms \in Seq(Member), \A i \in 1..Len(ms) : ~Suspect(ms[i]), NEW soloInfra
  PROVE  /\ Judged(Solos(ms, soloInfra), ms) /\ DOMAIN Solos(ms, soloInfra) = 1..Len(ms)
         /\ \A i \in 1..Len(ms) :
              Solos(ms, soloInfra)[i].verdict = "green" => {ms[i].patch} \notin RedUnions
<1> DEFINE rs == Solos(ms, soloInfra)
<1>1. DOMAIN rs = 1..Len(ms) /\ rs = [i \in 1..Len(ms) |-> rs[i]]
      /\ \A i \in 1..Len(ms) : rs[i] = Solo(ms[i], i \in soloInfra)
  BY DEF Solos
<1>2. \A i \in 1..Len(ms) : ms[i] \in Member
  OBVIOUS
<1> HIDE DEF rs
<1>3. ASSUME NEW i \in 1..Len(ms)
      PROVE  /\ rs[i] \in MemberResult /\ About(ms[i], rs[i]) /\ Earned(rs[i])
             /\ rs[i].verdict = "green" => {ms[i].patch} \notin RedUnions
  BY <1>1, <1>2, SoloFacts
<1>4. Judged(rs, ms)
  BY <1>1, <1>3, JudgedBy
<1> QED  BY <1>1, <1>3, <1>4 DEF rs

LEMMA CombinedJudges ==
  ASSUME NEW ms \in Seq(Member), \A i \in 1..Len(ms) : ~Suspect(ms[i]), NEW infra,
         Combined(ms, infra) = "green"
  PROVE  Judged([i \in DOMAIN ms |-> Told(ms[i], "green", "combined_green", PatchesOf(ms))], ms)
<1> DEFINE rs == [i \in DOMAIN ms |-> Told(ms[i], "green", "combined_green", PatchesOf(ms))]
           S == PatchesOf(ms)
<1>1. DOMAIN rs = 1..Len(ms) /\ rs = [i \in 1..Len(ms) |-> rs[i]]
      /\ \A i \in 1..Len(ms) : rs[i] = Told(ms[i], "green", "combined_green", S)
  OBVIOUS
<1>2. S \in SUBSET Patch /\ \A i \in 1..Len(ms) : ms[i].patch \in S
  BY PatchesType
<1>3. ~Conflicting(S) /\ S \notin RedUnions
  BY DEF Combined, Checks
<1>4. "green" \in Verdict /\ "combined_green" \in Provenance
  BY DEF Verdict, Provenance
<1>5. \A i \in 1..Len(ms) : ms[i] \in Member /\ ms[i].patch \notin Truncated
  BY DEF Suspect
<1> HIDE DEF rs, S
<1>6. ASSUME NEW i \in 1..Len(ms)
      PROVE  rs[i] \in MemberResult /\ About(ms[i], rs[i]) /\ Earned(rs[i])
  <2>1. /\ rs[i] \in MemberResult /\ About(ms[i], rs[i])
        /\ rs[i].verdict = "green" /\ rs[i].provenance = "combined_green"
        /\ rs[i].basis = S /\ rs[i].patch = ms[i].patch
    BY <1>1, <1>2, <1>4, <1>5, ToldFacts
  <2> QED  BY <1>2, <1>3, <1>5, <2>1 DEF Earned
<1> QED  BY <1>1, <1>6, JudgedBy DEF rs, S

LEMMA FallbackJudges ==
  ASSUME NEW ms \in Seq(Member), \A i \in 1..Len(ms) : ~Suspect(ms[i]), NEW infra,
         Combined(ms, infra) = "red", NEW soloInfra
  PROVE  Judged(Fallback(ms, soloInfra), ms)
<1> DEFINE solos == Solos(ms, soloInfra)
           rs == Interaction(ms)
           S == PatchesOf(ms)
<1>1. /\ Judged(solos, ms) /\ DOMAIN solos = 1..Len(ms)
      /\ \A i \in 1..Len(ms) : solos[i].verdict = "green" => {ms[i].patch} \notin RedUnions
  BY SolosJudge
<1>2. DOMAIN rs = 1..Len(ms) /\ rs = [i \in 1..Len(ms) |-> rs[i]]
      /\ \A i \in 1..Len(ms) : rs[i] = Told(ms[i], "red", "interaction_red", S)
  BY DEF Interaction
<1>3. S \in SUBSET Patch /\ \A i \in 1..Len(ms) : ms[i] \in Member
  BY PatchesType
<1>4. S \in RedUnions \/ Conflicting(S)
  BY DEF Combined, Checks
<1>5. "red" \in Verdict /\ "interaction_red" \in Provenance
  BY DEF Verdict, Provenance
<1>6. Fallback(ms, soloInfra)
        = IF \A i \in DOMAIN solos : solos[i].verdict = "green" THEN rs ELSE solos
  BY DEF Fallback
<1>7. S = {ms[i].patch : i \in 1..Len(ms)}
  BY DEF PatchesOf
<1> HIDE DEF solos, rs, S
<1>8. CASE \A i \in DOMAIN solos : solos[i].verdict = "green"
  <2>1. \A p \in S : {p} \notin RedUnions
    BY <1>1, <1>7, <1>8
  <2>2. ASSUME NEW i \in 1..Len(ms)
        PROVE  rs[i] \in MemberResult /\ About(ms[i], rs[i]) /\ Earned(rs[i])
    <3>1. /\ rs[i] \in MemberResult /\ About(ms[i], rs[i])
          /\ rs[i].verdict = "red" /\ rs[i].provenance = "interaction_red"
          /\ rs[i].basis = S
      BY <1>2, <1>3, <1>5, ToldFacts
    <3> QED  BY <1>4, <2>1, <3>1 DEF Earned
  <2>3. Judged(rs, ms)
    BY <1>2, <2>2, JudgedBy
  <2> QED  BY <1>6, <1>8, <2>3
<1> QED  BY <1>1, <1>6, <1>8

LEMMA RunBatchJudges ==
  ASSUME NEW ms \in Seq(Member), \A i \in 1..Len(ms) : ~Suspect(ms[i]),
         NEW corun, NEW infra, NEW soloInfra
  PROVE  Judged(RunBatch(ms, corun, infra, soloInfra), ms)
<1> DEFINE c == Combined(ms, infra)
<1>1. c \in {"infra", "green", "red"}
  BY DEF Combined, Checks
<1> HIDE DEF c
<1>2. CASE ~corun \/ Len(ms) <= 1
  BY <1>2, SolosJudge DEF RunBatch
<1>3. CASE ~(~corun \/ Len(ms) <= 1)
  <2>1. CASE c = "infra"
    BY <1>3, <2>1, AllUnknownJudges DEF RunBatch, c
  <2>2. CASE c = "green"
    BY <1>3, <2>2, CombinedJudges DEF RunBatch, c
  <2>3. CASE c = "red"
    BY <1>3, <2>3, FallbackJudges DEF RunBatch, c
  <2> QED  BY <1>1, <2>1, <2>2, <2>3
<1> QED  BY <1>2, <1>3

LEMMA RunBatchCheckNowJudges ==
  ASSUME NEW ms \in Seq(Member), NEW corun, NEW infra, NEW soloInfra
  PROVE  Judged(RunBatchCheckNow(ms, corun, infra, soloInfra), ms)
<1> DEFINE I == {i \in DOMAIN ms : ~Suspect(ms[i])}
           clean == Clean(ms)
           part == RunBatch(clean, corun, infra, soloInfra)
           rs == Stitch(part, ms)
<1>1. I \in SUBSET (DOMAIN ms) /\ clean = Pick(ms, I) /\ DOMAIN ms = 1..Len(ms)
  BY DEF Clean
<1>2. /\ clean \in Seq(Member) /\ Len(clean) = Cardinality(I)
      /\ \A i \in I : Rank(I, i) \in 1..Cardinality(I) /\ clean[Rank(I, i)] = ms[i]
      /\ \A k \in 1..Cardinality(I) : \E i \in I : clean[k] = ms[i]
  <2> DEFINE p == Pick(ms, I)
  <2> HIDE DEF I, clean
  <2>1. /\ p \in Seq(Member) /\ Len(p) = Cardinality(I)
        /\ \A i \in I : Rank(I, i) \in 1..Cardinality(I) /\ p[Rank(I, i)] = ms[i]
        /\ \A k \in 1..Cardinality(I) : \E i \in I : p[k] = ms[i]
    BY <1>1, PickFacts
  <2> QED  BY <1>1, <2>1, Zenon
<1>3. \A k \in 1..Len(clean) : ~Suspect(clean[k])
  <2>1. \A i \in I : ~Suspect(ms[i])
    OBVIOUS
  <2> HIDE DEF I, clean
  <2> QED  BY <1>2, <2>1
<1>4. Judged(part, clean)
  <2> HIDE DEF I, clean
  <2> QED  BY <1>2, <1>3, RunBatchJudges
<1>5. ASSUME NEW i \in DOMAIN ms  PROVE Rank(I, i) = Cardinality({j \in 1..i : ~Suspect(ms[j])})
  <2>1. {j \in I : j <= i} = {j \in 1..i : ~Suspect(ms[j])}
    BY <1>1
  <2> QED  BY <2>1 DEF Rank
<1>6. /\ DOMAIN rs = 1..Len(ms) /\ rs = [i \in 1..Len(ms) |-> rs[i]]
      /\ \A i \in 1..Len(ms) : i \in I => rs[i] = part[Rank(I, i)]
      /\ \A i \in 1..Len(ms) : i \notin I => rs[i] = Unknown(ms[i])
  BY <1>1, <1>5 DEF Stitch
<1> HIDE DEF I, clean, part, rs
<1>7. ASSUME NEW i \in 1..Len(ms)
      PROVE  rs[i] \in MemberResult /\ About(ms[i], rs[i]) /\ Earned(rs[i])
  <2>1. CASE i \in I
    <3>1. Rank(I, i) \in 1..Len(clean) /\ clean[Rank(I, i)] = ms[i] /\ rs[i] = part[Rank(I, i)]
      BY <1>2, <1>6, <2>1
    <3>2. /\ part \in Seq(MemberResult) /\ Len(part) = Len(clean)
          /\ \A k \in 1..Len(clean) : About(clean[k], part[k]) /\ Earned(part[k])
      BY <1>4 DEF Judged
    <3>3. part[Rank(I, i)] \in MemberResult
      BY <3>1, <3>2
    <3> QED  BY <3>1, <3>2, <3>3
  <2>2. CASE i \notin I
    BY <1>6, <2>2, UnknownFacts
  <2> QED  BY <2>1, <2>2
<1>8. Judged(rs, ms)
  BY <1>6, <1>7, JudgedBy
<1> QED  BY <1>8 DEF RunBatchCheckNow, rs, part, clean

LEMMA OutcomesJudge ==
  ASSUME NEW ms \in Seq(Member), NEW corun, NEW results \in Outcomes(ms, corun)
  PROVE  Judged(results, ms)
BY AllUnknownJudges, RunBatchCheckNowJudges DEF Outcomes

\* The slice of a report that the first members take up, and the rest of it.
LEMMA SliceJudges ==
  ASSUME NEW a \in Seq(Member), NEW b \in Seq(Member), NEW rs, Judged(rs, Cat(a, b))
  PROVE  Judged(SubSeq(rs, 1, Len(a)), a) /\ Judged(SubSeq(rs, Len(a) + 1, Len(rs)), b)
<1> DEFINE n == Len(a)
           m == Len(b)
           c == Cat(a, b)
           x == SubSeq(rs, 1, n)
           y == SubSeq(rs, n + 1, Len(rs))
<1>1. /\ n \in Nat /\ m \in Nat /\ Len(c) = n + m
      /\ \A i \in 1..n : i \in 1..(n + m) /\ c[i] = a[i]
      /\ \A i \in 1..m : n + i \in 1..(n + m) /\ c[n + i] = b[i]
  BY DEF Cat
<1> HIDE DEF c
<1>2. /\ rs \in Seq(MemberResult) /\ Len(rs) = n + m
      /\ \A i \in 1..(n + m) : About(c[i], rs[i]) /\ Earned(rs[i])
  BY <1>1 DEF Judged, c
<1>3. x \in Seq(MemberResult) /\ Len(x) = n /\ \A i \in 1..n : x[i] = rs[i]
  BY <1>1, <1>2
<1>4. y \in Seq(MemberResult) /\ Len(y) = m /\ \A i \in 1..m : y[i] = rs[n + i]
  BY <1>1, <1>2
<1> HIDE DEF n, m, x, y
<1>5. Judged(x, a)
  BY <1>1, <1>2, <1>3 DEF Judged, n
<1>6. Judged(y, b)
  BY <1>1, <1>2, <1>4 DEF Judged, m
<1> QED  BY <1>5, <1>6 DEF x, y, n
-----------------------------------------------------------------------------
(* Whose answers they are: the queues, the groups and the reports.         *)

\* A thread whose request of key k is unanswered.
Pending(u, k) == pc[u] # "idle" /\ KeyOf(u) = k /\ ~Answered(u)

Shapes ==
  /\ queue \in [Key -> Seq(Thread)]
  /\ DOMAIN result = Thread /\ DOMAIN report = Thread
  /\ \A t \in Thread : IF pc[t] = "idle" THEN result[t] = None ELSE req[t] \in Request[t]

\* Who is in a queue waits there once, for that key.
Queued ==
  \A k \in Key : Distinct(queue[k]) /\ \A u \in ToSet(queue[k]) : Pending(u, k)

\* Who is in a group has left the queue of the group's key.
Grouped ==
  \A t \in Thread :
    /\ group[t] \in Seq(Thread) /\ Distinct(group[t])
    /\ \A u \in ToSet(group[t]) : Pending(u, KeyOf(t)) /\ u \notin ToSet(queue[KeyOf(t)])

Staged == \A t \in Thread : group[t] # <<>> <=> pc[t] \in {"run", "release", "share"}

\* Nobody is lost between the queue and a group.
Placed ==
  \A t \in Thread : pc[t] # "idle" /\ ~Answered(t) =>
    t \in ToSet(queue[KeyOf(t)]) \/ \E l \in Thread : t \in ToSet(group[l])

\* A leader that has not drained its queue yet is in it.
Waiting == \A t \in Thread : pc[t] \in {"gate", "drain"} => t \in ToSet(queue[KeyOf(t)])

Reported ==
  \A t \in Thread : pc[t] \in {"release", "share"} => Judged(report[t], MembersOf(group[t]))

Answers == \A t \in Thread : Answered(t) => Judged(result[t], req[t].members)

AnswerInv == /\ GateInv /\ Shapes /\ Queued /\ Grouped /\ Staged /\ Placed /\ Waiting
             /\ Reported /\ Answers

-----------------------------------------------------------------------------
(* Sequences of threads.                                                   *)

LEMMA RequestFacts ==
  ASSUME NEW t \in Thread, NEW r \in Request[t]
  PROVE  r.key \in Key /\ r.members \in Seq(Member) /\ r.members # <<>> /\ r # None
BY CoalescerAssumption

LEMMA AppendFacts ==
  ASSUME NEW S, NEW q \in Seq(S), NEW u \in S
  PROVE  /\ Append(q, u) \in Seq(S) /\ ToSet(Append(q, u)) = ToSet(q) \cup {u}
         /\ Distinct(q) /\ u \notin ToSet(q) => Distinct(Append(q, u))
<1> DEFINE n == Len(q)
           a == Append(q, u)
<1>1. /\ n \in Nat /\ DOMAIN q = 1..n /\ a \in Seq(S) /\ DOMAIN a = 1..(n + 1)
      /\ \A i \in 1..n : a[i] = q[i]
      /\ a[n + 1] = u
  OBVIOUS
<1>2. \A i : i \in 1..(n + 1) <=> i \in 1..n \/ i = n + 1
  BY <1>1
<1> HIDE DEF n, a
<1>3. ToSet(a) = ToSet(q) \cup {u}
  BY <1>1, <1>2 DEF ToSet
<1>4. Distinct(q) /\ u \notin ToSet(q) => Distinct(a)
  BY <1>1, <1>2 DEF ToSet, Distinct
<1> QED  BY <1>1, <1>3, <1>4 DEF a

LEMMA TailFacts ==
  ASSUME NEW S, NEW q \in Seq(S), q # <<>>
  PROVE  /\ Tail(q) \in Seq(S) /\ Head(q) \in ToSet(q) /\ ToSet(Tail(q)) \subseteq ToSet(q)
         /\ ToSet(q) \subseteq ToSet(Tail(q)) \cup {Head(q)}
         /\ Distinct(q) => Distinct(Tail(q)) /\ Head(q) \notin ToSet(Tail(q))
         /\ Len(q) = 1 <=> Tail(q) = <<>>
<1> DEFINE n == Len(q)
           a == Tail(q)
<1>1. /\ n \in Nat /\ n # 0 /\ DOMAIN q = 1..n /\ a \in Seq(S) /\ Len(a) = n - 1
      /\ DOMAIN a = 1..(n - 1) /\ Head(q) = q[1]
      /\ \A i \in 1..(n - 1) : a[i] = q[i + 1]
  OBVIOUS
<1>2. /\ 1 \in 1..n /\ \A i \in 1..(n - 1) : i + 1 \in 1..n /\ i + 1 # 1
      /\ \A i \in 1..n : i = 1 \/ (i - 1 \in 1..(n - 1) /\ (i - 1) + 1 = i)
      /\ \A i, j \in 1..(n - 1) : i + 1 = j + 1 => i = j
  BY <1>1
<1>3. n = 1 <=> a = <<>>
  <2>0. Len(<<>>) = 0
    OBVIOUS
  <2>1. a = <<>> => Len(a) = 0
    BY <2>0, Zenon
  <2>2. Len(a) = 0 => a = <<>>
    BY <1>1, EmptySeq
  <2> HIDE DEF a, n
  <2> QED  BY <1>1, <2>1, <2>2
<1> HIDE DEF n, a
<1>4. Head(q) \in ToSet(q) /\ ToSet(a) \subseteq ToSet(q)
  BY <1>1, <1>2 DEF ToSet
<1>5. ToSet(q) \subseteq ToSet(a) \cup {Head(q)}
  <2>1. ASSUME NEW i \in 1..n  PROVE q[i] \in ToSet(a) \cup {Head(q)}
    <3>1. CASE i = 1
      BY <1>1, <3>1
    <3>2. CASE i # 1
      <4>1. i - 1 \in 1..(n - 1) /\ a[i - 1] = q[i]
        BY <1>1, <1>2, <3>2
      <4> QED  BY <1>1, <4>1 DEF ToSet
    <3> QED  BY <3>1, <3>2
  <2> QED  BY <1>1, <2>1 DEF ToSet
<1>6. Distinct(q) => Distinct(a) /\ Head(q) \notin ToSet(a)
  <2> SUFFICES ASSUME Distinct(q)  PROVE Distinct(a) /\ Head(q) \notin ToSet(a)
    OBVIOUS
  <2>1. \A i, j \in 1..n : q[i] = q[j] => i = j
    BY <1>1 DEF Distinct
  <2>2. ASSUME NEW i \in 1..(n - 1), NEW j \in 1..(n - 1), a[i] = a[j]  PROVE i = j
    <3>1. i + 1 \in 1..n /\ j + 1 \in 1..n /\ q[i + 1] = q[j + 1]
      BY <1>1, <1>2, <2>2
    <3>2. i + 1 = j + 1
      BY <2>1, <3>1
    <3> QED  BY <1>2, <3>2
  <2>3. ASSUME NEW i \in 1..(n - 1), a[i] = q[1]  PROVE FALSE
    <3>1. i + 1 \in 1..n /\ q[i + 1] = q[1] /\ 1 \in 1..n
      BY <1>1, <1>2, <2>3
    <3>2. i + 1 = 1
      BY <2>1, <3>1
    <3> QED  BY <1>2, <3>2
  <2>4. Distinct(a)
    BY <1>1, <2>2 DEF Distinct
  <2>5. Head(q) \notin ToSet(a)
    BY <1>1, <2>3 DEF ToSet
  <2> QED  BY <2>4, <2>5
<1> QED  BY <1>1, <1>3, <1>4, <1>5, <1>6 DEF a, n

LEMMA PrefixFacts ==
  ASSUME NEW S, NEW q \in Seq(S), NEW n \in 1..Len(q)
  PROVE  /\ SubSeq(q, 1, n) \in Seq(S) /\ Len(SubSeq(q, 1, n)) = n
         /\ SubSeq(q, 1, n) # <<>> /\ ToSet(SubSeq(q, 1, n)) \subseteq ToSet(q)
         /\ Distinct(q) => Distinct(SubSeq(q, 1, n))
<1> DEFINE a == SubSeq(q, 1, n)
<1>1. /\ a \in Seq(S) /\ Len(a) = n /\ DOMAIN a = 1..n /\ DOMAIN q = 1..Len(q)
      /\ \A i \in 1..n : i \in 1..Len(q) /\ a[i] = q[i]
  OBVIOUS
<1>2. n # 0 /\ (a = <<>> => Len(a) = 0)
  OBVIOUS
<1> HIDE DEF a
<1>3. ToSet(a) \subseteq ToSet(q)
  BY <1>1 DEF ToSet
<1>4. Distinct(q) => Distinct(a)
  BY <1>1 DEF Distinct
<1> QED  BY <1>1, <1>2, <1>3, <1>4 DEF a

\* Fits takes a prefix, and never an empty one.
LEMMA FitsFacts ==
  ASSUME NEW s \in Seq(Thread), s # <<>>
  PROVE  \E n \in 1..Len(s) : Fits(s) = SubSeq(s, 1, n)
<1> DEFINE ok == {n \in 1..Len(s) : n = 1 \/ MembersUpTo(s, n) <= MaxMembers}
<1>1. Len(s) \in Nat /\ 1 \in 1..Len(s)
  OBVIOUS
<1>2. ok \in SUBSET (1..Len(s)) /\ ok # {}
  BY <1>1
<1>3. Fits(s) = SubSeq(s, 1, CHOOSE n \in ok : \A k \in ok : k <= n)
  BY DEF Fits
<1> HIDE DEF ok
<1>4. \E n \in ok : \A k \in ok : k <= n
  BY <1>1, <1>2, Greatest
<1> QED  BY <1>2, <1>3, <1>4

\* What a leader drains: waiters of its queue, and no held one beside another.
LEMMA DrainedFacts ==
  ASSUME NEW s \in Seq(Thread), s # <<>>, Distinct(s)
  PROVE  /\ Drained(s) \in Seq(Thread) /\ Drained(s) # <<>> /\ Distinct(Drained(s))
         /\ ToSet(Drained(s)) \subseteq ToSet(s)
         /\ Len(Drained(s)) > 1 => \A u \in ToSet(Drained(s)) : ~Held(u)
<1> DEFINE I == {i \in DOMAIN s : ~Held(s[i])}
           free == Pick(s, I)
<1>1. Drained(s) = IF free = <<>> THEN SubSeq(s, 1, 1) ELSE Fits(free)
  BY DEF Drained
<1>2. I \in SUBSET (DOMAIN s) /\ \A i \in I : ~Held(s[i])
  OBVIOUS
<1>3. 1 \in 1..Len(s)
  OBVIOUS
<1> HIDE DEF I
<1>4. free \in Seq(Thread) /\ ToSet(free) = {s[i] : i \in I} /\ Distinct(free)
  BY <1>2, PickFacts
<1> HIDE DEF free
<1>5. ToSet(free) \subseteq ToSet(s) /\ \A u \in ToSet(free) : ~Held(u)
  BY <1>2, <1>4 DEF ToSet
<1>6. CASE free = <<>>
  <2>1. Len(SubSeq(s, 1, 1)) = 1
    BY <1>3, PrefixFacts
  <2>2. ~(1 > 1)
    OBVIOUS
  <2> DEFINE g == SubSeq(s, 1, 1)
  <2>3. /\ g \in Seq(Thread) /\ g # <<>> /\ ToSet(g) \subseteq ToSet(s) /\ Distinct(g)
    BY <1>3, PrefixFacts
  <2>4. Drained(s) = g
    BY <1>1, <1>6
  <2> HIDE DEF g
  <2> QED  BY <2>1, <2>2, <2>3, <2>4 DEF g
<1>7. CASE free # <<>>
  <2>1. PICK n \in 1..Len(free) : Fits(free) = SubSeq(free, 1, n)
    BY <1>4, <1>7, FitsFacts
  <2> DEFINE g == SubSeq(free, 1, n)
  <2>2. g \in Seq(Thread) /\ g # <<>> /\ ToSet(g) \subseteq ToSet(free) /\ Distinct(g)
    BY <1>4, PrefixFacts
  <2>3. Drained(s) = g
    BY <1>1, <1>7, <2>1
  <2> HIDE DEF g
  <2> QED  BY <1>5, <2>2, <2>3
<1> QED  BY <1>6, <1>7

-----------------------------------------------------------------------------
(* The members of a group, and of what is left of it.                      *)

RowsOf(g) == [i \in DOMAIN g |-> req[g[i]].members]

LEMMA RowsType ==
  ASSUME NEW g \in Seq(Thread), \A u \in ToSet(g) : req[u] \in Request[u]
  PROVE  RowsOf(g) \in Seq(Seq(Member)) /\ Len(RowsOf(g)) = Len(g)
         /\ \A i \in 1..Len(g) : RowsOf(g)[i] = req[g[i]].members
<1> DEFINE n == Len(g)
           r == [i \in 1..n |-> req[g[i]].members]
<1>1. n \in Nat /\ DOMAIN g = 1..n /\ \A i \in 1..n : g[i] \in Thread
  OBVIOUS
<1>2. \A i \in 1..n : g[i] \in ToSet(g)
  BY <1>1 DEF ToSet
<1>3. \A i \in 1..n : req[g[i]].members \in Seq(Member)
  BY <1>1, <1>2, RequestFacts
<1> DEFINE MM == Seq(Member)
<1> HIDE DEF n, MM
<1>4. r \in [1..n -> MM]
  BY <1>3 DEF MM
<1>5. r \in Seq(MM) /\ Len(r) = n /\ \A i \in 1..n : r[i] = req[g[i]].members
  BY <1>1, <1>4
<1>6. RowsOf(g) = r
  BY <1>1 DEF RowsOf
<1> QED  BY <1>5, <1>6 DEF n, MM

LEMMA MembersType ==
  ASSUME NEW g \in Seq(Thread), \A u \in ToSet(g) : req[u] \in Request[u]
  PROVE  MembersOf(g) \in Seq(Member)
BY RowsType, FlattenType DEF MembersOf, RowsOf

LEMMA MembersTail ==
  ASSUME NEW g \in Seq(Thread), g # <<>>, \A u \in ToSet(g) : req[u] \in Request[u]
  PROVE  MembersOf(g) = Cat(req[Head(g)].members, MembersOf(Tail(g)))
<1> DEFINE n == Len(g)
           r == RowsOf(g)
           h == Tail(g)
           z == RowsOf(h)
<1>1. n \in Nat /\ n # 0 /\ 1 \in 1..n /\ Head(g) = g[1] /\ Len(h) = n - 1 /\ h \in Seq(Thread)
      /\ \A i \in 1..(n - 1) : i + 1 \in 1..n /\ h[i] = g[i + 1]
  OBVIOUS
<1>2. r \in Seq(Seq(Member)) /\ Len(r) = n /\ \A i \in 1..n : r[i] = req[g[i]].members
  BY RowsType
<1>3. \A u \in ToSet(h) : req[u] \in Request[u]
  <2>1. ToSet(h) \subseteq ToSet(g)
    BY TailFacts
  <2> HIDE DEF h
  <2> QED  BY <2>1
<1>4. z \in Seq(Seq(Member)) /\ Len(z) = n - 1
      /\ \A i \in 1..(n - 1) : z[i] = req[h[i]].members
  <2> HIDE DEF n, h
  <2> QED  BY <1>1, <1>3, RowsType
<1>5. MembersOf(g) = FlattenSeq(r) /\ MembersOf(h) = FlattenSeq(z)
  BY DEF MembersOf, RowsOf
<1> HIDE DEF n, r, h, z
<1> DEFINE MM == Seq(Member)
           y == Tail(r)
<1>6. y \in Seq(MM) /\ Len(y) = n - 1 /\ r # <<>> /\ \A i \in 1..(n - 1) : y[i] = r[i + 1]
  BY <1>1, <1>2
<1>7. z \in Seq(MM)
  BY <1>4
<1> HIDE DEF y, MM
<1>8. y = z
  <2>1. ASSUME NEW i \in 1..(n - 1)  PROVE y[i] = z[i]
    <3>1. i + 1 \in 1..n /\ h[i] = g[i + 1]
      BY <1>1
    <3>2. y[i] = r[i + 1] /\ z[i] = req[h[i]].members
      BY <1>4, <1>6
    <3>3. r[i + 1] = req[g[i + 1]].members
      BY <1>2, <3>1
    <3> QED  BY <3>1, <3>2, <3>3
  <2>2. Len(y) = Len(z) /\ Len(z) = n - 1
    BY <1>4, <1>6
  <2> QED  BY <1>6, <1>7, <2>1, <2>2, SeqEqual
<1>9. FlattenSeq(r) = Cat(r[1], FlattenSeq(y))
  BY <1>2, <1>6, FlattenTail DEF y
<1>10. r[1] = req[Head(g)].members
  BY <1>1, <1>2
<1>11. MembersOf(g) = Cat(req[Head(g)].members, MembersOf(h))
  BY <1>5, <1>8, <1>9, <1>10
<1> QED  BY <1>11 DEF h

\* The members of a group stay while the requests of its waiters do.
LEMMA MembersStay ==
  ASSUME NEW l \in Thread, group[l] \in Seq(Thread), group'[l] = group[l],
         \A u \in ToSet(group[l]) : req'[u] = req[u]
  PROVE  MembersOf(group[l])' = MembersOf(group[l])
<1> DEFINE g == group[l]
<1>1. \A i \in DOMAIN group[l] : req'[group[l][i]] = req[group[l][i]]
  BY DEF ToSet
<1>2. [i \in DOMAIN group'[l] |-> req'[group'[l][i]].members]
        = [i \in DOMAIN group[l] |-> req[group[l][i]].members]
  BY <1>1
<1> QED  BY <1>2 DEF MembersOf
-----------------------------------------------------------------------------
LEMMA JudgedAnswers ==
  ASSUME NEW rs, NEW ms, Judged(rs, ms)
  PROVE  /\ [i \in DOMAIN rs |-> [wt |-> rs[i].wt, patch |-> rs[i].patch]] = ms
         /\ \A i \in DOMAIN rs : Earned(rs[i])
<1> DEFINE n == Len(ms)
           M == Member
           x == [i \in DOMAIN rs |-> [wt |-> rs[i].wt, patch |-> rs[i].patch]]
<1>1. /\ n \in Nat /\ DOMAIN ms = 1..n /\ ms = [i \in 1..n |-> ms[i]] /\ DOMAIN rs = 1..n
      /\ \A i \in 1..n : ms[i] \in Member /\ About(ms[i], rs[i]) /\ Earned(rs[i])
  BY DEF Judged
<1>2. ASSUME NEW i \in 1..n  PROVE [wt |-> rs[i].wt, patch |-> rs[i].patch] = ms[i]
  BY <1>1 DEF Member, About
<1> HIDE DEF n
<1>3. x = [i \in 1..n |-> ms[i]]
  BY <1>1, <1>2
<1> QED  BY <1>1, <1>3

LEMMA AnswersSuffice == AnswerInv => AnswersAreEarned
<1> SUFFICES ASSUME AnswerInv, NEW t \in Thread, Answered(t)
             PROVE  /\ [i \in DOMAIN result[t] |->
                          [wt |-> result[t][i].wt, patch |-> result[t][i].patch]]
                       = req[t].members
                    /\ \A i \in DOMAIN result[t] : Earned(result[t][i])
  BY DEF AnswersAreEarned, Earned
<1>1. Judged(result[t], req[t].members)
  BY DEF AnswerInv, Answers
<1> QED  BY <1>1, JudgedAnswers

LEMMA AnswerInvInit == Init => AnswerInv
<1> SUFFICES ASSUME Init  PROVE AnswerInv
  OBVIOUS
<1>1. GateInv
  BY GateInvInit
<1>2. \A t \in Thread : /\ pc[t] = "idle" /\ result[t] = None /\ group[t] = <<>>
  BY DEF Init
<1>3. \A k \in Key : queue[k] = <<>>
  BY DEF Init
<1>4. Shapes
  BY <1>2 DEF Init, Shapes
<1>5. ToSet(<<>>) = {} /\ Distinct(<<>>)
  BY DEF ToSet, Distinct
<1>6. <<>> \in Seq(Thread)
  OBVIOUS
<1>7. Queued /\ Grouped
  BY <1>2, <1>3, <1>5, <1>6 DEF Queued, Grouped
<1>8. Staged /\ Placed /\ Waiting /\ Reported /\ Answers
  BY <1>2 DEF Staged, Placed, Waiting, Reported, Answers, Answered
<1> QED  BY <1>1, <1>4, <1>7, <1>8 DEF AnswerInv

-----------------------------------------------------------------------------
\* The key of a thread that is not idle is a key.
LEMMA KeyType ==
  ASSUME Shapes, NEW t \in Thread, pc[t] # "idle"
  PROVE  KeyOf(t) \in Key /\ req[t] \in Request[t] /\ req[t].members \in Seq(Member)
BY RequestFacts DEF Shapes, KeyOf

\* A thread that moves on with its request, waiting or leading: nothing else changes.
LEMMA SteadyKeeps ==
  ASSUME AnswerInv, NEW t \in Thread, pc[t] # "idle", NEW s \in Stage \ {"idle"}, Goto(t, s),
         UNCHANGED <<queue, req, result, group>>, DOMAIN report' = Thread
  PROVE  /\ Shapes' /\ Queued' /\ Grouped' /\ Placed' /\ Answers'
         /\ pc'[t] = s /\ \A u \in Thread : u # t => pc'[u] = pc[u]
<1> USE DEF AnswerInv
<1>1. pc'[t] = s /\ \A u \in Thread : u # t => pc'[u] = pc[u]
  BY DEF GateInv, Types, Goto
<1>2. \A u \in Thread : pc'[u] = "idle" <=> pc[u] = "idle"
  BY <1>1
<1>3. Shapes'
  BY <1>2 DEF Shapes
<1>4. \A u \in Thread : \A k : Pending(u, k)' <=> Pending(u, k)
  BY <1>2 DEF Pending, KeyOf, Answered
<1>5. \A k \in Key : \A u \in ToSet(queue[k]) : u \in Thread
  BY DEF Shapes, ToSet
<1>6. Queued'
  BY <1>4, <1>5 DEF Queued
<1>7. \A l \in Thread : KeyOf(l)' = KeyOf(l) /\ \A u \in ToSet(group[l]) : u \in Thread
  BY DEF Grouped, ToSet, KeyOf
<1>8. Grouped'
  BY <1>4, <1>7 DEF Grouped
<1>9. Placed'
  BY <1>2, <1>7 DEF Placed, Answered
<1>10. Answers'
  BY DEF Answers, Answered
<1> QED  BY <1>1, <1>3, <1>6, <1>8, <1>9, <1>10

\* ... and nobody's report changes.
LEMMA SteadyReports ==
  ASSUME AnswerInv, NEW t \in Thread, UNCHANGED <<req, group, report>>,
         \A u \in Thread : u # t => pc'[u] = pc[u],
         pc'[t] \in {"release", "share"} => pc[t] \in {"release", "share"}
  PROVE  Reported'
<1> SUFFICES ASSUME NEW l \in Thread, pc'[l] \in {"release", "share"}
             PROVE  Judged(report'[l], MembersOf(group[l])')
  BY DEF Reported
<1>1. Judged(report[l], MembersOf(group[l]))
  BY DEF AnswerInv, Reported
<1>2. MembersOf(group[l])' = MembersOf(group[l])
  BY MembersStay DEF AnswerInv, Grouped
<1> QED  BY <1>1, <1>2

\* Nobody's place in a queue changes, and nobody but t goes to the gate.
LEMMA SteadyWaits ==
  ASSUME AnswerInv, NEW t \in Thread, UNCHANGED <<queue, req>>,
         \A u \in Thread : u # t => pc'[u] = pc[u],
         pc'[t] \in {"gate", "drain"} => t \in ToSet(queue[KeyOf(t)])
  PROVE  Waiting'
BY DEF AnswerInv, Waiting, KeyOf

\* An answered thread returns: it is in no queue and no group.
LEMMA ReturnKeeps ==
  ASSUME AnswerInv, GateInv', NEW t \in Thread, pc[t] \in {"look", "waits", "locked"},
         Answered(t), Return(t), UNCHANGED <<queue, group, report>>
  PROVE  AnswerInv'
<1> USE DEF AnswerInv
<1>1. /\ pc'[t] = "idle" /\ req'[t] = None /\ result'[t] = None /\ DOMAIN result' = Thread
      /\ \A u \in Thread : u # t => pc'[u] = pc[u] /\ req'[u] = req[u] /\ result'[u] = result[u]
  BY DEF GateInv, Types, Shapes, Return, Goto
<1>2. Shapes'
  BY <1>1 DEF Shapes
<1>3. \A u \in Thread : \A k : Pending(u, k) => u # t /\ Pending(u, k)'
  BY <1>1 DEF Pending, KeyOf, Answered
<1>4. \A k \in Key : \A u \in ToSet(queue[k]) : u \in Thread
  BY DEF Shapes, ToSet
<1>5. Queued'
  BY <1>3, <1>4 DEF Queued
<1>6. \A l \in Thread : \A u \in ToSet(group[l]) : u \in Thread
  BY DEF Grouped, ToSet
<1>7. group[t] = <<>>
  BY DEF Staged
<1>8. ASSUME NEW l \in Thread
      PROVE  /\ group'[l] \in Seq(Thread) /\ Distinct(group'[l])
             /\ \A u \in ToSet(group'[l]) : /\ Pending(u, KeyOf(l))' /\ u # t
                                            /\ u \notin ToSet(queue'[KeyOf(l)'])
  <2>1. CASE l = t
    <3>1. <<>> \in Seq(Thread) /\ Distinct(<<>>) /\ ToSet(<<>>) = {}
      BY DEF Distinct, ToSet
    <3> QED  BY <1>7, <2>1, <3>1
  <2>2. CASE l # t
    <3>1. KeyOf(l)' = KeyOf(l)
      BY <1>1, <2>2 DEF KeyOf
    <3>2. \A u \in ToSet(group[l]) : Pending(u, KeyOf(l)) /\ u \notin ToSet(queue[KeyOf(l)])
      BY DEF Grouped
    <3>3. \A u \in ToSet(group[l]) : Pending(u, KeyOf(l))' /\ u # t
      <4> SUFFICES ASSUME NEW u \in ToSet(group[l])  PROVE Pending(u, KeyOf(l))' /\ u # t
        OBVIOUS
      <4>1. u \in Thread /\ Pending(u, KeyOf(l))
        BY <1>6, <3>2
      <4> QED  BY <1>1, <3>1, <4>1 DEF Pending, Answered, KeyOf
    <3> QED  BY <3>1, <3>2, <3>3 DEF Grouped
  <2> QED  BY <2>1, <2>2
<1>9. Grouped'
  BY <1>8 DEF Grouped
<1>10. Staged'
  BY <1>1, <1>7 DEF Staged
<1>11. Placed' /\ Waiting' /\ Answers'
  BY <1>1 DEF Placed, Waiting, Answers, Answered, KeyOf
<1>12. Reported'
  <2> SUFFICES ASSUME NEW l \in Thread, pc'[l] \in {"release", "share"}
               PROVE  Judged(report'[l], MembersOf(group[l])')
    BY DEF Reported
  <2>1. l # t /\ pc[l] = pc'[l]
    BY <1>1
  <2>2. \A u \in ToSet(group[l]) : req'[u] = req[u]
    BY <1>1, <1>6, <1>8
  <2>3. MembersOf(group[l])' = MembersOf(group[l])
    BY <2>2, MembersStay DEF Grouped
  <2>4. Judged(report[l], MembersOf(group[l]))
    BY <2>1 DEF Reported
  <2> QED  BY <2>3, <2>4
<1> QED  BY <1>2, <1>5, <1>9, <1>10, <1>11, <1>12
-----------------------------------------------------------------------------
\* The steps that are no drain and no handing out.
LEMMA LookAnswers ==
  ASSUME AnswerInv, GateInv', NEW t \in Thread, Look(t)
  PROVE  AnswerInv'
<1>1. UNCHANGED <<queue, group, report>>
  BY DEF Look, queues, runs
<1>2. CASE Answered(t) /\ Return(t)
  BY <1>1, <1>2, ReturnKeeps DEF Look
<1>3. CASE ~Answered(t) /\ Goto(t, "locked") /\ UNCHANGED <<req, result>>
  <2>1. pc[t] # "idle" /\ pc[t] \notin {"run", "release", "share"} /\ DOMAIN report' = Thread
    BY <1>1 DEF Look, AnswerInv, Shapes
  <2>2. /\ Shapes' /\ Queued' /\ Grouped' /\ Placed' /\ Answers'
        /\ pc'[t] = "locked" /\ \A u \in Thread : u # t => pc'[u] = pc[u]
    BY <1>1, <1>3, <2>1, SteadyKeeps DEF Stage
  <2>3. Reported' /\ Waiting'
    BY <1>1, <1>3, <2>2, SteadyReports, SteadyWaits
  <2>4. Staged'
    BY <1>1, <2>1, <2>2 DEF AnswerInv, Staged
  <2> QED  BY <2>2, <2>3, <2>4 DEF AnswerInv
<1> QED  BY <1>2, <1>3 DEF Look

LEMMA ElectAnswers ==
  ASSUME AnswerInv, GateInv', NEW t \in Thread, Elect(t)
  PROVE  AnswerInv'
<1>1. UNCHANGED <<queue, group, report>> /\ pc[t] = "locked"
  BY DEF Elect, gate, runs
<1>2. CASE Answered(t) /\ Return(t)
  BY <1>1, <1>2, ReturnKeeps
<1>3. ASSUME NEW s \in {"gate", "waits"}, Goto(t, s), UNCHANGED <<req, result>>,
             s = "gate" => t \in ToSet(queue[KeyOf(t)])
      PROVE  AnswerInv'
  <2>1. pc[t] # "idle" /\ pc[t] \notin {"run", "release", "share"} /\ DOMAIN report' = Thread
    BY <1>1 DEF AnswerInv, Shapes
  <2>2. /\ Shapes' /\ Queued' /\ Grouped' /\ Placed' /\ Answers'
        /\ pc'[t] = s /\ \A u \in Thread : u # t => pc'[u] = pc[u]
    BY <1>1, <1>3, <2>1, SteadyKeeps DEF Stage
  <2>3. Reported' /\ Waiting'
    BY <1>1, <1>3, <2>2, SteadyReports, SteadyWaits
  <2>4. Staged'
    BY <1>1, <2>1, <2>2 DEF AnswerInv, Staged
  <2> QED  BY <2>2, <2>3, <2>4 DEF AnswerInv
\* Its key has no leader, so nobody has drained it.
<1>4. CASE ~Answered(t) /\ KeyOf(t) \in open \ led /\ Goto(t, "gate") /\ UNCHANGED <<req, result>>
  <2>1. t \in ToSet(queue[KeyOf(t)])
    <3> SUFFICES ASSUME NEW l \in Thread, t \in ToSet(group[l])  PROVE FALSE
      BY <1>1, <1>4 DEF AnswerInv, Placed
    <3>1. group[l] # <<>>
      BY DEF ToSet
    <3>2. Leads(l)
      BY <3>1 DEF AnswerInv, Staged, Leads
    <3>3. KeyOf(t) = KeyOf(l)
      BY DEF AnswerInv, Grouped, Pending
    <3> QED  BY <1>4, <3>2, <3>3 DEF AnswerInv, GateInv, LedBy
  <2> QED  BY <1>3, <1>4, <2>1
<1>5. CASE Park(t, "waits") /\ UNCHANGED <<req, result>>
  BY <1>3, <1>5 DEF Park
<1> QED  BY <1>2, <1>4, <1>5 DEF Elect

LEMMA ClaimAnswers ==
  ASSUME AnswerInv, GateInv', NEW t \in Thread, Claim(t)
  PROVE  AnswerInv'
<1>1. UNCHANGED <<queue, req, result, group, report>> /\ pc[t] = "gate"
  BY DEF Claim, queues, runs
<1>2. PICK s \in {"gate", "drain"} : Goto(t, s)
  BY DEF Claim, Park
<1>3. pc[t] # "idle" /\ pc[t] \notin {"run", "release", "share"} /\ DOMAIN report' = Thread
  BY <1>1 DEF AnswerInv, Shapes
<1>4. /\ Shapes' /\ Queued' /\ Grouped' /\ Placed' /\ Answers'
      /\ pc'[t] = s /\ \A u \in Thread : u # t => pc'[u] = pc[u]
  BY <1>1, <1>2, <1>3, SteadyKeeps DEF Stage
<1>5. t \in ToSet(queue[KeyOf(t)])
  BY <1>1 DEF AnswerInv, Waiting
<1>6. Reported' /\ Waiting'
  BY <1>1, <1>4, <1>5, SteadyReports, SteadyWaits
<1>7. Staged'
  BY <1>1, <1>3, <1>4 DEF AnswerInv, Staged
<1> QED  BY <1>4, <1>6, <1>7 DEF AnswerInv

LEMMA RunAnswers ==
  ASSUME AnswerInv, GateInv', NEW t \in Thread, Run(t)
  PROVE  AnswerInv'
<1>1. UNCHANGED <<queue, req, result, group>> /\ pc[t] = "run" /\ Goto(t, "release")
  BY DEF Run, queues
<1>2. PICK results \in Outcomes(MembersOf(group[t]), req[group[t][1]].corun) :
        report' = [report EXCEPT ![t] = results]
  BY DEF Run
<1>3. /\ DOMAIN report' = Thread /\ report'[t] = results
      /\ \A l \in Thread : l # t => report'[l] = report[l]
  BY <1>2 DEF AnswerInv, Shapes
<1>4. /\ Shapes' /\ Queued' /\ Grouped' /\ Placed' /\ Answers'
      /\ pc'[t] = "release" /\ \A u \in Thread : u # t => pc'[u] = pc[u]
  BY <1>1, <1>3, SteadyKeeps DEF Stage
<1>5. Waiting'
  BY <1>1, <1>4, SteadyWaits
<1>6. Staged'
  BY <1>1, <1>4 DEF AnswerInv, Staged
<1>7. MembersOf(group[t]) \in Seq(Member)
  <2>1. \A u \in ToSet(group[t]) : u \in Thread /\ pc[u] # "idle"
    BY DEF AnswerInv, Grouped, Pending, ToSet
  <2>2. \A u \in ToSet(group[t]) : req[u] \in Request[u]
    BY <2>1 DEF AnswerInv, Shapes
  <2> QED  BY <2>2, MembersType DEF AnswerInv, Grouped
<1>8. Judged(results, MembersOf(group[t]))
  BY <1>2, <1>7, OutcomesJudge
<1>9. Reported'
  <2> SUFFICES ASSUME NEW l \in Thread, pc'[l] \in {"release", "share"}
               PROVE  Judged(report'[l], MembersOf(group[l])')
    BY DEF Reported
  <2>1. MembersOf(group[l])' = MembersOf(group[l])
    BY <1>1, MembersStay DEF AnswerInv, Grouped
  <2>2. CASE l = t
    BY <1>3, <1>8, <2>1, <2>2
  <2>3. CASE l # t
    BY <1>3, <1>4, <2>1, <2>3 DEF AnswerInv, Reported
  <2> QED  BY <2>2, <2>3
<1> QED  BY <1>4, <1>5, <1>6, <1>9 DEF AnswerInv

LEMMA ReleaseAnswers ==
  ASSUME AnswerInv, GateInv', NEW t \in Thread, Release(t)
  PROVE  AnswerInv'
<1>1. UNCHANGED <<queue, req, result, group, report>> /\ pc[t] = "release" /\ Goto(t, "share")
  BY DEF Release, queues, runs
<1>2. DOMAIN report' = Thread
  BY <1>1 DEF AnswerInv, Shapes
<1>3. /\ Shapes' /\ Queued' /\ Grouped' /\ Placed' /\ Answers'
      /\ pc'[t] = "share" /\ \A u \in Thread : u # t => pc'[u] = pc[u]
  BY <1>1, <1>2, SteadyKeeps DEF Stage
<1>4. Reported' /\ Waiting'
  BY <1>1, <1>3, SteadyReports, SteadyWaits
<1>5. Staged'
  BY <1>1, <1>3 DEF AnswerInv, Staged
<1> QED  BY <1>3, <1>4, <1>5 DEF AnswerInv

LEMMA FinishLeaderAnswers ==
  ASSUME AnswerInv, GateInv', NEW t \in Thread, FinishLeader(t)
  PROVE  AnswerInv'
<1>1. UNCHANGED <<queue, req, result, group, report>> /\ pc[t] = "finish" /\ Goto(t, "look")
  BY DEF FinishLeader, runs
<1>2. DOMAIN report' = Thread
  BY <1>1 DEF AnswerInv, Shapes
<1>3. /\ Shapes' /\ Queued' /\ Grouped' /\ Placed' /\ Answers'
      /\ pc'[t] = "look" /\ \A u \in Thread : u # t => pc'[u] = pc[u]
  BY <1>1, <1>2, SteadyKeeps DEF Stage
<1>4. Reported' /\ Waiting'
  BY <1>1, <1>3, SteadyReports, SteadyWaits
<1>5. Staged'
  BY <1>1, <1>3 DEF AnswerInv, Staged
<1> QED  BY <1>3, <1>4, <1>5 DEF AnswerInv

-----------------------------------------------------------------------------
LEMMA SubmitAnswers ==
  ASSUME AnswerInv, GateInv', NEW t \in Thread, NEW r \in Request[t], Submit(t, r)
  PROVE  AnswerInv'
<1> USE DEF AnswerInv
<1>1. /\ pc[t] = "idle" /\ UNCHANGED <<group, report>>
      /\ r.key \in Key /\ queue' = [queue EXCEPT ![r.key] = Append(@, t)]
  BY RequestFacts DEF Submit, runs
<1>2. /\ pc'[t] = "look" /\ req'[t] = r /\ result'[t] = None /\ DOMAIN result' = Thread
      /\ \A u \in Thread : u # t => pc'[u] = pc[u] /\ req'[u] = req[u] /\ result'[u] = result[u]
  BY DEF GateInv, Types, Shapes, Submit, Goto
<1>3. /\ \A k \in Key : queue[k] \in Seq(Thread) /\ \A u \in ToSet(queue[k]) : u \in Thread /\ u # t
      /\ \A l \in Thread : \A u \in ToSet(group[l]) : u \in Thread /\ u # t
  BY <1>1 DEF Shapes, Queued, Grouped, Pending, ToSet
<1>4. /\ queue' \in [Key -> Seq(Thread)]
      /\ \A k \in Key : /\ ToSet(queue[k]) \subseteq ToSet(queue'[k])
                        /\ ToSet(queue'[k]) \subseteq ToSet(queue[k]) \cup {t}
                        /\ k # r.key => queue'[k] = queue[k]
                        /\ Distinct(queue[k]) => Distinct(queue'[k])
      /\ t \in ToSet(queue'[r.key])
  <2> DEFINE q == queue[r.key]
             a == Append(q, t)
  <2>1. /\ q \in Seq(Thread) /\ a \in Seq(Thread) /\ ToSet(a) = ToSet(q) \cup {t}
        /\ Distinct(q) => Distinct(a)
    BY <1>1, <1>3, AppendFacts
  <2>2. queue'[r.key] = a /\ \A k \in Key : k # r.key => queue'[k] = queue[k]
    BY <1>1 DEF Shapes
  <2>3. queue' \in [Key -> Seq(Thread)]
    BY <1>1, <2>1 DEF Shapes
  <2> HIDE DEF a
  <2> QED  BY <2>1, <2>2, <2>3
<1>5. Shapes'
  BY <1>1, <1>2, <1>4 DEF Shapes
<1>6. \A u \in Thread : u # t => /\ KeyOf(u)' = KeyOf(u) /\ (Answered(u)' <=> Answered(u))
                                 /\ \A k : Pending(u, k)' <=> Pending(u, k)
  BY <1>2 DEF Pending, KeyOf, Answered
<1>7. Pending(t, r.key)' /\ KeyOf(t)' = r.key
  BY <1>2 DEF Pending, KeyOf, Answered
<1>8. Queued'
  <2> SUFFICES ASSUME NEW k \in Key
               PROVE  Distinct(queue'[k]) /\ \A u \in ToSet(queue'[k]) : Pending(u, k)'
    BY DEF Queued
  <2>1. Distinct(queue'[k])
    BY <1>4 DEF Queued
  <2>2. ASSUME NEW u \in ToSet(queue'[k])  PROVE Pending(u, k)'
    <3>1. CASE k = r.key
      BY <1>3, <1>4, <1>6, <1>7, <2>2, <3>1 DEF Queued
    <3>2. CASE k # r.key
      BY <1>3, <1>4, <1>6, <2>2, <3>2 DEF Queued
    <3> QED  BY <3>1, <3>2
  <2> QED  BY <2>1, <2>2
<1>9. group[t] = <<>>
  BY <1>1 DEF Staged
<1>10. Grouped'
  <2> SUFFICES ASSUME NEW l \in Thread
               PROVE  /\ group'[l] \in Seq(Thread) /\ Distinct(group'[l])
                      /\ \A u \in ToSet(group'[l]) :
                           Pending(u, KeyOf(l))' /\ u \notin ToSet(queue'[KeyOf(l)'])
    BY DEF Grouped
  <2>1. group'[l] \in Seq(Thread) /\ Distinct(group'[l])
    BY <1>1 DEF Grouped
  <2>2. ASSUME NEW u \in ToSet(group[l])
        PROVE  Pending(u, KeyOf(l))' /\ u \notin ToSet(queue'[KeyOf(l)'])
    <3>1. group[l] # <<>>
      BY <2>2 DEF ToSet
    <3>2. l # t /\ u # t /\ u \in Thread
      BY <1>3, <1>9, <2>2, <3>1
    <3>3. pc[l] # "idle"
      BY <3>1 DEF Staged
    <3>4. Pending(u, KeyOf(l)) /\ u \notin ToSet(queue[KeyOf(l)]) /\ KeyOf(l) \in Key
      BY <2>2, <3>3, KeyType DEF Grouped
    <3>5. KeyOf(l)' = KeyOf(l)
      BY <1>6, <3>2
    <3>6. u \notin ToSet(queue'[KeyOf(l)])
      BY <1>4, <3>2, <3>4
    <3>7. Pending(u, KeyOf(l))'
      BY <1>2, <3>2, <3>4, <3>5 DEF Pending, KeyOf, Answered
    <3> QED  BY <3>5, <3>6, <3>7
  <2> QED  BY <1>1, <2>1, <2>2
<1>11. Staged'
  BY <1>1, <1>2, <1>9 DEF Staged
<1>12. Placed'
  <2> SUFFICES ASSUME NEW u \in Thread, pc'[u] # "idle", ~Answered(u)'
               PROVE  u \in ToSet(queue'[KeyOf(u)']) \/ \E l \in Thread : u \in ToSet(group'[l])
    BY DEF Placed
  <2>1. CASE u = t
    BY <1>4, <1>7, <2>1
  <2>2. CASE u # t
    <3>1. /\ KeyOf(u) \in Key /\ KeyOf(u)' = KeyOf(u)
          /\ u \in ToSet(queue[KeyOf(u)]) \/ \E l \in Thread : u \in ToSet(group[l])
      BY <1>2, <1>6, <2>2, KeyType DEF Placed
    <3> QED  BY <1>1, <1>4, <3>1
  <2> QED  BY <2>1, <2>2
<1>13. Waiting'
  <2> SUFFICES ASSUME NEW u \in Thread, pc'[u] \in {"gate", "drain"}
               PROVE  u \in ToSet(queue'[KeyOf(u)'])
    BY DEF Waiting
  <2>1. u # t /\ pc[u] \in {"gate", "drain"}
    BY <1>2
  <2>2. KeyOf(u) \in Key /\ KeyOf(u)' = KeyOf(u) /\ u \in ToSet(queue[KeyOf(u)])
    BY <1>6, <2>1, KeyType DEF Waiting
  <2> QED  BY <1>4, <2>2
<1>14. Reported'
  <2> SUFFICES ASSUME NEW l \in Thread, pc'[l] \in {"release", "share"}
               PROVE  Judged(report'[l], MembersOf(group[l])')
    BY DEF Reported
  <2>1. l # t /\ pc[l] = pc'[l]
    BY <1>2
  <2>2. \A u \in ToSet(group[l]) : req'[u] = req[u]
    BY <1>2, <1>3
  <2>3. MembersOf(group[l])' = MembersOf(group[l])
    BY <1>1, <2>2, MembersStay DEF Grouped
  <2>4. Judged(report[l], MembersOf(group[l]))
    BY <2>1 DEF Reported
  <2> QED  BY <1>1, <2>3, <2>4
<1>15. Answers'
  BY <1>2 DEF Answers, Answered
<1> QED  BY <1>5, <1>8, <1>10, <1>11, <1>12, <1>13, <1>14, <1>15
-----------------------------------------------------------------------------
\* A leader moves the waiters it drained from its queue to its group.
LEMMA DrainGroupAnswers ==
  ASSUME AnswerInv, GateInv', NEW t \in Thread, DrainGroup(t)
  PROVE  AnswerInv'
<1> USE DEF AnswerInv
<1> DEFINE k == KeyOf(t)
           s == queue[k]
           g == Drained(s)
           J == {i \in DOMAIN s : s[i] \notin ToSet(g)}
           rest == Pick(s, J)
<1>1. /\ pc[t] = "drain" /\ UNCHANGED <<req, result, report>>
      /\ queue' = [queue EXCEPT ![k] = rest] /\ group' = [group EXCEPT ![t] = g]
      /\ Goto(t, IF g = <<>> THEN "finish" ELSE "run")
  BY DEF DrainGroup
<1>2. k \in Key /\ s \in Seq(Thread) /\ Distinct(s) /\ t \in ToSet(s)
  BY <1>1, KeyType DEF Shapes, Queued, Waiting
<1>3. s # <<>>
  BY <1>2 DEF ToSet
<1>4. J \in SUBSET (DOMAIN s)
  OBVIOUS
<1>5. \A i \in DOMAIN s : i \in J <=> s[i] \notin ToSet(g)
  OBVIOUS
<1> HIDE DEF k, s, g, J, rest
<1>6. g \in Seq(Thread) /\ g # <<>> /\ Distinct(g) /\ ToSet(g) \subseteq ToSet(s)
  BY <1>2, <1>3, DrainedFacts DEF g
<1>7. rest \in Seq(Thread) /\ Distinct(rest) /\ ToSet(rest) = {s[i] : i \in J}
  BY <1>2, <1>4, PickFacts DEF rest
<1>8. ToSet(rest) = ToSet(s) \ ToSet(g)
  BY <1>4, <1>5, <1>7 DEF ToSet
<1>9. /\ queue' \in [Key -> Seq(Thread)] /\ queue'[k] = rest
      /\ \A j \in Key : j # k => queue'[j] = queue[j]
      /\ group'[t] = g /\ \A l \in Thread : l # t => group'[l] = group[l]
  BY <1>1, <1>2, <1>7 DEF GateInv, Types, Shapes
<1>10. pc'[t] = "run" /\ \A u \in Thread : u # t => pc'[u] = pc[u]
  BY <1>1, <1>6 DEF GateInv, Types, Goto
<1>11. \A u \in Thread : /\ pc'[u] = "idle" <=> pc[u] = "idle"
                         /\ KeyOf(u)' = KeyOf(u) /\ (Answered(u)' <=> Answered(u))
                         /\ \A j : Pending(u, j)' <=> Pending(u, j)
  <2>1. \A u \in Thread : pc'[u] = "idle" <=> pc[u] = "idle"
    BY <1>1, <1>10
  <2> QED  BY <1>1, <2>1 DEF Pending, KeyOf, Answered
<1>12. Shapes'
  BY <1>1, <1>9, <1>11 DEF Shapes
<1>13. /\ \A j \in Key : \A u \in ToSet(queue[j]) : u \in Thread /\ Pending(u, j)
       /\ \A l \in Thread : \A u \in ToSet(group[l]) : u \in Thread
  BY DEF Shapes, Queued, Grouped, ToSet
<1>14. Queued'
  <2> SUFFICES ASSUME NEW j \in Key
               PROVE  Distinct(queue'[j]) /\ \A u \in ToSet(queue'[j]) : Pending(u, j)'
    BY DEF Queued
  <2>1. CASE j = k
    <3>1. \A u \in ToSet(rest) : u \in Thread /\ Pending(u, k)
      BY <1>2, <1>8, <1>13 DEF s
    <3> QED  BY <1>7, <1>9, <1>11, <2>1, <3>1
  <2>2. CASE j # k
    BY <1>9, <1>11, <1>13, <2>2 DEF Queued
  <2> QED  BY <2>1, <2>2
<1>15. ASSUME NEW l \in Thread, l # t  PROVE pc[l] # "idle" => KeyOf(l) # k \/ group[l] = <<>>
  <2> SUFFICES ASSUME KeyOf(l) = k, group[l] # <<>>  PROVE FALSE
    OBVIOUS
  <2>1. Leads(l) /\ Leads(t) /\ KeyOf(l) = KeyOf(t)
    BY <1>1 DEF Staged, Leads, k
  <2> QED  BY <1>15, <2>1 DEF GateInv, OneLeader
<1>16. Grouped'
  <2> SUFFICES ASSUME NEW l \in Thread
               PROVE  /\ group'[l] \in Seq(Thread) /\ Distinct(group'[l])
                      /\ \A u \in ToSet(group'[l]) :
                           Pending(u, KeyOf(l))' /\ u \notin ToSet(queue'[KeyOf(l)'])
    BY DEF Grouped
  <2>1. KeyOf(l)' = KeyOf(l)
    BY <1>11
  <2>2. CASE l = t
    <3>1. KeyOf(l) = k
      BY <2>2 DEF k
    <3>2. \A u \in ToSet(g) : u \in Thread /\ Pending(u, k) /\ u \notin ToSet(rest)
      BY <1>2, <1>6, <1>8, <1>13 DEF s
    <3>3. \A u \in ToSet(g) : Pending(u, KeyOf(l))'
      <4> SUFFICES ASSUME NEW u \in ToSet(g)  PROVE Pending(u, KeyOf(l))'
        OBVIOUS
      <4>1. u \in Thread /\ Pending(u, KeyOf(l))
        BY <3>1, <3>2
      <4> QED  BY <1>11, <2>1, <4>1 DEF Pending
    <3> QED  BY <1>6, <1>9, <2>1, <2>2, <3>1, <3>2, <3>3
  <2>3. CASE l # t
    <3>1. group'[l] = group[l] /\ group[l] \in Seq(Thread) /\ Distinct(group[l])
      BY <1>9, <2>3 DEF Grouped
    <3>2. ASSUME NEW u \in ToSet(group[l])
          PROVE  Pending(u, KeyOf(l))' /\ u \notin ToSet(queue'[KeyOf(l)'])
      <4>1. u \in Thread /\ Pending(u, KeyOf(l)) /\ u \notin ToSet(queue[KeyOf(l)])
        BY <1>13, <3>2 DEF Grouped
      <4>2. group[l] # <<>>
        BY <3>2 DEF ToSet
      <4>3. pc[l] # "idle"
        BY <4>2 DEF Staged
      <4>4. KeyOf(l) # k /\ KeyOf(l) \in Key
        BY <1>15, <2>3, <4>2, <4>3, KeyType
      <4>5. Pending(u, KeyOf(l))'
        BY <1>11, <2>1, <4>1 DEF Pending
      <4> QED  BY <1>9, <2>1, <4>1, <4>4, <4>5
    <3> QED  BY <3>1, <3>2
  <2> QED  BY <2>2, <2>3
<1>17. Staged'
  BY <1>6, <1>9, <1>10 DEF Staged
<1>18. Placed'
  <2> SUFFICES ASSUME NEW u \in Thread, pc'[u] # "idle", ~Answered(u)'
               PROVE  u \in ToSet(queue'[KeyOf(u)']) \/ \E l \in Thread : u \in ToSet(group'[l])
    BY DEF Placed
  <2>1. /\ KeyOf(u) \in Key /\ KeyOf(u)' = KeyOf(u)
        /\ u \in ToSet(queue[KeyOf(u)]) \/ \E l \in Thread : u \in ToSet(group[l])
    BY <1>11, KeyType DEF Placed
  <2>2. CASE u \in ToSet(queue[KeyOf(u)])
    BY <1>8, <1>9, <2>1, <2>2 DEF s
  <2>3. ASSUME NEW l \in Thread, u \in ToSet(group[l])
        PROVE  \E h \in Thread : u \in ToSet(group'[h])
    <3>1. group[l] # <<>>
      BY <2>3 DEF ToSet
    <3>2. l # t
      BY <1>1, <3>1 DEF Staged
    <3> QED  BY <1>9, <2>3, <3>2
  <2> QED  BY <2>1, <2>2, <2>3
<1>19. Waiting'
  <2> SUFFICES ASSUME NEW u \in Thread, pc'[u] \in {"gate", "drain"}
               PROVE  u \in ToSet(queue'[KeyOf(u)'])
    BY DEF Waiting
  <2>1. u # t /\ pc[u] \in {"gate", "drain"}
    BY <1>10
  <2>2. KeyOf(u) \in Key /\ KeyOf(u)' = KeyOf(u) /\ u \in ToSet(queue[KeyOf(u)])
    BY <1>11, <2>1, KeyType DEF Waiting
  <2>3. KeyOf(u) # k
    BY <1>1, <2>1 DEF GateInv, OneLeader, Leads, k
  <2> QED  BY <1>9, <2>2, <2>3
<1>20. Reported'
  <2> SUFFICES ASSUME NEW l \in Thread, pc'[l] \in {"release", "share"}
               PROVE  Judged(report'[l], MembersOf(group[l])')
    BY DEF Reported
  <2>1. l # t /\ pc[l] = pc'[l]
    BY <1>10
  <2>2. MembersOf(group[l])' = MembersOf(group[l])
    BY <1>1, <1>9, <2>1, MembersStay DEF Grouped
  <2> QED  BY <1>1, <2>1, <2>2 DEF Reported
<1>21. Answers'
  BY <1>1 DEF Answers, Answered
<1> QED  BY <1>12, <1>14, <1>16, <1>17, <1>18, <1>19, <1>20, <1>21

\* A waiter gets the slice of the report that is about its members.
LEMMA DistributeAnswers ==
  ASSUME AnswerInv, GateInv', NEW t \in Thread, Distribute(t)
  PROVE  AnswerInv'
<1> USE DEF AnswerInv
<1> DEFINE h == group[t]
           w == Head(h)
           ms == req[w].members
           rs == report[t]
           part == SubSeq(rs, 1, Len(ms))
           rest == SubSeq(rs, Len(ms) + 1, Len(rs))
<1>1. /\ pc[t] = "share" /\ UNCHANGED <<queue, req>>
      /\ result' = [result EXCEPT ![w] = part]
      /\ report' = [report EXCEPT ![t] = rest]
      /\ group' = [group EXCEPT ![t] = Tail(h)]
      /\ IF Len(h) = 1 THEN Goto(t, "finish") ELSE pc' = pc
  BY DEF Distribute, Slice, queues
<1>2. h \in Seq(Thread) /\ Distinct(h) /\ h # <<>>
  BY <1>1 DEF Grouped, Staged
<1>3. \A l \in Thread : \A u \in ToSet(group[l]) :
        /\ u \in Thread /\ Pending(u, KeyOf(l)) /\ u \notin ToSet(queue[KeyOf(l)])
        /\ KeyOf(u) = KeyOf(l) /\ req[u] \in Request[u] /\ group[l] # <<>>
  BY DEF Grouped, Pending, Shapes, ToSet
<1>4. Judged(rs, MembersOf(h))
  BY <1>1 DEF Reported
<1>5. MembersOf(h) = Cat(ms, MembersOf(Tail(h)))
  BY <1>2, <1>3, MembersTail
<1> HIDE DEF h, ms, rs, part, rest
<1>6. /\ Tail(h) \in Seq(Thread) /\ w \in ToSet(h) /\ ToSet(Tail(h)) \subseteq ToSet(h)
      /\ ToSet(h) \subseteq ToSet(Tail(h)) \cup {w}
      /\ Distinct(Tail(h)) /\ w \notin ToSet(Tail(h))
      /\ Len(h) = 1 <=> Tail(h) = <<>>
  BY <1>2, TailFacts
<1> HIDE DEF w
<1>7. /\ w \in Thread /\ Pending(w, KeyOf(t)) /\ w \notin ToSet(queue[KeyOf(t)])
      /\ KeyOf(w) = KeyOf(t) /\ req[w] \in Request[w] /\ ms \in Seq(Member)
  BY <1>3, <1>6, RequestFacts DEF h, ms
<1>8. MembersOf(Tail(h)) \in Seq(Member)
  BY <1>3, <1>6, MembersType DEF h
<1>9. Judged(part, ms) /\ Judged(rest, MembersOf(Tail(h)))
  BY <1>4, <1>5, <1>7, <1>8, SliceJudges DEF part, rest
<1>10. /\ DOMAIN result' = Thread /\ result'[w] = part
       /\ \A u \in Thread : u # w => result'[u] = result[u]
       /\ DOMAIN report' = Thread /\ report'[t] = rest
       /\ \A l \in Thread : l # t => report'[l] = report[l]
       /\ group'[t] = Tail(h) /\ \A l \in Thread : l # t => group'[l] = group[l]
  BY <1>1, <1>7 DEF GateInv, Types, Shapes
<1>11. /\ pc'[t] = (IF Len(h) = 1 THEN "finish" ELSE "share")
       /\ \A u \in Thread : u # t => pc'[u] = pc[u]
       /\ \A u \in Thread : pc'[u] = "idle" <=> pc[u] = "idle"
  BY <1>1 DEF GateInv, Types, Goto
<1>12. part # None
  BY <1>9, CoalescerAssumption DEF Judged
<1>13. \A u \in Thread : KeyOf(u)' = KeyOf(u) /\ (u # w => (Answered(u)' <=> Answered(u)))
  BY <1>1, <1>10 DEF KeyOf, Answered
<1>14. \A u \in Thread : u # w => \A j : Pending(u, j)' <=> Pending(u, j)
  BY <1>11, <1>13 DEF Pending
<1>15. Shapes'
  <2>1. pc[w] # "idle"
    BY <1>7 DEF Pending
  <2> QED  BY <1>1, <1>7, <1>10, <1>11, <2>1 DEF Shapes
\* The waiter is in no queue, and in no other group.
<1>16. \A j \in Key : w \notin ToSet(queue[j])
  <2>1. \A j \in Key : w \in ToSet(queue[j]) => KeyOf(w) = j
    BY DEF Queued, Pending
  <2> QED  BY <1>7, <2>1
<1>17. \A l \in Thread : w \in ToSet(group[l]) => l = t
  <2> SUFFICES ASSUME NEW l \in Thread, w \in ToSet(group[l])  PROVE l = t
    OBVIOUS
  <2>1. KeyOf(l) = KeyOf(t) /\ group[l] # <<>>
    BY <1>3, <1>7
  <2>2. Leads(l) /\ Leads(t)
    BY <1>1, <2>1 DEF Staged, Leads
  <2> QED  BY <2>1, <2>2 DEF GateInv, OneLeader
<1>18. Queued'
  <2>1. \A j \in Key : \A u \in ToSet(queue[j]) : u \in Thread /\ u # w
    BY <1>16 DEF Shapes, ToSet
  <2> QED  BY <1>1, <1>14, <2>1 DEF Queued
<1>19. \A l \in Thread : \A u \in ToSet(group'[l]) : u \in ToSet(group[l]) /\ u # w
  <2>1. \A u \in ToSet(group'[t]) : u \in ToSet(group[t]) /\ u # w
    BY <1>6, <1>10 DEF h
  <2> QED  BY <1>10, <1>17, <2>1
<1>20. Grouped'
  <2> SUFFICES ASSUME NEW l \in Thread
               PROVE  /\ group'[l] \in Seq(Thread) /\ Distinct(group'[l])
                      /\ \A u \in ToSet(group'[l]) :
                           Pending(u, KeyOf(l))' /\ u \notin ToSet(queue'[KeyOf(l)'])
    BY DEF Grouped
  <2>1. KeyOf(l)' = KeyOf(l)
    BY <1>13
  <2>2. group'[l] \in Seq(Thread) /\ Distinct(group'[l])
    <3>1. CASE l = t
      BY <1>6, <1>10, <3>1
    <3>2. CASE l # t
      BY <1>10, <3>2 DEF Grouped
    <3> QED  BY <3>1, <3>2
  <2>3. ASSUME NEW u \in ToSet(group'[l])
        PROVE  Pending(u, KeyOf(l))' /\ u \notin ToSet(queue'[KeyOf(l)'])
    <3>1. u # w /\ u \in Thread /\ Pending(u, KeyOf(l)) /\ u \notin ToSet(queue[KeyOf(l)])
      BY <1>3, <1>19, <2>3
    <3>2. Pending(u, KeyOf(l))'
      BY <1>11, <1>13, <2>1, <3>1 DEF Pending
    <3> QED  BY <1>1, <2>1, <3>1, <3>2
  <2> QED  BY <2>2, <2>3
<1>21. Staged'
  <2>1. group'[t] # <<>> <=> pc'[t] \in {"run", "release", "share"}
    BY <1>6, <1>10, <1>11
  <2> QED  BY <1>10, <1>11, <2>1 DEF Staged
<1>22. Placed'
  <2> SUFFICES ASSUME NEW u \in Thread, pc'[u] # "idle", ~Answered(u)'
               PROVE  u \in ToSet(queue'[KeyOf(u)']) \/ \E l \in Thread : u \in ToSet(group'[l])
    BY DEF Placed
  <2>1. u # w
    BY <1>10, <1>12 DEF Answered
  <2>2. u \in ToSet(queue[KeyOf(u)]) \/ \E l \in Thread : u \in ToSet(group[l])
    BY <1>11, <1>13, <2>1 DEF Placed
  <2>3. ASSUME NEW l \in Thread, u \in ToSet(group[l])  PROVE u \in ToSet(group'[l])
    <3>1. CASE l = t
      BY <1>6, <1>10, <2>1, <2>3, <3>1 DEF h
    <3>2. CASE l # t
      BY <1>10, <2>3, <3>2
    <3> QED  BY <3>1, <3>2
  <2> QED  BY <1>1, <1>13, <2>2, <2>3
<1>23. Waiting'
  BY <1>1, <1>11, <1>13 DEF Waiting
<1>24. Reported'
  <2> SUFFICES ASSUME NEW l \in Thread, pc'[l] \in {"release", "share"}
               PROVE  Judged(report'[l], MembersOf(group[l])')
    BY DEF Reported
  <2>1. CASE l = t
    <3>1. MembersOf(group[t])' = MembersOf(Tail(h))
      <4> DEFINE x == Tail(h)
      <4>1. group'[t] = x /\ req' = req
        BY <1>1, <1>10
      <4> HIDE DEF x
      <4>2. MembersOf(group[t])' = MembersOf(x)
        BY <4>1, Zenon DEF MembersOf
      <4> QED  BY <4>2 DEF x
    <3> QED  BY <1>9, <1>10, <2>1, <3>1
  <2>2. CASE l # t
    <3>1. MembersOf(group[l])' = MembersOf(group[l])
      BY <1>1, <1>10, <2>2, MembersStay DEF Grouped
    <3> QED  BY <1>10, <1>11, <2>2, <3>1 DEF Reported
  <2> QED  BY <2>1, <2>2
<1>25. Answers'
  <2> SUFFICES ASSUME NEW u \in Thread, Answered(u)'
               PROVE  Judged(result'[u], req'[u].members)
    BY DEF Answers
  <2>1. CASE u = w
    BY <1>1, <1>9, <1>10, <2>1 DEF ms
  <2>2. CASE u # w
    BY <1>1, <1>10, <1>13, <2>2 DEF Answers
  <2> QED  BY <2>1, <2>2
<1> QED  BY <1>15, <1>18, <1>20, <1>21, <1>22, <1>23, <1>24, <1>25

-----------------------------------------------------------------------------
LEMMA AnswerInvNext == AnswerInv /\ [Next]_vars => AnswerInv'
<1> SUFFICES ASSUME AnswerInv, [Next]_vars  PROVE AnswerInv'
  OBVIOUS
<1>1. GateInv'
  BY GateInvNext DEF AnswerInv
<1>2. ASSUME NEW t \in Thread, NEW r \in Request[t], Submit(t, r)  PROVE AnswerInv'
  BY <1>1, <1>2, SubmitAnswers
<1>3. ASSUME NEW t \in Thread, Step(t)  PROVE AnswerInv'
  BY <1>1, <1>3, LookAnswers, ElectAnswers, ClaimAnswers, DrainGroupAnswers, RunAnswers,
     ReleaseAnswers, DistributeAnswers, FinishLeaderAnswers DEF Step
<1>4. CASE UNCHANGED vars
  <2> USE <1>4 DEF vars, AnswerInv
  <2>1. Shapes' /\ Queued' /\ Grouped' /\ Staged'
    BY DEF Shapes, Queued, Grouped, Staged, Pending, KeyOf, Answered
  <2>2. Placed' /\ Waiting' /\ Answers'
    BY DEF Placed, Waiting, Answers, KeyOf, Answered
  <2>3. Reported'
    BY DEF Reported, MembersOf
  <2> QED  BY <1>1, <2>1, <2>2, <2>3
<1> QED  BY <1>2, <1>3, <1>4 DEF Next

(* A submitter is answered about the members of its own request, in their  *)
(* order, whoever else was in the run (submit and run_batch_check_now in   *)
(* serveapi.rs, attribute_batch in batch.rs); green is never told of a     *)
(* truncated push or of a union that is red or conflicts, and nobody is    *)
(* blamed whose own patch is green: for every number of threads, keys and  *)
(* members, and whatever the checks find.                                  *)
THEOREM AnswersAreAboutTheirRequests == Spec => []AnswersAreEarned
<1>1. Init => AnswerInv
  BY AnswerInvInit
<1>2. AnswerInv /\ [Next]_vars => AnswerInv'
  BY AnswerInvNext
<1>3. AnswerInv => AnswersAreEarned
  BY AnswersSuffice
<1> QED
  BY <1>1, <1>2, <1>3, PTL DEF Spec
-----------------------------------------------------------------------------
(* Who is held out: with one slot, a culprit's cooldown outlives the next  *)
(* claim, until the drain of that claim.                                   *)

Cooling(w) == runSeq < ejected[w] \/ (runSeq <= ejected[w] /\ \E t \in Thread : pc[t] = "drain")

CoolInv ==
  /\ Limit = 1 /\ Cooldown > 0
  /\ runSeq \in Nat /\ ejected \in [Worktree -> Nat] /\ lastReds \subseteq Worktree
  /\ (\E t \in Thread : pc[t] = "run") \/ \A w \in lastReds : Cooling(w)

\* A limit of one lets one leader hold a slot.
LEMMA OneSlot ==
  ASSUME GateInv, Limit = 1, NEW t \in Thread, NEW u \in Thread, HoldsSlot(t), HoldsSlot(u)
  PROVE  t = u
<1>1. IsFiniteSet(Slots) /\ Cardinality(Slots) \in Nat /\ Cardinality(Slots) <= 1
  BY FS_CardinalityType DEF GateInv, Counted, Limited
<1>2. {t, u} \in SUBSET Slots
  BY DEF Slots
<1>3. Cardinality({t, u}) <= 1
  BY <1>1, <1>2, FS_Subset, FS_CardinalityType
<1> SUFFICES ASSUME t # u  PROVE FALSE
  OBVIOUS
<1>4. IsFiniteSet({t}) /\ Cardinality({t}) = 1
  BY FS_Singleton
<1>5. u \notin {t} /\ {t} \cup {u} = {t, u}
  OBVIOUS
<1>6. Cardinality({t, u}) = 2
  BY <1>4, <1>5, FS_AddElement
<1> QED  BY <1>3, <1>6

LEMMA CoolInvInit == Init /\ Limit = 1 /\ Cooldown > 0 => CoolInv
BY DEF Init, CoolInv

\* Nothing a culprit's cooldown depends on moves.
LEMMA CoolStays ==
  ASSUME CoolInv, UNCHANGED <<runSeq, ejected, lastReds>>,
         \A u \in Thread : pc[u] \in {"drain", "run"} => pc'[u] = pc[u]
  PROVE  CoolInv'
BY DEF CoolInv, Cooling

LEMMA ClaimCools ==
  ASSUME GateInv, CoolInv, NEW t \in Thread, Claim(t)
  PROVE  CoolInv'
<1>1. /\ pc[t] = "gate" /\ UNCHANGED <<ejected, lastReds>>
      /\ \/ Open /\ runSeq' = runSeq + 1 /\ Goto(t, "drain")
         \/ Goto(t, "gate") /\ runSeq' = runSeq
  BY DEF Claim, Park, runs
<1>2. CASE Goto(t, "gate") /\ runSeq' = runSeq
  BY <1>1, <1>2, CoolStays DEF GateInv, Types, Goto
<1>3. CASE Open /\ runSeq' = runSeq + 1 /\ Goto(t, "drain")
  <2>1. Slots = {}
    <3>1. inflight \in Nat /\ inflight = Cardinality(Slots) /\ IsFiniteSet(Slots)
      BY CountIsNat DEF GateInv, Counted
    <3>2. Cardinality(Slots) = 0
      BY <1>3, <3>1 DEF Open, CoolInv
    <3> QED  BY <3>1, <3>2, FS_EmptySet
  <2>2. \A u \in Thread : pc[u] \notin {"drain", "run"}
    BY <2>1 DEF Slots, HoldsSlot
  <2>3. \A w \in lastReds : runSeq < ejected[w]
    BY <2>2 DEF CoolInv, Cooling
  <2>4. pc'[t] = "drain"
    BY <1>3 DEF GateInv, Types, Goto
  <2>5. \A w \in lastReds : ejected[w] \in Nat
    BY DEF CoolInv
  <2>6. \A w \in lastReds : runSeq' <= ejected'[w]
    BY <1>1, <1>3, <2>3, <2>5 DEF CoolInv
  <2> QED  BY <1>1, <1>3, <2>4, <2>6 DEF CoolInv, Cooling
<1> QED  BY <1>1, <1>2, <1>3

LEMMA DrainGroupCools ==
  ASSUME AnswerInv, AnswerInv', CoolInv, NEW t \in Thread, DrainGroup(t)
  PROVE  CoolInv'
<1> DEFINE s == queue[KeyOf(t)]
           g == Drained(s)
           W == UNION {Alone(u) : u \in ToSet(g)}
<1>1. /\ pc[t] = "drain" /\ UNCHANGED <<runSeq, lastReds>>
      /\ ejected' = [w \in Worktree |-> IF w \in W THEN 0 ELSE ejected[w]]
      /\ Goto(t, IF g = <<>> THEN "finish" ELSE "run")
  BY DEF DrainGroup
<1>2. KeyOf(t) \in Key /\ s \in Seq(Thread) /\ Distinct(s) /\ t \in ToSet(s)
  BY <1>1, KeyType DEF AnswerInv, Shapes, Queued, Waiting
<1> HIDE DEF s, W
<1>3. s # <<>>
  BY <1>2 DEF ToSet
<1>4. g # <<>>
  BY <1>2, <1>3, DrainedFacts
<1> HIDE DEF g
<1>5. pc'[t] = "run"
  BY <1>1, <1>4 DEF AnswerInv, GateInv, Types, Goto
<1>6. ejected' \in [Worktree -> Nat]
  BY <1>1 DEF CoolInv
<1> QED  BY <1>1, <1>5, <1>6 DEF CoolInv

LEMMA RunCools ==
  ASSUME AnswerInv, CoolInv, NEW t \in Thread, Run(t)
  PROVE  CoolInv'
<1>1. pc[t] = "run" /\ UNCHANGED <<group, runSeq>> /\ Goto(t, "release")
  BY DEF Run
<1>2. PICK results \in Outcomes(MembersOf(group[t]), req[group[t][1]].corun) :
        ejected' = Cooled(SoloReds(results)) /\ lastReds' = SoloReds(results)
  BY DEF Run
<1>3. MembersOf(group[t]) \in Seq(Member)
  <2>1. \A u \in ToSet(group[t]) : u \in Thread /\ pc[u] # "idle"
    BY DEF AnswerInv, Grouped, Pending, ToSet
  <2>2. \A u \in ToSet(group[t]) : req[u] \in Request[u]
    BY <2>1 DEF AnswerInv, Shapes
  <2> QED  BY <2>2, MembersType DEF AnswerInv, Grouped
<1>4. results \in Seq(MemberResult)
  BY <1>2, <1>3, OutcomesJudge DEF Judged
<1>5. SoloReds(results) \subseteq Worktree
  <2>1. \A i \in DOMAIN results : results[i] \in MemberResult
    BY <1>4
  <2>2. \A i \in DOMAIN results : results[i].wt \in Worktree
    BY <2>1 DEF MemberResult
  <2> QED  BY <2>2 DEF SoloReds
<1> DEFINE R == SoloReds(results)
<1>6. ejected' = [w \in Worktree |-> IF w \in R THEN runSeq + Cooldown ELSE ejected[w]]
  BY <1>2 DEF Cooled, CoolInv
<1> HIDE DEF R
<1>7. runSeq \in Nat /\ Cooldown \in Nat /\ runSeq < runSeq + Cooldown
  BY CoalescerAssumption DEF CoolInv
<1>8. ejected' \in [Worktree -> Nat]
  BY <1>6, <1>7 DEF CoolInv
<1>9. \A w \in R : runSeq < ejected'[w]
  BY <1>5, <1>6, <1>7 DEF R
<1> QED  BY <1>1, <1>2, <1>5, <1>8, <1>9 DEF CoolInv, Cooling, R

LEMMA CoolInvNext == AnswerInv /\ CoolInv /\ [Next]_vars => CoolInv'
<1> SUFFICES ASSUME AnswerInv, CoolInv, [Next]_vars  PROVE CoolInv'
  OBVIOUS
<1>1. GateInv /\ AnswerInv'
  BY AnswerInvNext DEF AnswerInv
<1> USE DEF GateInv, Types, Goto
<1>2. ASSUME NEW t \in Thread, NEW r \in Request[t], Submit(t, r)  PROVE CoolInv'
  BY <1>1, <1>2, CoolStays DEF Submit, gate, runs
<1>3. ASSUME NEW t \in Thread, Look(t)  PROVE CoolInv'
  BY <1>1, <1>3, CoolStays DEF Look, Return, gate, runs
<1>4. ASSUME NEW t \in Thread, Elect(t)  PROVE CoolInv'
  BY <1>1, <1>4, CoolStays DEF Elect, Park, Return, gate, runs
<1>5. ASSUME NEW t \in Thread, Release(t)  PROVE CoolInv'
  BY <1>1, <1>5, CoolStays DEF Release, runs
<1>6. ASSUME NEW t \in Thread, Distribute(t)  PROVE CoolInv'
  BY <1>1, <1>6, CoolStays DEF Distribute, gate
<1>7. ASSUME NEW t \in Thread, FinishLeader(t)  PROVE CoolInv'
  BY <1>1, <1>7, CoolStays DEF FinishLeader, gate, runs
<1>8. ASSUME NEW t \in Thread, Step(t)  PROVE CoolInv'
  BY <1>1, <1>3, <1>4, <1>5, <1>6, <1>7, <1>8, ClaimCools, DrainGroupCools, RunCools DEF Step
<1>9. CASE UNCHANGED vars
  BY <1>9, CoolStays DEF vars
<1> QED  BY <1>2, <1>8, <1>9 DEF Next

-----------------------------------------------------------------------------
\* Only a drain fills a group.
LEMMA GroupsFill ==
  ASSUME AnswerInv, [Next]_vars, NEW t \in Thread, group[t] = <<>>, group'[t] # <<>>
  PROVE  DrainGroup(t)
<1>1. group' # group
  OBVIOUS
<1>2. PICK l \in Thread : Step(l)
  BY <1>1 DEF Next, Submit, runs, vars
<1>3. DrainGroup(l) \/ Distribute(l)
  BY <1>1, <1>2 DEF Step, Look, Elect, Claim, Run, Release, FinishLeader, runs
<1>4. DOMAIN group = Thread
  BY DEF AnswerInv, GateInv, Types
<1>5. ASSUME Distribute(l)  PROVE FALSE
  <2>1. pc[l] = "share" /\ group' = [group EXCEPT ![l] = Tail(@)]
    BY <1>5 DEF Distribute
  <2>2. l # t
    BY <2>1 DEF AnswerInv, Staged
  <2> QED  BY <1>4, <2>1, <2>2
<1>6. DrainGroup(l)
  BY <1>3, <1>5
<1>7. l = t
  <2> DEFINE g == Drained(queue[KeyOf(l)])
  <2>1. group' = [group EXCEPT ![l] = g]
    BY <1>6 DEF DrainGroup
  <2> HIDE DEF g
  <2> QED  BY <1>4, <2>1
<1> QED  BY <1>6, <1>7

LEMMA CulpritStep ==
  ASSUME AnswerInv, CoolInv, [Next]_vars, NEW t \in Thread,
         Len(group'[t]) > 1, group[t] = <<>>, NEW i \in DOMAIN group'[t]
  PROVE  Alone(group'[t][i]) \cap lastReds = {}
<1>1. group'[t] # <<>>
  <2>1. Len(<<>>) = 0 /\ ~(0 > 1)
    OBVIOUS
  <2> QED  BY <2>1
<1>2. DrainGroup(t)
  BY <1>1, GroupsFill
<1> DEFINE s == queue[KeyOf(t)]
           g == Drained(s)
<1>3. pc[t] = "drain" /\ group'[t] = g
  BY <1>2 DEF DrainGroup, AnswerInv, GateInv, Types
<1>4. KeyOf(t) \in Key /\ s \in Seq(Thread) /\ Distinct(s) /\ t \in ToSet(s)
  BY <1>3, KeyType DEF AnswerInv, Shapes, Queued, Waiting
<1> HIDE DEF s
<1>5. s # <<>>
  BY <1>4 DEF ToSet
<1>6. Len(g) > 1
  BY <1>3
<1>7. \A u \in ToSet(g) : ~Held(u)
  BY <1>4, <1>5, <1>6, DrainedFacts
<1> HIDE DEF g
<1>8. ~Held(g[i])
  BY <1>3, <1>7 DEF ToSet
<1>9. \A w \in lastReds : runSeq <= ejected[w]
  <2>1. \A u \in Thread : pc[u] # "run"
    BY <1>3, OneSlot DEF HoldsSlot, AnswerInv, CoolInv
  <2>2. \A w \in lastReds : ejected[w] \in Nat
    BY DEF CoolInv
  <2> QED  BY <2>1, <2>2 DEF CoolInv, Cooling
<1> QED  BY <1>3, <1>8, <1>9 DEF Held

(* With a global limit of one run and a cooldown, a worktree the latest    *)
(* run found red alone is in no group with others at the next drain        *)
(* (drain_group and record_solo_red_ejections in serveapi.rs): its         *)
(* ejection is above the run sequence when the slot is free, and the one   *)
(* claim before that drain raises the sequence by one.  These are the      *)
(* defaults of the configuration; with more slots another leader may have  *)
(* claimed, or drained, before the culprit is known.                       *)
THEOREM CulpritsSitOut == Limit = 1 /\ Cooldown > 0 /\ Spec => CulpritSitsOut
<1>1. Init /\ Limit = 1 /\ Cooldown > 0 => AnswerInv /\ CoolInv
  BY AnswerInvInit, CoolInvInit
<1>2. AnswerInv /\ CoolInv /\ [Next]_vars => (AnswerInv /\ CoolInv)'
  BY AnswerInvNext, CoolInvNext
<1>3. AnswerInv /\ CoolInv /\ [Next]_vars =>
        [\A t \in Thread : Len(group'[t]) > 1 /\ group[t] = <<>> =>
           \A i \in DOMAIN group'[t] : Alone(group'[t][i]) \cap lastReds = {}]_vars
  BY CulpritStep
<1> QED
  BY <1>1, <1>2, <1>3, PTL DEF Spec, CulpritSitsOut
=============================================================================
