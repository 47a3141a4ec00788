---------------------------- MODULE Serve_proofs ----------------------------
(***************************************************************************)
(* Serve keeps its six safety properties for every set of pushes, any      *)
(* number of worktrees and every bound.  The inductive invariant follows   *)
(* one push: where it is stored, that the driver's transaction is the one  *)
(* its attribution speaks of, that whoever may still answer it finds it    *)
(* unanswered, and that the text in the analyzer, the fence and the        *)
(* generation of a pull make what the analyzer says be about that push.    *)
(***************************************************************************)
EXTENDS Serve, FiniteSetTheorems, SequenceTheorems, TLAPS

-----------------------------------------------------------------------------
(* The inductive invariant, in parts.                                      *)

\* Where a push is; every part is an operator on the values it relates, so that
\* it also speaks of the middle of a step.
Stored(st, p) == st[p] \in {"stored", "accepted"} /\ p \notin Gates
Holds(pu, p) == \E i \in DOMAIN pu[WtOf[p]] : pu[WtOf[p]][i] = p
Sent(gq, p) == \E i \in DOMAIN gq : gq[i] = p

\* A push that nobody has begun to answer.
Untouched(st, pu, at, gq, p) ==
  \/ st[p] \in {"new", "admitted", "rejected"}
  \/ Holds(pu, p) \/ at[WtOf[p]] = p \/ Sent(gq, p)

\* The queue of a worktree and the push consumed from it are different stored
\* pushes of that worktree.
InOrder(st, q, a, w) ==
  /\ \A i \in DOMAIN q : WtOf[q[i]] = w /\ Stored(st, q[i]) /\ q[i] # a
  /\ \A i, j \in DOMAIN q : q[i] = q[j] => i = j
  /\ a # None => WtOf[a] = w /\ Stored(st, a)

\* No answer, no witness for an untouched push; one answer at most for any, and
\* none while its witness may still give one.
Unanswered(st, pu, at, gq, ans, wk, wa, p) ==
  /\ Untouched(st, pu, at, gq, p) => ans[p] = <<>> /\ wk[p] = "none" /\ wa[p].at = "none"
  /\ Len(ans[p]) <= 1
  /\ wa[p].at \in {"watching", "publishing", "dropped"} => ans[p] = <<>>

Placed(st, pu, at, gq, ans, wk, wa) ==
  /\ \A w \in Worktrees : InOrder(st, pu[w], at[w], w)
  /\ \A p \in Pushes : Unanswered(st, pu, at, gq, ans, wk, wa, p)

\* The dispatcher's requests are distinct accepted gate pushes.
Dispatching(st, gq) ==
  /\ \A i \in DOMAIN gq : st[gq[i]] = "accepted"
  /\ \A i, j \in DOMAIN gq : gq[i] = gq[j] => i = j

\* The counter of the compile gate.
Compiling == {p \in Pushes : worker[p] \in {"running", "sent"}}
Counted ==
  /\ IsFiniteSet(Compiling)
  /\ WitnessLimit = 0 => slots = 0
  /\ WitnessLimit > 0 => slots = Cardinality(Compiling) /\ slots <= WitnessLimit

\* A watcher without the claim of its key was superseded.
Claimed(cm, su, wa, ans) ==
  \A p \in Pushes :
    /\ wa[p].at = "watching" => cm[Key(p)] = p \/ p \in su
    /\ wa[p].at = "dropped" => p \in su
    /\ wa[p].at = "done" => ans[p] # <<>>

\* An accepted push is queued, consumed, with its witness, or answered.
Found(st, pu, at, gq, ans, su, wa, ab) ==
  \A p \in Pushes :
    \/ st[p] \notin {"stored", "accepted"} \/ ans[p] # <<>> \/ p \in su
    \/ Holds(pu, p) \/ at[WtOf[p]] = p \/ Sent(gq, p) \/ wa[p].at # "none"
    \/ p \in ab

\* What is attributed is what the driver has in flight.
Tracked(at, drv, ab) ==
  \A w \in Worktrees : at[w] # None => drv.current.wt = w \/ at[w] \in ab
InFlight == Tracked(attribution, driver, abandoned)

\* While no other push of its worktree was made, a push and its wake-up are one.
Alone(p) == \A q \in Pushes \ {p} : WtOf[q] = WtOf[p] => stage[q] = "new"
Waits(w) == \/ w \in signals \/ w \in keys \/ Contains(cluster.deferred, w)
            \/ Contains(driver.pending, w)
Woken(p) ==
  LET w == WtOf[p]
  IN  /\ Waits(w) => /\ Holds(pushed, p) /\ stage[p] = "accepted"
                     /\ driver.current.wt # w
      /\ w \in signals => /\ w \notin keys /\ ~Contains(cluster.deferred, w)
                          /\ ~Contains(driver.pending, w)
      /\ w \in keys => ~Contains(cluster.deferred, w) /\ ~Contains(driver.pending, w)
      /\ Contains(cluster.deferred, w) => ~Contains(driver.pending, w)
      /\ driver.current.wt = w => /\ attribution[w] = p /\ stage[p] = "accepted"
                                  /\ ~driver.recheck
      /\ stage[p] = "stored" => Holds(pushed, p)
      /\ Owed(p) \/ stage[p] = "admitted" => w \in activeWts
Lonely == /\ \A p \in Pushes : Alone(p) => Woken(p)
          /\ driver.current = NoTxn => ~driver.recheck

Drained == phase = "exited" => activeWts = {}

\* No analyzer without a member; a handshake told later is of a later process.
Lifecycle == /\ members = {} => driver = FreshDriver /\ cluster = FreshCluster
             /\ \A k \in DOMAIN ctrl : ctrl[k] > cluster.lsp

\* A live client's analyzer has open what the multiplexer believes.
InStep(cl, an) == /\ LiveClient(cl, an) => an.text = cl.mux
                  /\ an.alive /\ cl.lsp # an.inc => an.text = None

\* Generations are used once.
Numbered(cl, ev, pl) == /\ \A q \in pl : q.gen < cl.nextGen
                        /\ \A k \in DOMAIN ev : ev[k].gen < cl.nextGen

\* What is in flight is fenced, and what comes through the fence is about it.
Truthful(drv, at, cl, ev, pl, sd) ==
  drv.current # NoTxn =>
    LET p == at[drv.current.wt]
    IN  (p # None /\ p \notin sd /\ cl.baseline) =>
          /\ cl.fence # 0
          /\ drv.current.real /\ p \in Broken => drv.current.err
          /\ \A k \in DOMAIN ev :
               (ev[k].gen = cl.fence /\ ev[k].kind = "diagnostics" /\ p \in Broken) => ev[k].err
          /\ \A q \in pl : q.gen = cl.fence => q.inc = cl.lsp /\ cl.mux = p

Analysed(drv, at, cl, an, ev, pl, sd) ==
  InStep(cl, an) /\ Numbered(cl, ev, pl) /\ Truthful(drv, at, cl, ev, pl, sd)

\* What a witness says of a push, and who has one.
Earns(p, v) == /\ v = "green" => p \notin Broken
               /\ v = "vacuous" => p \in Gates \cup Escalated
Witnessed ==
    \A p \in Pushes :
        /\ Earns(p, watcher[p].got)
        /\ watcher[p].at # "none" => p \in Gates \cup Escalated

Safe == /\ Placed(stage, pushed, attribution, gateQ, answers, worker, watcher)
        /\ Dispatching(stage, gateQ) /\ Counted
        /\ Claimed(claims, superseded, watcher, answers)
        /\ Found(stage, pushed, attribution, gateQ, answers, superseded, watcher, abandoned)
        /\ InFlight /\ Lifecycle

IInv == TypeOK /\ Safe /\ Lonely /\ Drained

GInv == /\ Analysed(driver, attribution, cluster, ra, events, pulls, stalled)
        /\ Witnessed /\ GreenIsEarned

-----------------------------------------------------------------------------
(* Sequences.                                                              *)

LEMMA Positions ==
  ASSUME NEW S, NEW q \in Seq(S)
  PROVE  /\ Len(q) \in Nat /\ DOMAIN q = 1..Len(q)
         /\ \A k \in DOMAIN q : k \in Nat /\ k >= 1 /\ k <= Len(q) /\ q[k] \in S
         /\ q = <<>> <=> Len(q) = 0
         /\ q # <<>> <=> 1 \in DOMAIN q
<1>1. Len(q) \in Nat /\ DOMAIN q = 1..Len(q)
  BY LenProperties
<1>2. q = <<>> <=> Len(q) = 0
  BY EmptySeq
<1> QED  BY <1>1, <1>2, ElementOfSeq

LEMMA TailPositions ==
  ASSUME NEW S, NEW q \in Seq(S), q # <<>>
  PROVE  /\ Tail(q) \in Seq(S) /\ Len(Tail(q)) = Len(q) - 1 /\ Head(q) = q[1] /\ q[1] \in S
         /\ 1 \in DOMAIN q
         /\ \A k \in DOMAIN Tail(q) : k \in Nat /\ k + 1 \in DOMAIN q /\ Tail(q)[k] = q[k + 1]
         /\ \A k \in DOMAIN q : k # 1 => k - 1 \in DOMAIN Tail(q) /\ Tail(q)[k - 1] = q[k]
<1>1. /\ Tail(q) \in Seq(S) /\ Len(Tail(q)) = Len(q) - 1
      /\ \A k \in 1..Len(Tail(q)) : Tail(q)[k] = q[k + 1]
  BY HeadTailProperties
<1>2. /\ Len(q) \in Nat /\ DOMAIN q = 1..Len(q) /\ 1 \in DOMAIN q /\ q[1] \in S
      /\ DOMAIN Tail(q) = 1..Len(Tail(q)) /\ Len(Tail(q)) \in Nat
  BY <1>1, Positions
<1>3. Head(q) = q[1]
  OBVIOUS
<1>4. \A k \in DOMAIN Tail(q) : k \in Nat /\ k + 1 \in DOMAIN q /\ Tail(q)[k] = q[k + 1]
  BY <1>1, <1>2
<1>5. \A k \in DOMAIN q : k # 1 => k - 1 \in DOMAIN Tail(q) /\ (k - 1) + 1 = k
  BY <1>1, <1>2
<1>6. \A k \in DOMAIN q : k # 1 => Tail(q)[k - 1] = q[k]
  BY <1>4, <1>5
<1> QED  BY <1>1, <1>2, <1>3, <1>4, <1>5, <1>6

LEMMA ConcatPositions ==
  ASSUME NEW S, NEW p \in Seq(S), NEW q \in Seq(S)
  PROVE  /\ p \o q \in Seq(S) /\ Len(p \o q) = Len(p) + Len(q)
         /\ \A k \in DOMAIN p : k \in DOMAIN (p \o q) /\ (p \o q)[k] = p[k]
         /\ \A k \in DOMAIN q : /\ k + Len(p) \in DOMAIN (p \o q)
                                /\ (p \o q)[k + Len(p)] = q[k]
         /\ \A k \in DOMAIN (p \o q) : /\ k \in Nat
                                       /\ k \in DOMAIN p \/ k - Len(p) \in DOMAIN q
<1>1. /\ p \o q \in Seq(S) /\ Len(p \o q) = Len(p) + Len(q)
      /\ \A i \in 1..Len(p) + Len(q) :
           (p \o q)[i] = IF i <= Len(p) THEN p[i] ELSE q[i - Len(p)]
  BY ConcatProperties
<1>2. /\ Len(p) \in Nat /\ Len(q) \in Nat /\ DOMAIN p = 1..Len(p) /\ DOMAIN q = 1..Len(q)
      /\ DOMAIN (p \o q) = 1..Len(p) + Len(q)
  BY <1>1, LenProperties
<1>3. \A k \in DOMAIN p : k \in DOMAIN (p \o q) /\ (p \o q)[k] = p[k]
  BY <1>1, <1>2
<1>4. \A k \in DOMAIN q : /\ k + Len(p) \in 1..Len(p) + Len(q) /\ ~(k + Len(p) <= Len(p))
                          /\ (k + Len(p)) - Len(p) = k
  BY <1>2
<1>5. \A k \in DOMAIN q : (p \o q)[k + Len(p)] = q[k]
  BY <1>1, <1>4
<1>6. \A k \in DOMAIN (p \o q) : k \in Nat /\ (k \in DOMAIN p \/ k - Len(p) \in DOMAIN q)
  BY <1>2
<1> QED  BY <1>1, <1>2, <1>3, <1>4, <1>5, <1>6

LEMMA AppendPositions ==
  ASSUME NEW S, NEW q \in Seq(S), NEW e \in S
  PROVE  /\ Append(q, e) \in Seq(S) /\ Append(q, e) # <<>>
         /\ Len(q) + 1 \in DOMAIN Append(q, e) /\ Append(q, e)[Len(q) + 1] = e
         /\ \A k \in DOMAIN q : /\ k \in Nat /\ k < Len(q) + 1 /\ k \in DOMAIN Append(q, e)
                                /\ Append(q, e)[k] = q[k]
         /\ \A k \in DOMAIN Append(q, e) : /\ k \in Nat /\ k <= Len(q) + 1
                                           /\ k \in DOMAIN q \/ k = Len(q) + 1
<1>1. /\ Append(q, e) \in Seq(S) /\ Append(q, e) # <<>> /\ Len(Append(q, e)) = Len(q) + 1
      /\ \A i \in 1..Len(q) : Append(q, e)[i] = q[i]
      /\ Append(q, e)[Len(q) + 1] = e
  BY AppendProperties
<1>2. Len(q) \in Nat /\ DOMAIN q = 1..Len(q) /\ DOMAIN Append(q, e) = 1..Len(q) + 1
  BY <1>1, LenProperties
<1> QED  BY <1>1, <1>2

\* Taking the head, appending and pruning keep a queue free of duplicates.
LEMMA ContainsIs ==
  ASSUME NEW S, NEW q \in Seq(S)
  PROVE  \A x : Contains(q, x) <=> \E i \in DOMAIN q : q[i] = x
BY Positions DEF Contains

LEMMA TailUnique ==
  ASSUME NEW S, NEW q \in Seq(S), q # <<>>, IsInjective(q)
  PROVE  /\ IsInjective(Tail(q)) /\ ~Contains(Tail(q), Head(q)) /\ Contains(q, Head(q))
         /\ \A x : Contains(Tail(q), x) => Contains(q, x)
<1> DEFINE r == Tail(q)
<1>1. /\ r \in Seq(S) /\ Head(q) = q[1] /\ 1 \in DOMAIN q
      /\ \A k \in DOMAIN r : k \in Nat /\ k + 1 \in DOMAIN q /\ r[k] = q[k + 1]
      /\ \A k \in DOMAIN r : k >= 1
  BY TailPositions, Positions
<1> HIDE DEF r
<1>2. /\ \A x : Contains(r, x) <=> \E i \in DOMAIN r : r[i] = x
      /\ \A x : Contains(q, x) <=> \E i \in DOMAIN q : q[i] = x
  BY <1>1, ContainsIs
<1>3. IsInjective(r)
  BY <1>1 DEF IsInjective
<1>4. \A k \in DOMAIN r : k + 1 # 1
  BY <1>1
<1>5. ~Contains(r, q[1])
  BY <1>1, <1>2, <1>4 DEF IsInjective
<1> QED  BY <1>1, <1>2, <1>3, <1>5 DEF r

LEMMA AppendUnique ==
  ASSUME NEW S, NEW q \in Seq(S), NEW e \in S
  PROVE  /\ Append(q, e) \in Seq(S)
         /\ \A x : Contains(Append(q, e), x) <=> Contains(q, x) \/ x = e
         /\ IsInjective(q) /\ ~Contains(q, e) => IsInjective(Append(q, e))
<1> DEFINE r == Append(q, e)
<1>1. /\ r \in Seq(S) /\ Len(q) + 1 \in DOMAIN r /\ r[Len(q) + 1] = e
      /\ \A k \in DOMAIN q : k \in DOMAIN r /\ r[k] = q[k]
      /\ \A k \in DOMAIN r : k \in DOMAIN q \/ k = Len(q) + 1
  BY AppendPositions
<1> HIDE DEF r
<1>2. /\ \A x : Contains(r, x) <=> \E i \in DOMAIN r : r[i] = x
      /\ \A x : Contains(q, x) <=> \E i \in DOMAIN q : q[i] = x
  BY <1>1, ContainsIs
<1>3. \A x : Contains(r, x) <=> Contains(q, x) \/ x = e
  BY <1>1, <1>2
<1>4. ASSUME IsInjective(q), ~Contains(q, e)  PROVE IsInjective(r)
  BY <1>1, <1>2, <1>4 DEF IsInjective
<1> QED  BY <1>1, <1>3, <1>4 DEF r

LEMMA PruneUnique ==
  ASSUME NEW S, NEW q \in Seq(S), NEW e, IsInjective(q)
  PROVE  /\ RemoveFirst(q, e) \in Seq(S) /\ IsInjective(RemoveFirst(q, e))
         /\ \A x : Contains(RemoveFirst(q, e), x) => Contains(q, x)
<1>1. CASE ~\E i \in 1..Len(q) : q[i] = e
  BY <1>1 DEF RemoveFirst
<1>2. ASSUME \E i \in 1..Len(q) : q[i] = e
      PROVE  /\ RemoveFirst(q, e) \in Seq(S) /\ IsInjective(RemoveFirst(q, e))
             /\ \A x : Contains(RemoveFirst(q, e), x) => Contains(q, x)
  <2> DEFINE I == {i \in 1..Len(q) : q[i] = e}
             n == SelectInSeq(q, LAMBDA v : v = e)
  <2>1. PICK k \in 1..Len(q) : I = {k}
    BY <1>2, Positions DEF IsInjective
  <2>2. n = Min(I)
    BY <2>1 DEF SelectInSeq
  <2>3. n = k
    <3>1. k \in {k} /\ \A y \in {k} : k <= y
      OBVIOUS
    <3>2. Min({k}) \in {k}
      BY <3>1 DEF Min
    <3> QED  BY <2>1, <2>2, <3>2
  <2> HIDE DEF n
  <2>4. RemoveFirst(q, e) = SubSeq(q, 1, k - 1) \o SubSeq(q, k + 1, Len(q))
    BY <1>2, <2>3 DEF RemoveFirst, RemoveAt, n
  <2> DEFINE a == SubSeq(q, 1, k - 1)
             b == SubSeq(q, k + 1, Len(q))
             r == a \o b
  <2>5. /\ Len(q) \in Nat /\ DOMAIN q = 1..Len(q) /\ \A i \in 1..Len(q) : q[i] \in S
        /\ k \in Nat /\ 1 <= k /\ k <= Len(q)
    BY Positions
  <2>6. /\ a \in Seq(S) /\ Len(a) = k - 1 /\ \A i \in 1..k - 1 : a[i] = q[i]
    <3>1. \A i \in 1..k - 1 : q[i] \in S
      BY <2>5
    <3>2. /\ a \in Seq(S) /\ Len(a) = IF 1 <= k - 1 THEN (k - 1) - 1 + 1 ELSE 0
          /\ \A i \in 1..(k - 1) - 1 + 1 : a[i] = q[1 + i - 1]
      BY <2>5, <3>1, SubSeqProperties
    <3> HIDE DEF a
    <3>3. /\ (k - 1) - 1 + 1 = k - 1 /\ \A i \in 1..k - 1 : 1 + i - 1 = i
          /\ Len(a) = k - 1
      BY <2>5, <3>2
    <3> QED  BY <3>2, <3>3
  <2>7. /\ b \in Seq(S) /\ Len(b) = Len(q) - k /\ \A i \in 1..Len(q) - k : b[i] = q[k + i]
    <3>1. \A i \in k + 1..Len(q) : q[i] \in S
      BY <2>5
    <3>2. /\ b \in Seq(S)
          /\ Len(b) = IF k + 1 <= Len(q) THEN Len(q) - (k + 1) + 1 ELSE 0
          /\ \A i \in 1..Len(q) - (k + 1) + 1 : b[i] = q[(k + 1) + i - 1]
      BY <2>5, <3>1, SubSeqProperties
    <3> HIDE DEF b
    <3>3. /\ Len(q) - (k + 1) + 1 = Len(q) - k
          /\ \A i \in 1..Len(q) - k : (k + 1) + i - 1 = k + i
      BY <2>5
    <3>4. Len(b) = Len(q) - k
      <4>1. Len(b) = IF k + 1 <= Len(q) THEN Len(q) - k ELSE 0
        BY <3>2, <3>3
      <4>2. CASE k + 1 <= Len(q)
        BY <4>1, <4>2
      <4>3. CASE ~(k + 1 <= Len(q))
        <5>1. \A i, j \in Nat : i <= j /\ ~(i + 1 <= j) => j - i = 0
          OBVIOUS
        <5>2. Len(q) - k = 0
          BY <2>5, <4>3, <5>1
        <5> QED  BY <4>1, <4>3, <5>2
      <4> QED  BY <4>2, <4>3
    <3> QED  BY <3>2, <3>3, <3>4
  <2> HIDE DEF a, b
  <2>8. /\ r \in Seq(S) /\ Len(r) = Len(q) - 1
        /\ \A i \in 1..Len(q) - 1 : r[i] = IF i <= k - 1 THEN a[i] ELSE b[i - (k - 1)]
    <3>1. /\ r \in Seq(S) /\ Len(r) = Len(a) + Len(b)
          /\ \A i \in 1..Len(a) + Len(b) : r[i] = IF i <= Len(a) THEN a[i] ELSE b[i - Len(a)]
      BY <2>6, <2>7, ConcatProperties
    <3> HIDE DEF r
    <3>2. Len(a) + Len(b) = Len(q) - 1
      BY <2>5, <2>6, <2>7
    <3> QED  BY <2>6, <3>1, <3>2
  <2> HIDE DEF r
  <2> DEFINE pos(i) == IF i <= k - 1 THEN i ELSE i + 1
  <2>9. /\ \A i \in 1..Len(q) - 1 : pos(i) \in 1..Len(q) /\ pos(i) # k
        /\ \A i, j \in 1..Len(q) - 1 : pos(i) = pos(j) => i = j
    BY <2>5
  <2>10. DOMAIN r = 1..Len(q) - 1 /\ \A i \in DOMAIN r : r[i] = q[pos(i)]
    <3>1. DOMAIN r = 1..Len(q) - 1
      BY <2>8, LenProperties
    <3>2. \A i \in 1..Len(q) - 1 : r[i] = q[pos(i)]
      BY <2>5, <2>6, <2>7, <2>8
    <3> QED  BY <3>1, <3>2
  <2> HIDE DEF pos
  <2>11. IsInjective(r)
    <3>1. \A i, j \in DOMAIN r : r[i] = r[j] => pos(i) = pos(j)
      BY <2>5, <2>9, <2>10 DEF IsInjective
    <3> QED  BY <2>9, <2>10, <3>1 DEF IsInjective
  <2>12. \A x : Contains(r, x) => Contains(q, x)
    <3>1. \A i \in DOMAIN r : \E j \in DOMAIN q : r[i] = q[j]
      BY <2>5, <2>9, <2>10
    <3>2. /\ \A x : Contains(r, x) <=> \E i \in DOMAIN r : r[i] = x
          /\ \A x : Contains(q, x) <=> \E i \in DOMAIN q : q[i] = x
      BY <2>8, ContainsIs
    <3> QED  BY <3>1, <3>2
  <2> QED  BY <2>4, <2>8, <2>11, <2>12 DEF r, a, b
<1> QED  BY <1>1, <1>2

-----------------------------------------------------------------------------
(* Types.                                                                  *)

\* What a routed batch or a settled transaction may change.
Routed ==
  /\ pushed \in [Worktrees -> Seq(Pushes)]
  /\ \A w \in Worktrees : Len(pushed[w]) <= QueueCap
  /\ signals \subseteq Worktrees
  /\ attribution \in [Worktrees -> Pushes \cup {None}]
  /\ driver \in Driver /\ IsInjective(driver.pending)
  /\ cluster \in Cluster /\ IsInjective(cluster.deferred)
  /\ cluster.fence < cluster.nextGen
  /\ ra \in Analyzer /\ pulls \subseteq PullOf /\ stalled \subseteq Pushes
  /\ budget \in [natives : Nat, stalls : Nat, idles : Nat]

Told == /\ stage \in [Pushes -> {"new", "admitted", "stored", "accepted", "rejected"}]
        /\ activeWts \subseteq Worktrees /\ quiescing \in BOOLEAN
        /\ answers \in [Pushes -> Seq(Verdicts)] /\ superseded \subseteq Pushes

Looped == /\ phase \in {"top", "keys", "lsp", "deferred", "exited"}
          /\ keys \subseteq Worktrees /\ members \subseteq Worktrees
          /\ abandoned \subseteq Pushes

Processes == /\ spawns \in Nat /\ ra.inc = spawns /\ cluster.lsp <= spawns
             /\ ctrl \in Seq(1..spawns) /\ events \in Seq(LspEvent)

Witnesses == /\ gateQ \in Seq(Gates)
             /\ claims \in [{Key(p) : p \in Pushes} -> Pushes \cup {None}]
             /\ worker \in [Pushes -> {"none", "waiting", "running", "sent", "ended"}]
             /\ watcher \in [Pushes -> Watch] /\ slots \in Nat

LEMMA TypeParts == TypeOK <=> Routed /\ Told /\ Looped /\ Processes /\ Witnesses
BY DEF TypeOK, Routed, Told, Looped, Processes, Witnesses

LEMMA TypePartsAfter ==
  ASSUME Routed', Told', Looped', Processes', Witnesses'
  PROVE  TypeOK'
BY DEF TypeOK, Routed, Told, Looped, Processes, Witnesses

LEMMA Constants ==
  /\ \A p \in Pushes : WtOf[p] \in Worktrees /\ WtOf[p] # None /\ p # None
  /\ None \notin Pushes /\ None \notin Worktrees
  /\ Gates \subseteq Pushes /\ Escalated \subseteq Pushes
  /\ QueueCap \in Nat /\ QueueCap >= 1 /\ WitnessLimit \in Nat
BY ServeConstants

LEMMA FreshTypes ==
  /\ NoTxn \notin Transaction /\ NoTxn.wt = None
  /\ \A w \in Worktrees : Txn(w) \in Transaction /\ Txn(w).wt = w /\ Txn(w) # NoTxn
  /\ FreshDriver \in Driver /\ IsInjective(FreshDriver.pending)
  /\ FreshDriver.current = NoTxn /\ FreshDriver.pending = <<>> /\ ~FreshDriver.recheck
  /\ FreshCluster \in Cluster /\ IsInjective(FreshCluster.deferred)
  /\ FreshCluster.deferred = <<>> /\ FreshCluster.lsp = 0 /\ FreshCluster.fence = 0
  /\ FreshCluster.nextGen = 1 /\ FreshCluster.mux = None /\ ~FreshCluster.ready
  /\ ~FreshCluster.baseline
<1>1. <<>> \in Seq(Worktrees) /\ IsInjective(<<>>)
  BY DEF IsInjective
<1>2. NoTxn \notin Transaction /\ NoTxn.wt = None
  BY Constants DEF NoTxn, Transaction
<1>3. \A w \in Worktrees : Txn(w) \in Transaction /\ Txn(w).wt = w
  BY DEF Txn, Transaction
<1>4. \A w \in Worktrees : Txn(w) # NoTxn
  BY <1>2, <1>3
<1> QED  BY <1>1, <1>2, <1>3, <1>4 DEF FreshDriver, Driver, FreshCluster, Cluster

\* The overlay that a switch consumes.
LEMMA TakeTypes ==
  ASSUME Routed, NEW w \in Worktrees, NEW attr \in [Worktrees -> Pushes \cup {None}],
         TakeOverlay(w, attr)
  PROVE  /\ pushed' \in [Worktrees -> Seq(Pushes)]
         /\ \A v \in Worktrees : Len(pushed'[v]) <= QueueCap
         /\ signals' \subseteq Worktrees
         /\ attribution' \in [Worktrees -> Pushes \cup {None}]
         /\ NextPush(w) \in Pushes \cup {None}
<1>1. pushed[w] \in Seq(Pushes) /\ Len(pushed[w]) <= QueueCap
  BY DEF Routed
<1>2. CASE pushed[w] = <<>>
  <2>1. pushed' = pushed
    BY <1>2 DEF TakeOverlay, Routed
  <2> QED  BY <1>1, <1>2, <2>1, Positions DEF TakeOverlay, NextPush, Routed
<1>3. CASE pushed[w] # <<>>
  <2>1. /\ Tail(pushed[w]) \in Seq(Pushes) /\ Len(Tail(pushed[w])) = Len(pushed[w]) - 1
        /\ Head(pushed[w]) \in Pushes
    BY <1>1, <1>3, TailPositions
  <2>2. Len(pushed[w]) - 1 <= QueueCap
    BY <1>1, Positions, Constants
  <2>3. pushed' = [pushed EXCEPT ![w] = Tail(pushed[w])]
    BY <1>3 DEF TakeOverlay
  <2> QED  BY <1>3, <2>1, <2>2, <2>3 DEF TakeOverlay, NextPush, Routed
<1> QED  BY <1>2, <1>3

LEMMA SwitchTypes ==
  ASSUME Routed, NEW w \in Worktrees, NEW attr \in [Worktrees -> Pushes \cup {None}],
         NEW cl \in Cluster, NEW an \in Analyzer, IsInjective(cl.deferred), cl.fence < cl.nextGen,
         driver' \in Driver, IsInjective(driver'.pending),
         Switch(w, cl, an, attr)
  PROVE  /\ Routed' /\ ra'.inc = an.inc /\ cluster'.lsp = cl.lsp
         /\ cluster'.deferred = cl.deferred /\ cluster'.ready = cl.ready
<1>1. /\ pushed' \in [Worktrees -> Seq(Pushes)]
      /\ \A v \in Worktrees : Len(pushed'[v]) <= QueueCap
      /\ signals' \subseteq Worktrees
      /\ attribution' \in [Worktrees -> Pushes \cup {None}]
      /\ NextPush(w) \in Pushes \cup {None}
  BY TakeTypes DEF Switch
<1> DEFINE n == NextPush(w)
           Rest == /\ cluster' \in Cluster /\ cluster'.deferred = cl.deferred
                   /\ cluster'.fence < cluster'.nextGen
                   /\ cluster'.lsp = cl.lsp /\ cluster'.ready = cl.ready
                   /\ ra' \in Analyzer /\ ra'.inc = an.inc
                   /\ pulls' \subseteq PullOf /\ stalled' \subseteq Pushes
                   /\ budget' \in [natives : Nat, stalls : Nat, idles : Nat]
<1>2. /\ pulls \subseteq PullOf /\ stalled \subseteq Pushes
      /\ budget \in [natives : Nat, stalls : Nat, idles : Nat]
  BY DEF Routed
<1>3. ASSUME WriteOk(w, cl, an)  PROVE Rest
  <2>1. /\ cluster' = [cl EXCEPT !.mux = n, !.fence = cl.nextGen,
                                 !.nextGen = cl.nextGen + 1, !.baseline = TRUE]
        /\ pulls' = pulls \cup {[gen |-> cl.nextGen, inc |-> cl.lsp, empty |-> n = None]}
        /\ stalled' = stalled /\ budget' = budget
    BY <1>3 DEF WriteOk
  <2> DEFINE g == cl.nextGen
  <2>7. g \in Nat /\ g # 0 /\ g + 1 \in Nat \ {0} /\ g < g + 1 /\ cl.lsp \in Nat
    BY DEF Cluster
  <2>2. cluster' \in Cluster /\ cluster'.fence = g /\ cluster'.nextGen = g + 1
    BY <1>1, <2>1, <2>7 DEF Cluster
  <2>3. /\ cluster'.deferred = cl.deferred /\ cluster'.lsp = cl.lsp
        /\ cluster'.ready = cl.ready
    BY <2>1 DEF Cluster
  <2>8. (n = None) \in BOOLEAN
    OBVIOUS
  <2>9. [gen |-> g, inc |-> cl.lsp, empty |-> n = None] \in PullOf
    BY <2>7, <2>8 DEF PullOf
  <2>4. pulls' \subseteq PullOf
    BY <1>2, <2>1, <2>9
  <2>5. Opened(cl, an, n) \in Pushes \cup {None, Garbled}
    BY <1>1 DEF Opened, Analyzer
  <2>6. ra' \in Analyzer /\ ra'.inc = an.inc
    BY <1>3, <2>5 DEF WriteOk, Analyzer
  <2> QED  BY <1>2, <2>1, <2>2, <2>3, <2>4, <2>6, <2>7
<1>4. ASSUME WriteFails(w, cl, an)  PROVE Rest
  <2>1. /\ cluster' = [cl EXCEPT !.mux = n, !.baseline = TRUE]
        /\ stalled' = stalled \cup ({n} \ {None}) /\ pulls' = pulls
    BY <1>4 DEF WriteFails
  <2>2. cluster' \in Cluster /\ cluster'.fence < cluster'.nextGen
    BY <1>1, <2>1 DEF Cluster
  <2>3. /\ cluster'.deferred = cl.deferred /\ cluster'.lsp = cl.lsp
        /\ cluster'.ready = cl.ready
    BY <2>1 DEF Cluster
  <2>4. ra' \in Analyzer /\ ra'.inc = an.inc
    BY <1>4 DEF WriteFails, Analyzer
  <2>5. budget' \in [natives : Nat, stalls : Nat, idles : Nat]
    BY <1>2, <1>4 DEF WriteFails
  <2> QED  BY <1>1, <1>2, <2>1, <2>2, <2>3, <2>4, <2>5
<1>5. ASSUME NoClient(cl, an)  PROVE Rest
  <2>1. cluster' = [cl EXCEPT !.baseline = FALSE]
    BY <1>5 DEF NoClient
  <2>2. /\ cluster' \in Cluster /\ cluster'.fence < cluster'.nextGen
        /\ cluster'.deferred = cl.deferred /\ cluster'.lsp = cl.lsp
        /\ cluster'.ready = cl.ready
    BY <2>1 DEF Cluster
  <2> QED  BY <1>2, <1>5, <2>2 DEF NoClient
<1>6. Rest
  BY <1>3, <1>4, <1>5 DEF Switch
<1> HIDE DEF Rest
<1> QED  BY <1>1, <1>6 DEF Routed, Rest

\* A batch for the driver: it starts, or it waits.
LEMMA ArmTypes ==
  ASSUME NEW drv \in Driver, IsInjective(drv.pending), NEW w \in Worktrees
  PROVE  /\ Arm(drv, w) \in Driver /\ Arm(drv, w).pending = drv.pending
         /\ Arm(drv, w).current = Txn(w) /\ Arm(drv, w).recheck = drv.recheck
BY FreshTypes DEF Arm, Driver

LEMMA QueueTypes ==
  ASSUME NEW drv \in Driver, IsInjective(drv.pending), NEW w \in Worktrees
  PROVE  /\ Queue(drv, w) \in Driver /\ IsInjective(Queue(drv, w).pending)
         /\ Queue(drv, w).current = drv.current
         /\ w = drv.current.wt => Queue(drv, w).pending = drv.pending
         /\ w # drv.current.wt =>
              /\ Queue(drv, w).recheck = drv.recheck
              /\ \A x : Contains(Queue(drv, w).pending, x) <=> Contains(drv.pending, x) \/ x = w
<1> DEFINE r == Queue(drv, w)
<1>1. CASE w = drv.current.wt
  BY <1>1 DEF Queue, Driver
<1>2. CASE w # drv.current.wt /\ Contains(drv.pending, w)
  BY <1>2 DEF Queue, Driver
<1>3. CASE w # drv.current.wt /\ ~Contains(drv.pending, w)
  <2> DEFINE q == Append(drv.pending, w)
  <2>1. /\ q \in Seq(Worktrees) /\ IsInjective(q)
        /\ \A x : Contains(q, x) <=> Contains(drv.pending, x) \/ x = w
    BY <1>3, AppendUnique DEF Driver
  <2>2. r = [drv EXCEPT !.pending = q]
    BY <1>3 DEF Queue
  <2> HIDE DEF q
  <2>3. /\ r \in Driver /\ r.pending = q /\ r.current = drv.current
        /\ r.recheck = drv.recheck
    BY <2>1, <2>2 DEF Driver
  <2> HIDE DEF r
  <2> QED  BY <1>3, <2>1, <2>3 DEF r
<1> QED  BY <1>1, <1>2, <1>3

LEMMA RoutedBatchTypes ==
  ASSUME Routed, NEW w \in Worktrees, NEW attr \in [Worktrees -> Pushes \cup {None}],
         NEW drv \in Driver, IsInjective(drv.pending),
         NEW cl \in Cluster, NEW an \in Analyzer, IsInjective(cl.deferred), cl.fence < cl.nextGen,
         RoutedBatch(w, drv, cl, an, attr)
  PROVE  /\ Routed' /\ ra'.inc = an.inc /\ cluster'.lsp = cl.lsp
         /\ cluster'.deferred = cl.deferred /\ cluster'.ready = cl.ready
<1>1. CASE drv.current = NoTxn
  <2>1. driver' = Arm(drv, w) /\ Switch(w, cl, an, attr)
    BY <1>1 DEF RoutedBatch
  <2>2. driver' \in Driver /\ IsInjective(driver'.pending)
    BY <2>1, ArmTypes
  <2> QED  BY <2>1, <2>2, SwitchTypes
<1>2. CASE drv.current # NoTxn
  <2>1. /\ driver' = Queue(drv, w) /\ cluster' = cl /\ ra' = an /\ attribution' = attr
        /\ UNCHANGED <<pushed, signals, pulls, stalled, budget>>
    BY <1>2 DEF RoutedBatch
  <2>2. driver' \in Driver /\ IsInjective(driver'.pending)
    BY <2>1, QueueTypes
  <2> QED  BY <2>1, <2>2 DEF Routed
<1> QED  BY <1>1, <1>2

LEMMA RouteOrDeferTypes ==
  ASSUME Routed, NEW w \in Worktrees, NEW attr \in [Worktrees -> Pushes \cup {None}],
         NEW drv \in Driver, IsInjective(drv.pending),
         NEW cl \in Cluster, NEW an \in Analyzer, IsInjective(cl.deferred), cl.fence < cl.nextGen,
         RouteOrDefer(w, drv, cl, an, attr)
  PROVE  Routed' /\ ra'.inc = an.inc /\ cluster'.lsp = cl.lsp
<1>1. CASE cl.ready
  BY <1>1, RoutedBatchTypes DEF RouteOrDefer
<1>2. CASE ~cl.ready
  <2> DEFINE q == IF Contains(cl.deferred, w) THEN cl.deferred ELSE Append(cl.deferred, w)
  <2>1. q \in Seq(Worktrees) /\ IsInjective(q)
    BY AppendUnique DEF Cluster
  <2>2. /\ cluster' = [cl EXCEPT !.deferred = q]
        /\ driver' = drv /\ ra' = an /\ attribution' = attr
        /\ UNCHANGED <<signals, pushed, pulls, stalled, budget>>
    BY <1>2 DEF RouteOrDefer
  <2> HIDE DEF q
  <2>3. /\ cluster' \in Cluster /\ IsInjective(cluster'.deferred) /\ cluster'.lsp = cl.lsp
        /\ cluster'.fence < cluster'.nextGen
    BY <2>1, <2>2 DEF Cluster
  <2> QED  BY <2>2, <2>3 DEF Routed
<1> QED  BY <1>1, <1>2

\* One lemma for each group of actors.
LEMMA ClientTypes ==
  ASSUME TypeOK, NEW p \in Pushes, Client(p)
  PROVE  TypeOK'
<1> DEFINE w == WtOf[p]
<1>0. /\ Routed /\ Told /\ Looped /\ Processes /\ Witnesses
      /\ w \in Worktrees /\ pushed[w] \in Seq(Pushes) /\ Len(pushed[w]) <= QueueCap
  BY TypeParts, Constants DEF Routed
<1>1. ASSUME Admit(p)  PROVE TypeOK'
  <2>1. Told'
    BY <1>0, <1>1 DEF Admit, Told
  <2>2. Routed' /\ Looped' /\ Processes' /\ Witnesses'
    BY <1>0, <1>1 DEF Admit, Routed, Looped, Processes, Witnesses, loopVars, raVars, witnessVars
  <2> QED  BY <2>1, <2>2, TypePartsAfter
<1>2. ASSUME Replace(p)  PROVE TypeOK'
  <2>1. PICK i \in SameCommit(p) : /\ pushed' = [pushed EXCEPT ![w][i] = p]
                                   /\ superseded' = superseded \cup {pushed[w][i]}
    BY <1>2 DEF Replace
  <2> DEFINE q == [pushed[w] EXCEPT ![i] = p]
  <2>2. i \in DOMAIN pushed[w]
    BY DEF SameCommit
  <2>3. pushed' = [pushed EXCEPT ![w] = q]
    BY <1>0, <2>1 DEF Routed
  <2>4. i \in 1..Len(pushed[w]) /\ pushed[w][i] \in Pushes
    BY <1>0, <2>2, Positions
  <2>5. q \in Seq(Pushes) /\ Len(q) = Len(pushed[w])
    BY <1>0, <2>4, ExceptSeq
  <2> HIDE DEF q
  <2>6. Told'
    BY <1>0, <1>2, <2>1, <2>4 DEF Replace, Told
  <2>7. Routed'
    BY <1>0, <1>2, <2>3, <2>5 DEF Replace, Routed, loopVars, raVars
  <2>8. Looped' /\ Processes' /\ Witnesses'
    BY <1>0, <1>2 DEF Replace, Looped, Processes, Witnesses, loopVars, raVars, witnessVars
  <2> QED  BY <2>6, <2>7, <2>8, TypePartsAfter
<1>3. ASSUME Enqueue(p)  PROVE TypeOK'
  <2>1. Told'
    BY <1>0, <1>3 DEF Enqueue, Told
  <2>2. /\ Append(pushed[w], p) \in Seq(Pushes)
        /\ Len(Append(pushed[w], p)) = Len(pushed[w]) + 1
    BY <1>0, AppendProperties
  <2>3. \/ pushed' = pushed
        \/ /\ pushed' = [pushed EXCEPT ![w] = Append(pushed[w], p)]
           /\ ~(Len(pushed[w]) >= QueueCap)
    BY <1>3 DEF Enqueue
  <2>4. Len(pushed[w]) \in Nat /\ QueueCap \in Nat
    BY <1>0, Positions, Constants
  <2>5. /\ pushed' \in [Worktrees -> Seq(Pushes)]
        /\ \A v \in Worktrees : Len(pushed'[v]) <= QueueCap
    <3>1. ~(Len(pushed[w]) >= QueueCap) => Len(pushed[w]) + 1 <= QueueCap
      BY <2>4
    <3>2. CASE pushed' = pushed
      BY <1>0, <3>2 DEF Routed
    <3>3. CASE pushed' = [pushed EXCEPT ![w] = Append(pushed[w], p)] /\ Len(pushed[w]) + 1 <= QueueCap
      BY <1>0, <2>2, <3>3 DEF Routed
    <3> QED  BY <2>3, <3>1, <3>2, <3>3
  <2>6. Routed'
    BY <1>0, <1>3, <2>5 DEF Enqueue, Routed, loopVars, raVars
  <2>7. Looped' /\ Processes' /\ Witnesses'
    BY <1>0, <1>3 DEF Enqueue, Looped, Processes, Witnesses, loopVars, raVars, witnessVars
  <2> QED  BY <2>1, <2>6, <2>7, TypePartsAfter
<1>4. ASSUME Signal(p)  PROVE TypeOK'
  <2>1. Told' /\ Routed'
    BY <1>0, <1>4 DEF Signal, Told, Routed, loopVars, raVars
  <2>2. Looped' /\ Processes' /\ Witnesses'
    BY <1>0, <1>4 DEF Signal, Looped, Processes, Witnesses, loopVars, raVars, witnessVars
  <2> QED  BY <2>1, <2>2, TypePartsAfter
<1>5. ASSUME SendGate(p)  PROVE TypeOK'
  <2>1. Told' /\ Routed' /\ Looped' /\ Processes'
    BY <1>0, <1>5 DEF SendGate, Told, Routed, Looped, Processes, loopVars, raVars
  <2>2. Append(gateQ, p) \in Seq(Gates)
    BY <1>0, <1>5, AppendProperties DEF SendGate, Witnesses
  <2>3. Witnesses'
    BY <1>0, <1>5, <2>2 DEF SendGate, Witnesses
  <2> QED  BY <2>1, <2>3, TypePartsAfter
<1> QED  BY <1>1, <1>2, <1>3, <1>4, <1>5 DEF Client

LEMMA BeginTypes ==
  ASSUME Witnesses, NEW p \in Pushes, NEW err \in BOOLEAN, superseded \subseteq Pushes, Begin(p, err)
  PROVE  /\ claims' \in [{Key(q) : q \in Pushes} -> Pushes \cup {None}]
         /\ worker' \in [Pushes -> {"none", "waiting", "running", "sent", "ended"}]
         /\ watcher' \in [Pushes -> Watch] /\ superseded' \subseteq Pushes
<1>1. [at |-> "watching", err |-> err, got |-> "nothing"] \in Watch
  BY DEF Watch
<1>2. Key(p) \in {Key(q) : q \in Pushes}
  OBVIOUS
<1>3. claims[Key(p)] \in Pushes \cup {None}
  BY <1>2 DEF Witnesses
<1>4. claims' \in [{Key(q) : q \in Pushes} -> Pushes \cup {None}] /\ superseded' \subseteq Pushes
  BY <1>2, <1>3 DEF Begin, Witnesses
<1> QED  BY <1>1, <1>4 DEF Begin, Witnesses

\* A compile that runs holds a slot, when slots are counted at all.
LEMMA SlotHeld ==
  ASSUME Counted, slots \in Nat, NEW p \in Pushes, worker[p] \in {"running", "sent"}
  PROVE  WitnessLimit = 0 \/ (WitnessLimit > 0 /\ slots - 1 \in Nat)
<1>1. p \in Compiling /\ IsFiniteSet(Compiling)
  BY DEF Compiling, Counted
<1>2. Cardinality(Compiling) \in Nat /\ Cardinality(Compiling) # 0
  BY <1>1, FS_CardinalityType, FS_EmptySet
<1>3. WitnessLimit \in Nat
  BY Constants
<1> QED  BY <1>2, <1>3 DEF Counted

LEMMA AnswerTypes ==
  ASSUME Told, NEW p \in Pushes \cup {None}, NEW w, NEW v \in Verdicts, Publish(p, w, v)
  PROVE  answers' \in [Pushes -> Seq(Verdicts)] /\ activeWts' \subseteq Worktrees
<1>1. CASE p = None
  BY <1>1 DEF Publish, Answer, Told
<1>2. CASE p # None
  <2>1. Append(answers[p], v) \in Seq(Verdicts)
    BY <1>2, AppendProperties DEF Told
  <2> QED  BY <1>2, <2>1 DEF Publish, Answer, Told
<1> QED  BY <1>1, <1>2

LEMMA WitnessTypes ==
  ASSUME TypeOK, Counted, NEW p \in Pushes, WitnessStep(p)
  PROVE  TypeOK'
<1>0. Routed /\ Told /\ Looped /\ Processes /\ Witnesses
  BY TypeParts
<1>1. watcher[p] \in Watch /\ WitnessLimit \in Nat /\ slots \in Nat
  BY <1>0, Constants DEF Witnesses
<1>2. ASSUME Acquire(p)  PROVE TypeOK'
  <2>1. Routed' /\ Told' /\ Looped' /\ Processes'
    BY <1>0, <1>2 DEF Acquire, Told, Routed, Looped, Processes, apiVars, loopVars, raVars
  <2>2. Witnesses'
    BY <1>0, <1>1, <1>2 DEF Acquire, Witnesses
  <2> QED  BY <2>1, <2>2, TypePartsAfter
<1>3. ASSUME WorkerSends(p)  PROVE TypeOK'
  <2>1. Routed' /\ Told' /\ Looped' /\ Processes'
    BY <1>0, <1>3 DEF WorkerSends, Told, Routed, Looped, Processes, apiVars, loopVars, raVars
  <2>2. watcher' \in [Pushes -> Watch]
    <3>1. \A s \in Summaries(p) : [watcher[p] EXCEPT !.got = s] \in Watch
      BY <1>1 DEF Summaries, Watch, Verdicts
    <3>2. CASE watcher[p].at = "watching"
      <4>1. PICK s \in Summaries(p) : watcher' = [watcher EXCEPT ![p].got = s]
        BY <1>3, <3>2 DEF WorkerSends
      <4> QED  BY <1>0, <3>1, <4>1 DEF Witnesses
    <3>3. CASE watcher[p].at # "watching"
      BY <1>0, <1>3, <3>3 DEF WorkerSends, Witnesses
    <3> QED  BY <3>2, <3>3
  <2>3. Witnesses'
    BY <1>0, <1>3, <2>2 DEF WorkerSends, Witnesses
  <2> QED  BY <2>1, <2>3, TypePartsAfter
<1>4. ASSUME WorkerEnds(p)  PROVE TypeOK'
  <2>1. Routed' /\ Told' /\ Looped' /\ Processes'
    BY <1>0, <1>4 DEF WorkerEnds, Told, Routed, Looped, Processes, apiVars, loopVars, raVars
  <2>2. slots' \in Nat
    BY <1>1, <1>4, SlotHeld DEF WorkerEnds
  <2>3. Witnesses'
    BY <1>0, <1>4, <2>2 DEF WorkerEnds, Witnesses
  <2> QED  BY <2>1, <2>3, TypePartsAfter
<1>5. ASSUME NEW s \in Verdicts, Settle(p, s)  PROVE TypeOK'
  <2>1. Routed' /\ Told' /\ Looped' /\ Processes'
    BY <1>0, <1>5 DEF Settle, Told, Routed, Looped, Processes, apiVars, loopVars, raVars
  <2>2. Composed(watcher[p].err, s) \in Verdicts
    BY DEF Composed, Verdicts
  <2>3. /\ [watcher[p] EXCEPT !.at = "publishing", !.got = Composed(watcher[p].err, s)] \in Watch
        /\ [watcher[p] EXCEPT !.at = "dropped"] \in Watch
    BY <1>1, <2>2 DEF Watch
  <2>4. watcher' \in [Pushes -> Watch]
    BY <1>0, <1>5, <2>3 DEF Settle, Witnesses
  <2>5. claims' \in [{Key(q) : q \in Pushes} -> Pushes \cup {None}]
    BY <1>0, <1>5 DEF Settle, Witnesses
  <2>6. Witnesses'
    BY <1>0, <1>5, <2>4, <2>5 DEF Settle, Witnesses
  <2> QED  BY <2>1, <2>6, TypePartsAfter
<1>6. ASSUME WatcherHears(p) \/ WatchdogFires(p)  PROVE TypeOK'
  <2>1. \E s \in Verdicts : Settle(p, s)
    BY <1>1, <1>6 DEF WatcherHears, WatchdogFires, Watch, Verdicts
  <2> QED  BY <1>5, <2>1
<1>7. ASSUME WatcherPublishes(p)  PROVE TypeOK'
  <2>0. watcher[p].got \in Verdicts
    BY <1>1, <1>7 DEF WatcherPublishes, Watch
  <2>1. answers' \in [Pushes -> Seq(Verdicts)] /\ activeWts' \subseteq Worktrees
    BY <1>0, <1>7, <2>0, AnswerTypes DEF WatcherPublishes
  <2>2. Routed' /\ Looped' /\ Processes' /\ Told'
    BY <1>0, <1>7, <2>1 DEF WatcherPublishes, Told, Routed, Looped, Processes, loopVars, raVars
  <2>3. [watcher[p] EXCEPT !.at = "done"] \in Watch
    BY <1>1 DEF Watch
  <2>4. Witnesses'
    BY <1>0, <1>7, <2>3 DEF WatcherPublishes, Witnesses
  <2> QED  BY <2>2, <2>4, TypePartsAfter
<1> QED  BY <1>2, <1>3, <1>4, <1>6, <1>7 DEF WitnessStep, Watcher

LEMMA LastElement ==
  ASSUME NEW S, NEW q \in Seq(S), q # <<>>
  PROVE  Last(q) \in S /\ \E k \in DOMAIN q : Last(q) = q[k]
<1>1. Len(q) \in DOMAIN q /\ q[Len(q)] \in S
  BY Positions
<1> QED  BY <1>1 DEF Last

LEMMA HandshakedTypes ==
  ASSUME NEW cl \in Cluster, IsInjective(cl.deferred), NEW n \in Nat, cl.fence < cl.nextGen
  PROVE  /\ Handshaked(cl, n) \in Cluster /\ Handshaked(cl, n).lsp = n
         /\ Handshaked(cl, n).deferred = cl.deferred /\ Handshaked(cl, n).fence = 0
         /\ Handshaked(cl, n).nextGen = cl.nextGen /\ Handshaked(cl, n).mux = None
         /\ Handshaked(cl, n).fence < Handshaked(cl, n).nextGen
<1>1. cl.nextGen \in Nat \ {0}
  BY DEF Cluster
<1>2. 0 < cl.nextGen
  BY <1>1
<1> QED  BY <1>1, <1>2 DEF Handshaked, Cluster

LEMMA AfterSettleTypes ==
  ASSUME NEW drv \in Driver, IsInjective(drv.pending), drv.current # NoTxn
  PROVE  LET next == AfterSettle(drv)
         IN  /\ next \in Driver /\ IsInjective(next.pending)
             /\ \A x : Contains(next.pending, x) => Contains(drv.pending, x)
             /\ drv.recheck => next.current = Txn(drv.current.wt) /\ ~next.recheck
             /\ ~drv.recheck => /\ next.recheck = FALSE
                                /\ \/ next.current = NoTxn /\ next.pending = drv.pending
                                   \/ /\ drv.pending # <<>> /\ next.current = Txn(Head(drv.pending))
                                      /\ ~Contains(next.pending, Head(drv.pending))
                                      /\ Contains(drv.pending, Head(drv.pending))
             /\ next.current # NoTxn =>
                  /\ next.current.wt \in Worktrees /\ next.current = Txn(next.current.wt)
<1> DEFINE next == AfterSettle(drv)
<1>1. drv.current \in Transaction /\ drv.current.wt \in Worktrees
  BY FreshTypes DEF Driver, Transaction
<1>2. CASE drv.recheck
  <2>1. next = [drv EXCEPT !.recheck = FALSE, !.current = Txn(drv.current.wt)]
    BY <1>2 DEF AfterSettle
  <2>2. /\ Txn(drv.current.wt) \in Transaction /\ Txn(drv.current.wt).wt = drv.current.wt
    BY <1>1, FreshTypes
  <2>3. /\ next \in Driver /\ next.pending = drv.pending
        /\ next.current = Txn(drv.current.wt) /\ ~next.recheck
    BY <2>1, <2>2 DEF Driver
  <2> HIDE DEF next
  <2> QED  BY <1>1, <1>2, <2>2, <2>3 DEF next
<1>3. CASE ~drv.recheck /\ drv.pending # <<>>
  <2> DEFINE h == Head(drv.pending)
             q == Tail(drv.pending)
  <2>1. next = [drv EXCEPT !.current = Txn(h), !.pending = q]
    BY <1>3 DEF AfterSettle
  <2>2. /\ q \in Seq(Worktrees) /\ IsInjective(q) /\ h \in Worktrees
        /\ ~Contains(q, h) /\ Contains(drv.pending, h)
        /\ \A x : Contains(q, x) => Contains(drv.pending, x)
    BY <1>3, TailUnique, TailPositions DEF Driver
  <2> HIDE DEF h, q
  <2>3. Txn(h) \in Transaction /\ Txn(h).wt = h
    BY <2>2, FreshTypes
  <2>4. /\ next \in Driver /\ next.pending = q /\ next.current = Txn(h)
        /\ next.recheck = FALSE
    BY <1>3, <2>1, <2>2, <2>3 DEF Driver
  <2> HIDE DEF next
  <2> QED  BY <1>3, <2>2, <2>3, <2>4 DEF next, h
<1>4. CASE ~drv.recheck /\ drv.pending = <<>>
  <2>1. next = [drv EXCEPT !.current = NoTxn]
    BY <1>4 DEF AfterSettle
  <2>2. /\ next \in Driver /\ next.pending = drv.pending
        /\ next.current = NoTxn /\ next.recheck = FALSE
    BY <1>4, <2>1 DEF Driver
  <2> HIDE DEF next
  <2> QED  BY <1>4, <2>2 DEF next
<1> QED  BY <1>2, <1>3, <1>4

LEMMA InTransaction ==
  ASSUME NEW drv \in Driver, drv.current # NoTxn
  PROVE  drv.current \in Transaction /\ drv.current.wt \in Worktrees
BY DEF Driver, Transaction

LEMMA SettledTypes ==
  ASSUME driver \in Driver, driver.current # NoTxn, NEW e \in LspEvent
  PROVE  /\ Settled(e) \in Transaction /\ Settled(e).wt = driver.current.wt
         /\ Settled(e).err = (driver.current.err \/ e.kind = "failed")
         /\ Settled(e).real = (driver.current.real \/ e.kind = "failed")
<1>1. driver.current \in Transaction
  BY InTransaction
<1>2. /\ (driver.current.real \/ e.kind = "failed") \in BOOLEAN
      /\ (driver.current.err \/ e.kind = "failed") \in BOOLEAN
      /\ (e.kind = "failed" /\ e.gen # 0) \in BOOLEAN
  OBVIOUS
<1> QED  BY <1>1, <1>2 DEF Settled, Transaction

LEMMA UnfencedTypes ==
  ASSUME NEW e \in LspEvent, cluster \in Cluster, cluster.fence < cluster.nextGen
  PROVE  /\ Unfenced(e) \in Cluster /\ Unfenced(e).deferred = cluster.deferred
         /\ Unfenced(e).lsp = cluster.lsp /\ Unfenced(e).mux = cluster.mux
         /\ Unfenced(e).nextGen = cluster.nextGen /\ Unfenced(e).ready = cluster.ready
         /\ Unfenced(e).baseline = cluster.baseline
         /\ Unfenced(e).fence = IF e.gen # 0 /\ Terminal(e) THEN 0 ELSE cluster.fence
         /\ Unfenced(e).fence < Unfenced(e).nextGen
<1>1. cluster.nextGen \in Nat \ {0}
  BY DEF Cluster
<1>2. 0 < cluster.nextGen
  BY <1>1
<1> QED  BY <1>2 DEF Unfenced, Cluster

LEMMA TakeEventTypes ==
  ASSUME Processes, Looped, NEW e, TakeEvent(e)
  PROVE  e \in LspEvent /\ events' \in Seq(LspEvent) /\ phase = "lsp"
BY TailPositions DEF TakeEvent, Processes

LEMMA StrandedTypes ==
  ASSUME Routed, Told
  PROVE  /\ Stranded \subseteq Pushes /\ NoAttribution \in [Worktrees -> Pushes \cup {None}]
         /\ PublishStranded => /\ answers' \in [Pushes -> Seq(Verdicts)]
                               /\ activeWts' \subseteq Worktrees
<1>1. Stranded \subseteq Pushes
  BY DEF Stranded, Routed
<1>2. \A p \in Pushes : Append(answers[p], "unknown") \in Seq(Verdicts)
  BY AppendProperties DEF Told, Verdicts
<1> QED  BY <1>1, <1>2 DEF NoAttribution, PublishStranded, Told

LEMMA RoundTypes ==
  ASSUME TypeOK, Round
  PROVE  TypeOK'
<1>0. Routed /\ Told /\ Looped /\ Processes /\ Witnesses
  BY TypeParts
<1>1. /\ stage' = stage /\ pushed' = pushed /\ quiescing' = quiescing
      /\ superseded' = superseded /\ members' = members /\ abandoned' = abandoned
      /\ ra' = ra /\ spawns' = spawns /\ events' = events /\ pulls' = pulls
      /\ stalled' = stalled /\ budget' = budget
      /\ phase' = "keys" /\ keys' = signals /\ signals' = {} /\ ctrl' = <<>>
  BY DEF Round
<1>2. /\ gateQ' = gateQ /\ claims' = claims /\ worker' = worker
      /\ watcher' = watcher /\ slots' = slots
  BY DEF Round, witnessVars
<1>3. Witnesses' /\ Looped'
  BY <1>0, <1>1, <1>2 DEF Witnesses, Looped, Routed
<1>4. CASE ctrl # <<>> /\ members # {}
  <2>1. /\ driver' = ResetAfterRespawn(driver) /\ PublishStranded
        /\ attribution' = NoAttribution /\ cluster' = Handshaked(cluster, Last(ctrl))
    BY <1>4 DEF Round
  <2>2. Last(ctrl) \in 1..spawns /\ Last(ctrl) \in Nat /\ Last(ctrl) <= spawns
    <3>1. Last(ctrl) \in 1..spawns
      BY <1>0, <1>4, LastElement DEF Processes
    <3> QED  BY <1>0, <3>1 DEF Processes
  <2> DEFINE n == Last(ctrl)
  <2> HIDE DEF n
  <2>3. /\ cluster' \in Cluster /\ cluster'.lsp = n /\ cluster'.deferred = cluster.deferred
        /\ cluster'.fence < cluster'.nextGen
    <3>1. n \in Nat /\ cluster' = Handshaked(cluster, n)
      BY <2>1, <2>2 DEF n
    <3> QED  BY <1>0, <3>1, HandshakedTypes DEF Routed
  <2>4. driver' \in Driver /\ driver'.pending = driver.pending
    BY <1>0, <2>1 DEF ResetAfterRespawn, Driver, Routed
  <2>5. Routed'
    BY <1>0, <1>1, <2>1, <2>3, <2>4, StrandedTypes DEF Routed
  <2>6. Processes'
    <3>1. <<>> \in Seq(1..spawns)
      OBVIOUS
    <3> QED  BY <1>0, <1>1, <2>2, <2>3, <3>1 DEF Processes, n
  <2>7. Told'
    BY <1>0, <1>1, <2>1, StrandedTypes DEF Told
  <2> QED  BY <1>3, <2>5, <2>6, <2>7, TypePartsAfter
<1>5. CASE ~(ctrl # <<>> /\ members # {})
  <2>1. UNCHANGED <<driver, answers, activeWts, attribution, cluster>>
    BY <1>5 DEF Round
  <2>2. Routed' /\ Processes' /\ Told'
    BY <1>0, <1>1, <2>1 DEF Routed, Processes, Told
  <2> QED  BY <1>3, <2>2, TypePartsAfter
<1> QED  BY <1>4, <1>5

LEMMA PushKeyTypes ==
  ASSUME TypeOK, NEW w \in Worktrees, PushKeyRoutes(w) \/ PushKeySpawns(w) \/ PushKeyFails(w)
  PROVE  TypeOK'
<1>0. Routed /\ Told /\ Looped /\ Processes /\ Witnesses
  BY TypeParts
<1>1. /\ keys' = keys \ {w} /\ phase' = phase /\ stage' = stage /\ quiescing' = quiescing
      /\ superseded' = superseded /\ abandoned' = abandoned /\ events' = events
      /\ gateQ' = gateQ /\ claims' = claims /\ worker' = worker
      /\ watcher' = watcher /\ slots' = slots
  BY DEF PushKeyRoutes, PushKeySpawns, PushKeyFails, TakeKey, witnessVars
<1>2. members' \subseteq Worktrees
  BY <1>0 DEF PushKeyRoutes, PushKeySpawns, PushKeyFails, Looped
<1>3. Witnesses' /\ Looped'
  BY <1>0, <1>1, <1>2 DEF Witnesses, Looped
<1>4. ASSUME PushKeyRoutes(w)  PROVE TypeOK'
  <2>1. Routed' /\ ra'.inc = ra.inc /\ cluster'.lsp = cluster.lsp
    BY <1>0, <1>4, RouteOrDeferTypes DEF PushKeyRoutes, Routed
  <2>2. Processes' /\ Told'
    BY <1>0, <1>1, <1>4, <2>1 DEF PushKeyRoutes, Processes, Told
  <2> QED  BY <1>3, <2>1, <2>2, TypePartsAfter
<1>5. ASSUME PushKeySpawns(w)  PROVE TypeOK'
  <2>1. PICK shaken \in BOOLEAN :
          LET sent == IF shaken THEN Append(ctrl, spawns + 1) ELSE ctrl
              an   == [inc |-> spawns + 1, alive |-> shaken, text |-> None]
          IN  IF sent = <<>>
              THEN /\ RouteOrDefer(w, FreshDriver, FreshCluster, an, attribution)
                   /\ UNCHANGED <<answers, activeWts>>
              ELSE /\ RouteOrDefer(w, FreshDriver, Handshaked(FreshCluster, Last(sent)), an,
                                   NoAttribution)
                   /\ PublishStranded
    BY <1>5 DEF PushKeySpawns
  <2> DEFINE sent == IF shaken THEN Append(ctrl, spawns + 1) ELSE ctrl
             an   == [inc |-> spawns + 1, alive |-> shaken, text |-> None]
  <2>2. spawns + 1 \in Nat /\ spawns' = spawns + 1 /\ ctrl' = <<>>
    BY <1>0, <1>5 DEF PushKeySpawns, Processes
  <2>3. an \in Analyzer /\ an.inc = spawns + 1
    BY <2>2 DEF Analyzer
  <2>4. sent \in Seq(1..spawns + 1)
    <3>1. ctrl \in Seq(1..spawns + 1)
      BY <1>0, SeqMonotonic DEF Processes
    <3>2. spawns + 1 \in 1..spawns + 1
      BY <1>0 DEF Processes
    <3> QED  BY <3>1, <3>2, AppendProperties
  <2>5. CASE sent = <<>>
    <3>1. RouteOrDefer(w, FreshDriver, FreshCluster, an, attribution) /\ UNCHANGED <<answers, activeWts>>
      BY <2>1, <2>5
    <3> HIDE DEF an
    <3>2. Routed' /\ ra'.inc = an.inc /\ cluster'.lsp = 0
      <4>1. /\ FreshDriver \in Driver /\ IsInjective(FreshDriver.pending)
            /\ FreshCluster \in Cluster /\ IsInjective(FreshCluster.deferred)
            /\ FreshCluster.fence < FreshCluster.nextGen /\ FreshCluster.lsp = 0
        BY FreshTypes
      <4>2. attribution \in [Worktrees -> Pushes \cup {None}]
        BY <1>0 DEF Routed
      <4> QED  BY <1>0, <2>3, <3>1, <4>1, <4>2, RouteOrDeferTypes
    <3>3. Processes' /\ Told'
      BY <1>0, <1>1, <2>2, <2>3, <3>1, <3>2 DEF Processes, Told
    <3> QED  BY <1>3, <3>2, <3>3, TypePartsAfter
  <2>6. CASE sent # <<>>
    <3> DEFINE cl == Handshaked(FreshCluster, Last(sent))
    <3>1. RouteOrDefer(w, FreshDriver, cl, an, NoAttribution) /\ PublishStranded
      BY <2>1, <2>6
    <3>2. Last(sent) \in 1..spawns + 1
      BY <2>4, <2>6, LastElement
    <3> HIDE DEF an, sent
    <3>3. /\ cl \in Cluster /\ cl.lsp = Last(sent) /\ IsInjective(cl.deferred)
          /\ cl.fence < cl.nextGen
      <4>1. /\ FreshCluster \in Cluster /\ IsInjective(FreshCluster.deferred)
            /\ FreshCluster.fence < FreshCluster.nextGen
        BY FreshTypes
      <4>2. \A k \in 1..spawns + 1 : k \in Nat
        BY <2>2
      <4>3. Last(sent) \in Nat
        BY <3>2, <4>2
      <4> QED  BY <4>1, <4>3, HandshakedTypes
    <3> HIDE DEF cl
    <3>4. Routed' /\ ra'.inc = an.inc /\ cluster'.lsp = cl.lsp
      BY <1>0, <2>3, <3>1, <3>3, RouteOrDeferTypes, FreshTypes, StrandedTypes
    <3>5. Processes'
      BY <1>0, <1>1, <2>2, <2>3, <3>2, <3>3, <3>4 DEF Processes
    <3>6. Told'
      BY <1>0, <1>1, <3>1, StrandedTypes DEF Told
    <3> QED  BY <1>3, <3>4, <3>5, <3>6, TypePartsAfter
  <2> QED  BY <2>5, <2>6
<1>6. ASSUME PushKeyFails(w)  PROVE TypeOK'
  <2>1. pushed[w] \in Seq(Pushes) /\ Len(pushed[w]) <= QueueCap
    BY <1>0 DEF Routed
  <2>2. /\ pushed' \in [Worktrees -> Seq(Pushes)]
        /\ \A v \in Worktrees : Len(pushed'[v]) <= QueueCap
        /\ NextPush(w) \in Pushes \cup {None}
    <3>1. CASE pushed[w] = <<>>
      <4>1. pushed' = pushed
        BY <1>0, <1>6, <3>1 DEF PushKeyFails, Routed
      <4> QED  BY <1>0, <3>1, <4>1 DEF NextPush, Routed
    <3>2. CASE pushed[w] # <<>>
      <4>1. /\ Tail(pushed[w]) \in Seq(Pushes) /\ Len(Tail(pushed[w])) = Len(pushed[w]) - 1
            /\ Head(pushed[w]) \in Pushes
        BY <2>1, <3>2, TailPositions
      <4>2. Len(pushed[w]) - 1 <= QueueCap
        BY <2>1, Positions, Constants
      <4>3. pushed' = [pushed EXCEPT ![w] = Tail(pushed[w])]
        BY <1>6, <3>2 DEF PushKeyFails
      <4> QED  BY <1>0, <3>2, <4>1, <4>2, <4>3 DEF NextPush, Routed
    <3> QED  BY <3>1, <3>2
  <2>3. answers' \in [Pushes -> Seq(Verdicts)] /\ activeWts' \subseteq Worktrees
    BY <1>0, <1>6, <2>2, AnswerTypes DEF PushKeyFails, Told, Verdicts
  <2>4. Routed'
    BY <1>0, <1>6, <2>2 DEF PushKeyFails, Routed
  <2>5. Processes' /\ Told'
    BY <1>0, <1>1, <1>6, <2>3 DEF PushKeyFails, Processes, Told
  <2> QED  BY <1>3, <2>4, <2>5, TypePartsAfter
<1> QED  BY <1>4, <1>5, <1>6

LEMMA EventTypes ==
  ASSUME TypeOK, EventIgnored \/ EventObserved \/ EventSettles \/ EventIndexed \/ RouteDeferred
  PROVE  TypeOK'
<1>0. Routed /\ Told /\ Looped /\ Processes /\ Witnesses
  BY TypeParts
<1> DEFINE e == Head(events)
<1>1. ASSUME events # <<>>  PROVE e \in LspEvent /\ Tail(events) \in Seq(LspEvent)
  BY <1>0, <1>1, TailPositions DEF Processes
<1> HIDE DEF e
<1>2. ASSUME EventIgnored  PROVE TypeOK'
  <2>1. /\ events # <<>> /\ TakeEvent(e) /\ cluster' \in {cluster, Unfenced(e)}
        /\ UNCHANGED <<phase, pushed, signals, activeWts, attribution,
                       answers, superseded, driver, ra, pulls, stalled,
                       budget, witnessVars>>
    BY <1>2 DEF EventIgnored, e
  <2>2. /\ cluster' \in Cluster /\ IsInjective(cluster'.deferred)
        /\ cluster'.fence < cluster'.nextGen /\ cluster'.lsp = cluster.lsp
    BY <1>0, <1>1, <2>1, UnfencedTypes DEF Routed
  <2>3. Routed'
    BY <1>0, <2>1, <2>2 DEF Routed
  <2>4. Told' /\ Looped' /\ Processes' /\ Witnesses'
    BY <1>0, <1>1, <2>1, <2>2 DEF Told, Looped, Processes, Witnesses, TakeEvent, witnessVars, e
  <2> QED  BY <2>3, <2>4, TypePartsAfter
<1>3. ASSUME EventObserved  PROVE TypeOK'
  <2>1. /\ events # <<>> /\ TakeEvent(e) /\ driver.current # NoTxn
        /\ driver' = [driver EXCEPT !.current.real = TRUE,
                                    !.current.err = driver.current.err \/ e.err]
        /\ UNCHANGED <<phase, pushed, signals, activeWts, attribution,
                        answers, superseded, cluster, ra, pulls, stalled,
                        budget, witnessVars>>
    BY <1>3 DEF EventObserved, e
  <2>2. driver.current \in Transaction /\ driver \in Driver
    BY <1>0, <2>1, InTransaction DEF Routed
  <2>3. (driver.current.err \/ e.err) \in BOOLEAN
    OBVIOUS
  <2>4. driver' \in Driver /\ driver'.pending = driver.pending
    BY <2>1, <2>2, <2>3 DEF Driver, Transaction
  <2>5. Routed'
    BY <1>0, <2>1, <2>4 DEF Routed
  <2>6. Told' /\ Looped' /\ Processes' /\ Witnesses'
    BY <1>0, <1>1, <2>1 DEF Told, Looped, Processes, Witnesses, TakeEvent, witnessVars, e
  <2> QED  BY <2>5, <2>6, TypePartsAfter
<1>4. ASSUME EventSettles  PROVE TypeOK'
  <2> DEFINE t == Settled(e)
             next == AfterSettle(driver)
             attr == TakeAttribution(t.wt)
             cl == [Unfenced(e) EXCEPT !.baseline = FALSE]
  <2>1. /\ events # <<>> /\ driver.current # NoTxn
        /\ TakeEvent(e) /\ Emit(t) /\ driver' = next /\ phase' = phase
        /\ IF next.current = NoTxn
           THEN /\ cluster' = cl /\ attribution' = attr
                /\ UNCHANGED <<pushed, signals, ra, pulls, stalled, budget>>
           ELSE Switch(next.current.wt, cl, ra, attr)
    BY <1>4 DEF EventSettles, e
  <2>2. e \in LspEvent /\ Tail(events) \in Seq(LspEvent)
    BY <1>1, <2>1
  <2>3. t \in Transaction /\ t.wt \in Worktrees
    BY <1>0, <2>1, <2>2, SettledTypes, InTransaction DEF Routed
  <2>4. attr \in [Worktrees -> Pushes \cup {None}]
    BY <1>0, <2>3 DEF TakeAttribution, Routed
  <2>5. /\ cl \in Cluster /\ cl.deferred = cluster.deferred /\ cl.lsp = cluster.lsp
        /\ cl.fence < cl.nextGen
    <3>1. /\ Unfenced(e) \in Cluster /\ Unfenced(e).deferred = cluster.deferred
          /\ Unfenced(e).lsp = cluster.lsp /\ Unfenced(e).fence < Unfenced(e).nextGen
      BY <1>0, <2>2, UnfencedTypes DEF Routed
    <3> DEFINE u == Unfenced(e)
    <3> HIDE DEF u
    <3>2. u \in Cluster => /\ [u EXCEPT !.baseline = FALSE] \in Cluster
                           /\ [u EXCEPT !.baseline = FALSE].deferred = u.deferred
                           /\ [u EXCEPT !.baseline = FALSE].lsp = u.lsp
                           /\ [u EXCEPT !.baseline = FALSE].fence = u.fence
                           /\ [u EXCEPT !.baseline = FALSE].nextGen = u.nextGen
      BY DEF Cluster
    <3> QED  BY <3>1, <3>2 DEF u
  <2>6. /\ next \in Driver /\ IsInjective(next.pending)
        /\ next.current # NoTxn => next.current.wt \in Worktrees
    BY <1>0, <2>1, AfterSettleTypes DEF Routed
  <2>7. /\ answers' \in [Pushes -> Seq(Verdicts)] /\ activeWts' \subseteq Worktrees
        /\ superseded' \subseteq Pushes /\ Witnesses'
    <3>1. attribution[t.wt] \in Pushes \cup {None} /\ t.err \in BOOLEAN
      BY <1>0, <2>3 DEF Routed, Transaction
    <3> DEFINE p == attribution[t.wt]
    <3>2. CASE p \in Escalated
      <4>1. /\ Begin(p, t.err) /\ UNCHANGED <<answers, activeWts, gateQ, slots>>
        BY <2>1, <3>2 DEF Emit
      <4>2. p \in Pushes /\ superseded \subseteq Pushes
        BY <1>0, <3>2, Constants DEF Told
      <4> DEFINE err == t.err
      <4>3. err \in BOOLEAN /\ Begin(p, err)
        BY <3>1, <4>1
      <4> HIDE DEF t, p, err
      <4>4. /\ claims' \in [{Key(q) : q \in Pushes} -> Pushes \cup {None}]
            /\ worker' \in [Pushes -> {"none", "waiting", "running", "sent", "ended"}]
            /\ watcher' \in [Pushes -> Watch] /\ superseded' \subseteq Pushes
        BY <1>0, <4>2, <4>3, BeginTypes
      <4>5. gateQ' = gateQ /\ slots' = slots /\ answers' = answers /\ activeWts' = activeWts
        BY <4>1
      <4> QED  BY <1>0, <4>4, <4>5 DEF Witnesses, Told
    <3>3. CASE p \notin Escalated
      <4>1. /\ Publish(p, t.wt, NativeVerdict(t, p)) /\ UNCHANGED <<superseded, witnessVars>>
        BY <2>1, <3>3 DEF Emit
      <4>2. NativeVerdict(t, p) \in Verdicts
        BY DEF NativeVerdict, Verdicts
      <4> HIDE DEF t, p
      <4> QED  BY <1>0, <3>1, <4>1, <4>2, AnswerTypes DEF Witnesses, Told, witnessVars, p
    <3> QED  BY <3>2, <3>3
  <2> HIDE DEF t, next, attr, cl
  <2>8. Routed' /\ ra'.inc = ra.inc /\ cluster'.lsp = cluster.lsp
    <3>1. CASE next.current = NoTxn
      BY <1>0, <2>1, <2>4, <2>5, <2>6, <3>1 DEF Routed
    <3>2. CASE next.current # NoTxn
      <4>1. Switch(next.current.wt, cl, ra, attr) /\ driver' = next
        BY <2>1, <3>2
      <4> QED  BY <1>0, <2>4, <2>5, <2>6, <3>2, <4>1, SwitchTypes DEF Routed
    <3> QED  BY <3>1, <3>2
  <2>9. Told' /\ Looped' /\ Processes'
    BY <1>0, <2>1, <2>2, <2>7, <2>8 DEF Told, Looped, Processes, TakeEvent, e
  <2> QED  BY <2>7, <2>8, <2>9, TypePartsAfter
<1>5. ASSUME EventIndexed  PROVE TypeOK'
  <2>1. /\ events # <<>> /\ TakeEvent(e) /\ cluster' = [cluster EXCEPT !.ready = TRUE]
        /\ phase' \in {"lsp", "deferred"}
        /\ UNCHANGED <<pushed, signals, activeWts, attribution, answers,
                       superseded, driver, ra, pulls, stalled, budget, witnessVars>>
    BY <1>5 DEF EventIndexed, e
  <2>2. /\ cluster' \in Cluster /\ cluster'.deferred = cluster.deferred
        /\ cluster'.fence = cluster.fence /\ cluster'.nextGen = cluster.nextGen
        /\ cluster'.lsp = cluster.lsp
    BY <1>0, <2>1 DEF Cluster, Routed
  <2>3. Routed'
    BY <1>0, <2>1, <2>2 DEF Routed
  <2>4. Told' /\ Looped' /\ Processes' /\ Witnesses'
    BY <1>0, <1>1, <2>1, <2>2 DEF Told, Looped, Processes, Witnesses, TakeEvent, witnessVars, e
  <2> QED  BY <2>3, <2>4, TypePartsAfter
<1>6. ASSUME RouteDeferred  PROVE TypeOK'
  <2> DEFINE h == Head(cluster.deferred)
             cl == [cluster EXCEPT !.deferred = Tail(cluster.deferred)]
  <2>1. /\ cluster.deferred # <<>> /\ RoutedBatch(h, driver, cl, ra, attribution)
        /\ phase' \in {"lsp", "deferred"}
        /\ UNCHANGED <<stage, activeWts, quiescing, answers, superseded, keys,
                       members, abandoned, spawns, ctrl, events, witnessVars>>
    BY <1>6 DEF RouteDeferred
  <2>2. /\ Tail(cluster.deferred) \in Seq(Worktrees) /\ h \in Worktrees
        /\ IsInjective(Tail(cluster.deferred))
    BY <1>0, <2>1, TailPositions, TailUnique DEF Routed, Cluster
  <2>3. /\ cl \in Cluster /\ IsInjective(cl.deferred) /\ cl.lsp = cluster.lsp
        /\ cl.fence = cluster.fence /\ cl.nextGen = cluster.nextGen
    BY <1>0, <2>2 DEF Cluster, Routed
  <2> HIDE DEF h, cl
  <2>4. Routed' /\ ra'.inc = ra.inc /\ cluster'.lsp = cluster.lsp
    BY <1>0, <2>1, <2>2, <2>3, RoutedBatchTypes DEF Routed
  <2>5. Told' /\ Looped' /\ Processes' /\ Witnesses'
    BY <1>0, <2>1, <2>4 DEF Told, Looped, Processes, Witnesses, witnessVars
  <2> QED  BY <2>4, <2>5, TypePartsAfter
<1> QED  BY <1>2, <1>3, <1>4, <1>5, <1>6

LEMMA OtherTypes ==
  ASSUME TypeOK,
         \/ DispatchGate \/ RaRespawns \/ RaNotifies \/ RaDies \/ RequestQuiesce
         \/ ExitDrained \/ KeysDone \/ RoundEnds
         \/ \E q \in pulls : Pull(q)
         \/ \E w \in Worktrees : Deactivate(w)
  PROVE  TypeOK'
<1>0. Routed /\ Told /\ Looped /\ Processes /\ Witnesses
  BY TypeParts
<1>1. ASSUME DispatchGate  PROVE TypeOK'
  <2>1. Head(gateQ) \in Gates /\ Tail(gateQ) \in Seq(Gates)
    BY <1>0, <1>1, TailPositions DEF DispatchGate, Witnesses
  <2> DEFINE p == Head(gateQ)
  <2>2. p \in Pushes /\ superseded \subseteq Pushes /\ FALSE \in BOOLEAN /\ Begin(p, FALSE)
    BY <1>0, <1>1, <2>1, Constants DEF DispatchGate, Told
  <2>3. /\ claims' \in [{Key(q) : q \in Pushes} -> Pushes \cup {None}]
        /\ worker' \in [Pushes -> {"none", "waiting", "running", "sent", "ended"}]
        /\ watcher' \in [Pushes -> Watch] /\ superseded' \subseteq Pushes
    BY <1>0, <2>2, BeginTypes
  <2>4. Witnesses'
    BY <1>0, <1>1, <2>1, <2>3 DEF DispatchGate, Witnesses
  <2>5. Routed' /\ Told' /\ Looped' /\ Processes'
    BY <1>0, <1>1, <2>3 DEF DispatchGate, Routed, Told, Looped, Processes, loopVars, raVars
  <2> QED  BY <2>4, <2>5, TypePartsAfter
<1>2. ASSUME RaRespawns  PROVE TypeOK'
  <2>1. /\ spawns + 1 \in Nat /\ spawns + 1 \in 1..spawns + 1
        /\ ctrl \in Seq(1..spawns + 1) /\ cluster.lsp \in Nat /\ cluster.lsp <= spawns + 1
    <3>1. ctrl \in Seq(1..spawns) /\ spawns \in Nat /\ cluster.lsp \in Nat /\ cluster.lsp <= spawns
      BY <1>0 DEF Processes, Routed, Cluster
    <3>2. 1..spawns \subseteq 1..spawns + 1
      BY <3>1
    <3> QED  BY <3>1, <3>2, SeqMonotonic
  <2>2. PICK shaken \in BOOLEAN :
          /\ ra' = [inc |-> spawns + 1, alive |-> shaken, text |-> None]
          /\ ctrl' = IF shaken THEN Append(ctrl, spawns + 1) ELSE ctrl
    BY <1>2 DEF RaRespawns
  <2>3. ra' \in Analyzer /\ ra'.inc = spawns + 1
    BY <2>1, <2>2 DEF Analyzer
  <2>4. ctrl' \in Seq(1..spawns + 1)
    BY <2>1, <2>2, AppendProperties
  <2>5. Processes'
    BY <1>0, <1>2, <2>1, <2>3, <2>4 DEF RaRespawns, Processes, loopVars
  <2>6. Routed' /\ Told' /\ Looped' /\ Witnesses'
    BY <1>0, <1>2, <2>3 DEF RaRespawns, Routed, Told, Looped, Witnesses, apiVars, loopVars, witnessVars
  <2> QED  BY <2>5, <2>6, TypePartsAfter
<1>3. ASSUME RaNotifies  PROVE TypeOK'
  <2>1. PICK k \in {"diagnostics", "ended", "failed", "indexed"} :
          events' = Append(events, Native(k))
    BY <1>3 DEF RaNotifies
  <2>2. Native(k) \in LspEvent
    <3>1. (k = "failed") \in BOOLEAN
      OBVIOUS
    <3> QED  BY <3>1 DEF Native, LspEvent
  <2>3. events' \in Seq(LspEvent)
    BY <1>0, <2>1, <2>2, AppendProperties DEF Processes
  <2>4. budget' \in [natives : Nat, stalls : Nat, idles : Nat]
    <3>1. /\ budget \in [natives : Nat, stalls : Nat, idles : Nat] /\ budget.natives > 0
          /\ budget' = [budget EXCEPT !.natives = budget.natives - 1]
      BY <1>0, <1>3 DEF RaNotifies, Routed
    <3>2. budget.natives - 1 \in Nat
      BY <3>1
    <3> QED  BY <3>1, <3>2
  <2>5. Routed' /\ Told' /\ Looped' /\ Witnesses' /\ Processes'
    BY <1>0, <1>3, <2>3, <2>4
       DEF RaNotifies, Routed, Told, Looped, Witnesses, Processes, apiVars, loopVars, witnessVars
  <2> QED  BY <2>5, TypePartsAfter
<1>4. ASSUME RaDies  PROVE TypeOK'
  <2>1. ra' \in Analyzer /\ ra'.inc = ra.inc
    BY <1>0, <1>4 DEF RaDies, Analyzer, Routed
  <2>2. Routed' /\ Told' /\ Looped' /\ Witnesses' /\ Processes'
    BY <1>0, <1>4, <2>1
       DEF RaDies, Routed, Told, Looped, Witnesses, Processes, apiVars, loopVars, witnessVars
  <2> QED  BY <2>2, TypePartsAfter
<1>5. ASSUME RequestQuiesce  PROVE TypeOK'
  <2>1. Routed' /\ Told' /\ Looped' /\ Witnesses' /\ Processes'
    BY <1>0, <1>5
       DEF RequestQuiesce, Routed, Told, Looped, Witnesses, Processes, loopVars, raVars, witnessVars
  <2> QED  BY <2>1, TypePartsAfter
<1>6. ASSUME ExitDrained \/ KeysDone \/ RoundEnds  PROVE TypeOK'
  <2>1. /\ UNCHANGED <<apiVars, keys, members, driver, cluster, abandoned, raVars, witnessVars>>
        /\ phase' \in {"top", "lsp", "exited"}
    BY <1>6 DEF ExitDrained, KeysDone, RoundEnds
  <2>2. Routed' /\ Told' /\ Looped' /\ Witnesses' /\ Processes'
    BY <1>0, <2>1 DEF Routed, Told, Looped, Witnesses, Processes, apiVars, raVars, witnessVars
  <2> QED  BY <2>2, TypePartsAfter
<1>7. ASSUME NEW q \in pulls, Pull(q)  PROVE TypeOK'
  <2>0. q \in PullOf /\ q.gen \in Nat
    BY <1>0 DEF Routed, PullOf
  <2>1. events' \in Seq(LspEvent)
    <3>1. CASE PullReports(q)
      <4>1. (ra.text \in Broken) \in BOOLEAN
        OBVIOUS
      <4> DEFINE b == ra.text \in Broken
      <4>2. b \in BOOLEAN /\ events' = events \o Report(q, b)
        BY <3>1, <4>1 DEF PullReports
      <4> HIDE DEF b
      <4>3. Report(q, b) \in Seq(LspEvent)
        BY <2>0, <4>2 DEF Report, LspEvent
      <4> QED  BY <1>0, <4>2, <4>3, ConcatProperties DEF Processes
    <3>2. CASE PullFails(q)
      <4>1. [gen |-> q.gen, kind |-> "failed", err |-> TRUE] \in LspEvent
        BY <2>0 DEF LspEvent
      <4> QED  BY <1>0, <3>2, <4>1, AppendProperties DEF PullFails, Processes
    <3> QED  BY <1>7, <3>1, <3>2 DEF Pull
  <2>2. /\ UNCHANGED <<apiVars, loopVars, ra, spawns, ctrl, stalled, budget, witnessVars>>
        /\ pulls' = pulls \ {q}
    BY <1>7 DEF Pull, PullReports, PullFails
  <2>3. Routed' /\ Told' /\ Looped' /\ Witnesses' /\ Processes'
    BY <1>0, <2>1, <2>2
       DEF Routed, Told, Looped, Witnesses, Processes, apiVars, loopVars, witnessVars
  <2> QED  BY <2>3, TypePartsAfter
<1>8. ASSUME NEW w \in Worktrees, Deactivate(w)  PROVE TypeOK'
  <2>1. budget' \in [natives : Nat, stalls : Nat, idles : Nat]
    <3>1. /\ budget \in [natives : Nat, stalls : Nat, idles : Nat] /\ budget.idles > 0
          /\ budget' = [budget EXCEPT !.idles = budget.idles - 1]
      BY <1>0, <1>8 DEF Deactivate, Routed
    <3>2. budget.idles - 1 \in Nat
      BY <3>1
    <3> QED  BY <3>1, <3>2
  <2>2. /\ driver' \in Driver /\ IsInjective(driver'.pending)
        /\ cluster' \in Cluster /\ IsInjective(cluster'.deferred)
        /\ cluster'.fence < cluster'.nextGen /\ cluster'.lsp <= spawns
        /\ ra' \in Analyzer /\ ra'.inc = ra.inc /\ abandoned' \subseteq Pushes
    <3>1. CASE members = {w}
      <4>1. /\ driver' = FreshDriver /\ cluster' = FreshCluster
            /\ ra' = [ra EXCEPT !.alive = FALSE] /\ abandoned' = abandoned \cup Stranded
        BY <1>8, <3>1 DEF Deactivate
      <4>2. ra' \in Analyzer /\ ra'.inc = ra.inc
        BY <1>0, <4>1 DEF Analyzer, Routed
      <4>3. spawns \in Nat /\ 0 <= spawns /\ 0 < 1
        BY <1>0 DEF Processes
      <4> QED  BY <1>0, <4>1, <4>2, <4>3, FreshTypes, StrandedTypes DEF Looped
    <3>2. CASE members # {w}
      <4> DEFINE q == RemoveFirst(driver.pending, w)
                 b == driver.recheck /\ driver.current.wt # w
      <4>1. /\ driver' = [driver EXCEPT !.pending = q, !.recheck = b]
            /\ UNCHANGED <<cluster, ra, abandoned>>
        BY <1>8, <3>2 DEF Deactivate
      <4>2. q \in Seq(Worktrees) /\ IsInjective(q)
        BY <1>0, PruneUnique DEF Routed, Driver
      <4>3. b \in BOOLEAN
        BY <1>0 DEF Routed, Driver
      <4> HIDE DEF q, b
      <4>4. driver' \in Driver /\ driver'.pending = q
        BY <1>0, <4>1, <4>2, <4>3 DEF Routed, Driver
      <4> QED  BY <1>0, <4>1, <4>2, <4>4 DEF Routed, Looped, Processes
    <3> QED  BY <3>1, <3>2
  <2>3. Routed' /\ Told' /\ Looped' /\ Witnesses' /\ Processes'
    BY <1>0, <1>8, <2>1, <2>2
       DEF Deactivate, Routed, Told, Looped, Witnesses, Processes, apiVars, witnessVars
  <2> QED  BY <2>3, TypePartsAfter
<1> QED  BY <1>1, <1>2, <1>3, <1>4, <1>5, <1>6, <1>7, <1>8

\* Every step keeps the types.
LEMMA TypeStep ==
  ASSUME TypeOK, Counted, Next
  PROVE  TypeOK'
BY ClientTypes, WitnessTypes, RoundTypes, PushKeyTypes, EventTypes, OtherTypes
   DEF Next, LoopStep, Environment

-----------------------------------------------------------------------------
(* The compile gate.                                                       *)

LEMMA CountedSame ==
  ASSUME Counted, slots' = slots,
         \A p \in Pushes : worker'[p] \in {"running", "sent"} <=> worker[p] \in {"running", "sent"}
  PROVE  Counted'
<1>1. Compiling' = Compiling
  BY DEF Compiling
<1> QED  BY <1>1 DEF Counted

LEMMA CountedStep ==
  ASSUME Counted, TypeOK, NEW p \in Pushes, Acquire(p) \/ WorkerEnds(p)
  PROVE  Counted'
<1>0. /\ worker \in [Pushes -> {"none", "waiting", "running", "sent", "ended"}]
      /\ slots \in Nat /\ WitnessLimit \in Nat /\ IsFiniteSet(Compiling)
      /\ Cardinality(Compiling) \in Nat
  BY Constants, FS_CardinalityType DEF TypeOK, Counted
<1>1. CASE Acquire(p)
  <2>1. Compiling' = Compiling \cup {p} /\ p \notin Compiling
    BY <1>0, <1>1 DEF Acquire, Compiling
  <2>2. IsFiniteSet(Compiling') /\ Cardinality(Compiling') = Cardinality(Compiling) + 1
    BY <1>0, <2>1, FS_AddElement
  <2>3. CASE WitnessLimit = 0
    BY <1>1, <2>2, <2>3 DEF Counted, Acquire
  <2>4. CASE WitnessLimit # 0
    <3>1. slots = Cardinality(Compiling) /\ slots < WitnessLimit /\ slots' = slots + 1
      BY <1>0, <1>1, <2>4 DEF Counted, Acquire
    <3>2. slots' <= WitnessLimit
      BY <1>0, <3>1
    <3> QED  BY <2>2, <2>4, <3>1, <3>2 DEF Counted
  <2> QED  BY <2>3, <2>4
<1>2. CASE WorkerEnds(p)
  <2>1. Compiling' = Compiling \ {p} /\ p \in Compiling
    BY <1>0, <1>2 DEF WorkerEnds, Compiling
  <2>2. IsFiniteSet(Compiling') /\ Cardinality(Compiling') = Cardinality(Compiling) - 1
    BY <1>0, <2>1, FS_RemoveElement
  <2>3. CASE WitnessLimit = 0
    BY <1>2, <2>2, <2>3 DEF Counted, WorkerEnds
  <2>4. CASE WitnessLimit # 0
    <3>1. slots = Cardinality(Compiling) /\ slots <= WitnessLimit /\ slots' = slots - 1
      BY <1>0, <1>2, <2>4 DEF Counted, WorkerEnds
    <3>2. slots' <= WitnessLimit
      BY <1>0, <3>1
    <3> QED  BY <2>2, <2>4, <3>1, <3>2 DEF Counted
  <2> QED  BY <2>3, <2>4
<1> QED  BY <1>1, <1>2

-----------------------------------------------------------------------------
(* The queue of a worktree.                                                *)

LEMMA OrderKept ==
  ASSUME NEW st, NEW st2, NEW q \in Seq(Pushes), NEW a \in Pushes \cup {None}, NEW w,
         InOrder(st, q, a, w), \A x \in Pushes : Stored(st, x) => Stored(st2, x)
  PROVE  InOrder(st2, q, a, w)
<1>1. \A i \in DOMAIN q : q[i] \in Pushes
  BY Positions
<1> QED  BY <1>1 DEF InOrder

\* The head is consumed, and what was consumed before is forgotten.
LEMMA OrderTail ==
  ASSUME NEW st, NEW q \in Seq(Pushes), NEW a \in Pushes \cup {None}, NEW w,
         InOrder(st, q, a, w)
  PROVE  /\ InOrder(st, q, None, w)
         /\ q # <<>> => /\ InOrder(st, Tail(q), Head(q), w) /\ Head(q) \in Pushes
                        /\ InOrder(st, Tail(q), a, w)
                        /\ WtOf[Head(q)] = w /\ Stored(st, Head(q)) /\ Head(q) # a
                        /\ \E i \in DOMAIN q : q[i] = Head(q)
                        /\ \A x : (\E i \in DOMAIN q : q[i] = x) <=>
                                    x = Head(q) \/ \E i \in DOMAIN Tail(q) : Tail(q)[i] = x
                        /\ ~\E i \in DOMAIN Tail(q) : Tail(q)[i] = Head(q)
<1>1. \A i \in DOMAIN q : q[i] \in Pushes /\ q[i] # None
  BY Positions, Constants
<1>2. InOrder(st, q, None, w)
  BY <1>1 DEF InOrder
<1>3. ASSUME q # <<>>
      PROVE  /\ InOrder(st, Tail(q), Head(q), w) /\ Head(q) \in Pushes
             /\ InOrder(st, Tail(q), a, w)
             /\ WtOf[Head(q)] = w /\ Stored(st, Head(q)) /\ Head(q) # a
             /\ \E i \in DOMAIN q : q[i] = Head(q)
             /\ \A x : (\E i \in DOMAIN q : q[i] = x) <=>
                          x = Head(q) \/ \E i \in DOMAIN Tail(q) : Tail(q)[i] = x
             /\ ~\E i \in DOMAIN Tail(q) : Tail(q)[i] = Head(q)
  <2> DEFINE r == Tail(q)
             h == Head(q)
  <2>1. /\ h = q[1] /\ 1 \in DOMAIN q
        /\ \A k \in DOMAIN r : k \in Nat /\ k + 1 \in DOMAIN q /\ r[k] = q[k + 1]
        /\ \A k \in DOMAIN q : k # 1 => k - 1 \in DOMAIN r /\ r[k - 1] = q[k]
        /\ r \in Seq(Pushes)
    BY <1>3, TailPositions
  <2>2. \A k \in DOMAIN r : k >= 1 /\ k + 1 # 1
    BY <2>1, Positions
  <2> HIDE DEF r, h
  <2>3. \A k \in DOMAIN r : r[k] # h
    BY <2>1, <2>2 DEF InOrder
  <2>4. \A i, j \in DOMAIN r : r[i] = r[j] => i = j
    BY <2>1 DEF InOrder
  <2>5. /\ InOrder(st, r, h, w) /\ InOrder(st, r, a, w) /\ h \in Pushes
        /\ WtOf[h] = w /\ Stored(st, h) /\ h # a
    BY <1>1, <2>1, <2>3, <2>4 DEF InOrder
  <2>6. \A x : (\E i \in DOMAIN q : q[i] = x) <=> x = h \/ \E i \in DOMAIN r : r[i] = x
    BY <2>1
  <2> QED  BY <2>1, <2>3, <2>5, <2>6 DEF r, h
<1> QED  BY <1>2, <1>3

LEMMA OrderAppend ==
  ASSUME NEW st, NEW st2, NEW q \in Seq(Pushes), NEW a \in Pushes \cup {None}, NEW w,
         NEW p \in Pushes, InOrder(st, q, a, w), \A x \in Pushes : Stored(st, x) => Stored(st2, x),
         WtOf[p] = w, ~Stored(st, p), Stored(st2, p)
  PROVE  /\ InOrder(st2, Append(q, p), a, w)
         /\ \A x : (\E i \in DOMAIN Append(q, p) : Append(q, p)[i] = x) <=>
                      x = p \/ \E i \in DOMAIN q : q[i] = x
<1> DEFINE r == Append(q, p)
           n == Len(q) + 1
<1>1. /\ n \in DOMAIN r /\ r[n] = p
      /\ \A k \in DOMAIN q : k \in DOMAIN r /\ r[k] = q[k] /\ q[k] \in Pushes
      /\ \A k \in DOMAIN r : k \in DOMAIN q \/ k = n
  BY AppendPositions, Positions
<1> HIDE DEF r, n
<1>2. \A k \in DOMAIN q : q[k] # p /\ Stored(st2, q[k])
  BY <1>1 DEF InOrder
<1>3. a # p
  BY Constants DEF InOrder
<1>4. \A k \in DOMAIN r : WtOf[r[k]] = w /\ Stored(st2, r[k]) /\ r[k] # a
  BY <1>1, <1>2, <1>3 DEF InOrder
<1>5. \A i, j \in DOMAIN r : r[i] = r[j] => i = j
  BY <1>1, <1>2 DEF InOrder
<1>6. InOrder(st2, r, a, w)
  BY <1>4, <1>5 DEF InOrder
<1>7. \A x : (\E i \in DOMAIN r : r[i] = x) <=> x = p \/ \E i \in DOMAIN q : q[i] = x
  BY <1>1
<1> QED  BY <1>6, <1>7 DEF r

LEMMA OrderReplace ==
  ASSUME NEW st, NEW st2, NEW q \in Seq(Pushes), NEW a \in Pushes \cup {None}, NEW w,
         NEW p \in Pushes, InOrder(st, q, a, w), \A x \in Pushes : Stored(st, x) => Stored(st2, x),
         WtOf[p] = w, ~Stored(st, p), Stored(st2, p), NEW n \in DOMAIN q
  PROVE  LET r == [q EXCEPT ![n] = p]
         IN  /\ InOrder(st2, r, a, w) /\ q[n] \in Pushes
             /\ \A x : (\E i \in DOMAIN r : r[i] = x) => x = p \/ \E i \in DOMAIN q : q[i] = x
             /\ \A x : (\E i \in DOMAIN q : q[i] = x) => x = q[n] \/ \E i \in DOMAIN r : r[i] = x
             /\ \E i \in DOMAIN r : r[i] = p
<1> DEFINE r == [q EXCEPT ![n] = p]
<1>0. \A k \in DOMAIN q : q[k] \in Pushes
  BY Positions
<1>1. /\ DOMAIN r = DOMAIN q /\ r[n] = p
      /\ \A k \in DOMAIN q : k # n => r[k] = q[k]
  OBVIOUS
<1> HIDE DEF r
<1>2. \A k \in DOMAIN q : q[k] # p /\ Stored(st2, q[k])
  BY <1>0 DEF InOrder
<1>3. a # p
  BY Constants DEF InOrder
<1>4. \A k \in DOMAIN r : WtOf[r[k]] = w /\ Stored(st2, r[k]) /\ r[k] # a
  BY <1>1, <1>2, <1>3 DEF InOrder
<1>5. \A i, j \in DOMAIN r : r[i] = r[j] => i = j
  BY <1>1, <1>2 DEF InOrder
<1>6. InOrder(st2, r, a, w)
  BY <1>4, <1>5 DEF InOrder
<1> QED  BY <1>0, <1>1, <1>6 DEF r

-----------------------------------------------------------------------------
(* What the steps do to the places of the pushes.                          *)

Queues == [Worktrees -> Seq(Pushes)]
Attributions == [Worktrees -> Pushes \cup {None}]

\* The queues stay, the client or the dispatcher moves a push that is not in
\* one.
LEMMA PlacedElsewhere ==
  ASSUME NEW st, NEW st2, NEW pu \in Queues, NEW at \in Attributions, NEW gq, NEW gq2,
         NEW ans, NEW wk, NEW wa, Placed(st, pu, at, gq, ans, wk, wa),
         \A x \in Pushes : Stored(st, x) => Stored(st2, x),
         \A x \in Pushes : Untouched(st2, pu, at, gq2, x) => Untouched(st, pu, at, gq, x)
  PROVE  Placed(st2, pu, at, gq2, ans, wk, wa)
<1>1. ASSUME NEW w \in Worktrees  PROVE InOrder(st2, pu[w], at[w], w)
  <2>1. pu[w] \in Seq(Pushes) /\ at[w] \in Pushes \cup {None} /\ InOrder(st, pu[w], at[w], w)
    BY DEF Queues, Attributions, Placed
  <2> QED  BY <2>1, OrderKept
<1>2. \A p \in Pushes : Unanswered(st2, pu, at, gq2, ans, wk, wa, p)
  BY DEF Placed, Unanswered
<1> QED  BY <1>1, <1>2 DEF Placed

\* Answers and witnesses change only of a push that is no longer untouched.
LEMMA PlacedTouched ==
  ASSUME NEW st, NEW pu \in Queues, NEW at \in Attributions, NEW at2 \in Attributions,
         NEW gq, NEW gq2, NEW ans, NEW ans2, NEW wk, NEW wk2, NEW wa, NEW wa2,
         Placed(st, pu, at, gq, ans, wk, wa),
         \A w \in Worktrees : at2[w] \in {at[w], None},
         \A x \in Pushes : Sent(gq2, x) => Sent(gq, x),
         \A x \in Pushes :
           \/ ans2[x] = ans[x] /\ wk2[x] = wk[x] /\ wa2[x].at = wa[x].at
           \/ /\ ~Untouched(st, pu, at2, gq2, x)
              /\ Len(ans2[x]) <= 1
              /\ wa2[x].at \in {"watching", "publishing", "dropped"} => ans2[x] = <<>>
  PROVE  Placed(st, pu, at2, gq2, ans2, wk2, wa2)
<1>1. ASSUME NEW w \in Worktrees  PROVE InOrder(st, pu[w], at2[w], w)
  <2>1. pu[w] \in Seq(Pushes) /\ at[w] \in Pushes \cup {None} /\ InOrder(st, pu[w], at[w], w)
    BY DEF Queues, Attributions, Placed
  <2>2. InOrder(st, pu[w], None, w)
    BY <2>1, OrderTail
  <2>3. CASE at2[w] = at[w]
    BY <2>1, <2>3
  <2>4. CASE at2[w] = None
    BY <2>2, <2>4
  <2> QED  BY <2>3, <2>4
<1>2. ASSUME NEW x \in Pushes  PROVE Unanswered(st, pu, at2, gq2, ans2, wk2, wa2, x)
  <2>1. Unanswered(st, pu, at, gq, ans, wk, wa, x) /\ WtOf[x] \in Worktrees /\ x # None
    BY Constants DEF Placed
  <2>2. Untouched(st, pu, at2, gq2, x) => Untouched(st, pu, at, gq, x)
    BY <2>1 DEF Untouched
  <2> QED  BY <2>1, <2>2 DEF Unanswered
<1> QED  BY <1>1, <1>2 DEF Placed

\* A worktree's queue is popped into its attribution.
Popped(pu, w) == [pu EXCEPT ![w] = IF @ = <<>> THEN @ ELSE Tail(@)]
HeadOf(pu, w) == IF pu[w] = <<>> THEN None ELSE Head(pu[w])

LEMMA PoppedIs ==
  ASSUME NEW pu \in Queues, NEW w \in Worktrees, NEW st, NEW at \in Attributions,
         InOrder(st, pu[w], at[w], w)
  PROVE  /\ Popped(pu, w) \in Queues
         /\ \A v \in Worktrees : v # w => Popped(pu, w)[v] = pu[v]
         /\ HeadOf(pu, w) \in Pushes \cup {None}
         /\ HeadOf(pu, w) = None <=> pu[w] = <<>>
         /\ InOrder(st, Popped(pu, w)[w], HeadOf(pu, w), w)
         /\ InOrder(st, Popped(pu, w)[w], at[w], w)
         /\ HeadOf(pu, w) # None => /\ WtOf[HeadOf(pu, w)] = w /\ Stored(st, HeadOf(pu, w))
                                    /\ Holds(pu, HeadOf(pu, w)) /\ HeadOf(pu, w) # at[w]
                                    /\ ~Holds(Popped(pu, w), HeadOf(pu, w))
         /\ \A p \in Pushes : Holds(pu, p) <=> Holds(Popped(pu, w), p) \/ p = HeadOf(pu, w)
<1>1. pu[w] \in Seq(Pushes) /\ at[w] \in Pushes \cup {None}
  BY DEF Queues, Attributions
<1>2. /\ \A v \in Worktrees : v # w => Popped(pu, w)[v] = pu[v]
      /\ Popped(pu, w)[w] = IF pu[w] = <<>> THEN pu[w] ELSE Tail(pu[w])
  BY DEF Popped, Queues
<1>3. CASE pu[w] = <<>>
  <2>1. Popped(pu, w) = pu /\ HeadOf(pu, w) = None
    BY <1>3 DEF Popped, HeadOf, Queues
  <2>2. InOrder(st, pu[w], None, w)
    BY <1>1, OrderTail
  <2>3. \A p \in Pushes : p # None
    BY Constants
  <2> QED  BY <1>3, <2>1, <2>2, <2>3
<1>4. CASE pu[w] # <<>>
  <2> DEFINE h == HeadOf(pu, w)
             q == Popped(pu, w)
  <2>1. /\ InOrder(st, Tail(pu[w]), Head(pu[w]), w) /\ Head(pu[w]) \in Pushes
        /\ InOrder(st, Tail(pu[w]), at[w], w)
        /\ WtOf[Head(pu[w])] = w /\ Stored(st, Head(pu[w])) /\ Head(pu[w]) # at[w]
        /\ \E i \in DOMAIN pu[w] : pu[w][i] = Head(pu[w])
        /\ \A x : (\E i \in DOMAIN pu[w] : pu[w][i] = x) <=>
                    x = Head(pu[w]) \/ \E i \in DOMAIN Tail(pu[w]) : Tail(pu[w])[i] = x
        /\ ~\E i \in DOMAIN Tail(pu[w]) : Tail(pu[w])[i] = Head(pu[w])
    BY <1>1, <1>4, OrderTail
  <2>2. h = Head(pu[w]) /\ q[w] = Tail(pu[w]) /\ h # None
    BY <1>2, <1>4, <2>1, Constants DEF HeadOf
  <2>3. q \in Queues
    <3>1. Tail(pu[w]) \in Seq(Pushes)
      BY <1>1, <1>4, TailPositions
    <3> QED  BY <1>4, <3>1 DEF Popped, Queues
  <2> HIDE DEF h, q
  <2>4. Holds(pu, h) /\ ~Holds(q, h)
    BY <2>1, <2>2 DEF Holds
  <2>5. ASSUME NEW p \in Pushes  PROVE Holds(pu, p) <=> Holds(q, p) \/ p = h
    <3>1. CASE WtOf[p] = w
      <4>1. (\E i \in DOMAIN pu[w] : pu[w][i] = p) <=> p = h \/ \E i \in DOMAIN q[w] : q[w][i] = p
        BY <2>1, <2>2
      <4> QED  BY <3>1, <4>1 DEF Holds
    <3>2. CASE WtOf[p] # w
      BY <1>2, <2>1, <2>2, <3>2, Constants DEF Holds, q
    <3> QED  BY <3>1, <3>2
  <2> QED  BY <1>2, <1>4, <2>1, <2>2, <2>3, <2>4, <2>5 DEF h, q
<1> QED  BY <1>3, <1>4

LEMMA PlacedTaken ==
  ASSUME NEW st, NEW pu \in Queues, NEW at \in Attributions, NEW w \in Worktrees,
         NEW gq, NEW ans, NEW wk, NEW wa, Placed(st, pu, at, gq, ans, wk, wa)
  PROVE  Placed(st, Popped(pu, w), [at EXCEPT ![w] = HeadOf(pu, w)], gq, ans, wk, wa)
<1> DEFINE pu2 == Popped(pu, w)
           h == HeadOf(pu, w)
           at2 == [at EXCEPT ![w] = h]
<1>1. InOrder(st, pu[w], at[w], w)
  BY DEF Placed
<1>2. /\ \A v \in Worktrees : v # w => pu2[v] = pu[v]
      /\ InOrder(st, pu2[w], h, w)
      /\ h # None => Holds(pu, h) /\ WtOf[h] = w
      /\ \A p \in Pushes : Holds(pu, p) <=> Holds(pu2, p) \/ p = h
  BY <1>1, PoppedIs
<1>3. at2[w] = h /\ \A v \in Worktrees : v # w => at2[v] = at[v]
  BY DEF Attributions
<1> HIDE DEF pu2, h, at2
<1>4. \A v \in Worktrees : InOrder(st, pu2[v], at2[v], v)
  BY <1>2, <1>3 DEF Placed
<1>5. ASSUME NEW p \in Pushes  PROVE Unanswered(st, pu2, at2, gq, ans, wk, wa, p)
  <2>1. Unanswered(st, pu, at, gq, ans, wk, wa, p) /\ WtOf[p] \in Worktrees /\ p # None
    BY Constants DEF Placed
  <2>2. Untouched(st, pu2, at2, gq, p) => Untouched(st, pu, at, gq, p)
    BY <1>2, <1>3, <2>1 DEF Untouched
  <2> QED  BY <2>1, <2>2 DEF Unanswered
<1> QED  BY <1>4, <1>5 DEF Placed, pu2, h, at2

LEMMA FoundTaken ==
  ASSUME NEW st, NEW pu \in Queues, NEW at \in Attributions, NEW w \in Worktrees,
         NEW gq, NEW ans, NEW su, NEW wa, NEW ab, Found(st, pu, at, gq, ans, su, wa, ab),
         InOrder(st, pu[w], at[w], w), at[w] \in ab \cup {None}
  PROVE  Found(st, Popped(pu, w), [at EXCEPT ![w] = HeadOf(pu, w)], gq, ans, su, wa, ab)
<1> DEFINE pu2 == Popped(pu, w)
           h == HeadOf(pu, w)
           at2 == [at EXCEPT ![w] = h]
<1>1. /\ h # None => WtOf[h] = w
      /\ \A p \in Pushes : Holds(pu, p) <=> Holds(pu2, p) \/ p = h
  BY PoppedIs
<1>2. at2[w] = h /\ \A v \in Worktrees : v # w => at2[v] = at[v]
  BY DEF Attributions
<1> HIDE DEF pu2, h, at2
<1>3. \A p \in Pushes : p # None /\ WtOf[p] \in Worktrees
  BY Constants
<1>4. \A p \in Pushes : Holds(pu, p) \/ at[WtOf[p]] = p =>
                          Holds(pu2, p) \/ at2[WtOf[p]] = p \/ p \in ab
  BY <1>1, <1>2, <1>3
<1> QED  BY <1>4 DEF Found, pu2, h, at2

LEMMA SafeAfter ==
  ASSUME Placed(stage', pushed', attribution', gateQ', answers', worker', watcher'),
         Dispatching(stage', gateQ'), Counted', Claimed(claims', superseded', watcher', answers'),
         Found(stage', pushed', attribution', gateQ', answers', superseded', watcher', abandoned'),
         InFlight', Lifecycle'
  PROVE  Safe'
BY DEF Safe

LEMMA PlaceTypes ==
  ASSUME TypeOK
  PROVE  /\ pushed \in Queues /\ attribution \in Attributions
         /\ gateQ \in Seq(Gates) /\ \A k \in DOMAIN gateQ : gateQ[k] \in Gates /\ gateQ[k] \in Pushes
         /\ \A w \in Worktrees : pushed[w] \in Seq(Pushes) /\ attribution[w] \in Pushes \cup {None}
         /\ \A p \in Pushes : WtOf[p] \in Worktrees /\ p # None
BY Constants, Positions DEF TypeOK, Queues, Attributions

\* What a client does leaves the rest of the daemon alone.
LEMMA ClientElsewhere ==
  ASSUME Safe, NEW p \in Pushes, Client(p)
  PROVE  /\ Counted' /\ InFlight' /\ Lifecycle' /\ attribution' = attribution
         /\ answers' = answers /\ worker' = worker /\ watcher' = watcher
         /\ claims' = claims /\ abandoned' = abandoned
<1>1. /\ attribution' = attribution /\ answers' = answers /\ worker' = worker
      /\ watcher' = watcher /\ claims' = claims /\ abandoned' = abandoned
      /\ slots' = slots /\ driver' = driver /\ cluster' = cluster /\ members' = members
      /\ ctrl' = ctrl
  BY DEF Client, Admit, Replace, Enqueue, Signal, SendGate, loopVars, raVars, witnessVars
<1>2. Counted'
  BY <1>1, CountedSame DEF Safe
<1>3. InFlight' /\ Lifecycle'
  BY <1>1 DEF InFlight, Tracked, Lifecycle, Safe
<1> QED  BY <1>1, <1>2, <1>3

\* A thread that stores nothing: refused, admitted, at the cap, or waking the loop.
LEMMA StageSafe ==
  ASSUME TypeOK, Safe, NEW p \in Pushes, Client(p),
         pushed' = pushed, gateQ' = gateQ, superseded' = superseded,
         \A q \in Pushes \ {p} : stage'[q] = stage[q],
         \/ stage[p] \in {"new", "admitted"} /\ stage'[p] \in {"admitted", "rejected"}
         \/ stage[p] = "stored" /\ stage'[p] = "accepted"
  PROVE  Safe'
<1>1. /\ attribution' = attribution /\ answers' = answers /\ worker' = worker
      /\ watcher' = watcher /\ claims' = claims /\ abandoned' = abandoned
      /\ Counted' /\ InFlight' /\ Lifecycle'
  BY ClientElsewhere
<1>2. \A q \in Pushes : stage'[q] \in {"stored", "accepted"} <=> stage[q] \in {"stored", "accepted"}
  OBVIOUS
<1>3. \A q \in Pushes : /\ Stored(stage, q) => Stored(stage', q)
                        /\ Untouched(stage', pushed, attribution, gateQ, q)
                             => Untouched(stage, pushed, attribution, gateQ, q)
  BY DEF Stored, Untouched
<1>4. pushed \in Queues /\ attribution \in Attributions
  BY PlaceTypes
<1>5. Placed(stage', pushed', attribution', gateQ', answers', worker', watcher')
  BY <1>1, <1>3, <1>4, PlacedElsewhere DEF Safe
<1>6. Dispatching(stage', gateQ')
  BY PlaceTypes DEF Dispatching, Safe
<1>7. Found(stage', pushed', attribution', gateQ', answers', superseded', watcher', abandoned')
  BY <1>1, <1>2 DEF Found, Safe
<1>8. Claimed(claims', superseded', watcher', answers')
  BY <1>1 DEF Safe
<1> QED  BY <1>1, <1>5, <1>6, <1>7, <1>8, SafeAfter

LEMMA SendGateSafe ==
  ASSUME TypeOK, Safe, NEW p \in Pushes, SendGate(p)
  PROVE  Safe'
<1>1. /\ pushed' = pushed /\ superseded' = superseded /\ gateQ' = Append(gateQ, p)
      /\ stage[p] = "admitted" /\ p \in Gates
      /\ \A q \in Pushes \ {p} : stage'[q] = stage[q]
      /\ stage'[p] = "accepted"
  BY DEF SendGate, TypeOK
<1>2. /\ attribution' = attribution /\ answers' = answers /\ worker' = worker
      /\ watcher' = watcher /\ claims' = claims /\ abandoned' = abandoned
      /\ Counted' /\ InFlight' /\ Lifecycle'
  BY ClientElsewhere DEF Client
<1>3. pushed \in Queues /\ attribution \in Attributions /\ gateQ \in Seq(Gates)
  BY PlaceTypes
<1>4. /\ Len(gateQ) + 1 \in DOMAIN gateQ' /\ gateQ'[Len(gateQ) + 1] = p
      /\ \A k \in DOMAIN gateQ : /\ k \in DOMAIN gateQ' /\ gateQ'[k] = gateQ[k]
                                 /\ gateQ[k] \in Pushes /\ gateQ[k] # p
                                 /\ stage'[gateQ[k]] = "accepted"
      /\ \A k \in DOMAIN gateQ' : k \in DOMAIN gateQ \/ k = Len(gateQ) + 1
  <2>1. /\ Len(gateQ) + 1 \in DOMAIN gateQ' /\ gateQ'[Len(gateQ) + 1] = p
        /\ \A k \in DOMAIN gateQ : k \in DOMAIN gateQ' /\ gateQ'[k] = gateQ[k]
        /\ \A k \in DOMAIN gateQ' : k \in DOMAIN gateQ \/ k = Len(gateQ) + 1
    BY <1>1, <1>3, AppendPositions
  <2>2. \A k \in DOMAIN gateQ : gateQ[k] \in Pushes /\ stage[gateQ[k]] = "accepted"
    BY PlaceTypes DEF Dispatching, Safe
  <2> QED  BY <1>1, <2>1, <2>2
<1>5. \A q : Sent(gateQ', q) <=> Sent(gateQ, q) \/ q = p
  BY <1>4 DEF Sent
<1>6. \A q \in Pushes : /\ Stored(stage, q) => Stored(stage', q)
                        /\ Untouched(stage', pushed, attribution, gateQ', q)
                             => Untouched(stage, pushed, attribution, gateQ, q)
  BY <1>1, <1>5 DEF Stored, Untouched
<1>7. Placed(stage', pushed', attribution', gateQ', answers', worker', watcher')
  BY <1>1, <1>2, <1>3, <1>6, PlacedElsewhere DEF Safe
<1>8. Dispatching(stage', gateQ')
  BY <1>1, <1>4 DEF Dispatching, Safe
<1>9. Found(stage', pushed', attribution', gateQ', answers', superseded', watcher', abandoned')
  BY <1>1, <1>2, <1>5 DEF Found, Safe
<1>10. Claimed(claims', superseded', watcher', answers')
  BY <1>1, <1>2 DEF Claimed, Safe
<1> QED  BY <1>2, <1>7, <1>8, <1>9, <1>10, SafeAfter

\* A push enters its queue, at the end or in the place of an earlier one.
LEMMA StoreSafe ==
  ASSUME TypeOK, Safe, NEW p \in Pushes, Client(p), NEW q0 \in Seq(Pushes), NEW old,
         stage[p] = "admitted", p \notin Gates, stage'[p] = "stored",
         \A q \in Pushes \ {p} : stage'[q] = stage[q], gateQ' = gateQ,
         pushed' = [pushed EXCEPT ![WtOf[p]] = q0], superseded' = superseded \cup old,
         InOrder(stage', q0, attribution[WtOf[p]], WtOf[p]),
         \A x : (\E i \in DOMAIN q0 : q0[i] = x) => x = p \/ \E i \in DOMAIN pushed[WtOf[p]] : pushed[WtOf[p]][i] = x,
         \A x : (\E i \in DOMAIN pushed[WtOf[p]] : pushed[WtOf[p]][i] = x) => x \in old \/ \E i \in DOMAIN q0 : q0[i] = x,
         \E i \in DOMAIN q0 : q0[i] = p
  PROVE  Safe'
<1> DEFINE w == WtOf[p]
<1>1. /\ attribution' = attribution /\ answers' = answers /\ worker' = worker
      /\ watcher' = watcher /\ claims' = claims /\ abandoned' = abandoned
      /\ Counted' /\ InFlight' /\ Lifecycle'
  BY ClientElsewhere
<1>2. /\ pushed \in Queues /\ attribution \in Attributions /\ gateQ \in Seq(Gates)
      /\ w \in Worktrees /\ \A q \in Pushes : WtOf[q] \in Worktrees
  BY PlaceTypes
<1>3. pushed' \in Queues /\ pushed'[w] = q0 /\ \A v \in Worktrees : v # w => pushed'[v] = pushed[v]
  BY <1>2 DEF Queues
<1>4. \A q \in Pushes : Stored(stage, q) => Stored(stage', q)
  BY DEF Stored
<1>5. \A q \in Pushes : Holds(pushed', q) => Holds(pushed, q) \/ q = p
  <2> TAKE q \in Pushes
  <2>1. CASE WtOf[q] = w
    BY <1>3, <2>1 DEF Holds
  <2>2. CASE WtOf[q] # w
    BY <1>2, <1>3, <2>2 DEF Holds
  <2> QED  BY <2>1, <2>2
<1>6. \A q \in Pushes : Holds(pushed, q) => Holds(pushed', q) \/ q \in old
  <2> TAKE q \in Pushes
  <2>1. CASE WtOf[q] = w
    BY <1>3, <2>1 DEF Holds
  <2>2. CASE WtOf[q] # w
    BY <1>2, <1>3, <2>2 DEF Holds
  <2> QED  BY <2>1, <2>2
<1>7. Holds(pushed', p)
  BY <1>3 DEF Holds
<1>8. ASSUME NEW v \in Worktrees  PROVE InOrder(stage', pushed'[v], attribution[v], v)
  <2>1. CASE v = w
    BY <1>3, <2>1
  <2>2. CASE v # w
    <3>1. /\ pushed'[v] = pushed[v] /\ pushed[v] \in Seq(Pushes) /\ attribution[v] \in Pushes \cup {None}
          /\ InOrder(stage, pushed[v], attribution[v], v)
      BY <1>3, <2>2, PlaceTypes DEF Placed, Safe
    <3>2. InOrder(stage', pushed[v], attribution[v], v)
      BY <1>4, <3>1, OrderKept
    <3> QED  BY <3>1, <3>2
  <2> QED  BY <2>1, <2>2
<1>9. ASSUME NEW q \in Pushes
      PROVE  Unanswered(stage', pushed', attribution, gateQ, answers, worker, watcher, q)
  <2>1. Unanswered(stage, pushed, attribution, gateQ, answers, worker, watcher, q)
    BY DEF Placed, Safe
  <2>2. Untouched(stage', pushed', attribution, gateQ, q)
          => Untouched(stage, pushed, attribution, gateQ, q)
    BY <1>5 DEF Untouched
  <2> QED  BY <2>1, <2>2 DEF Unanswered
<1>10. Placed(stage', pushed', attribution', gateQ', answers', worker', watcher')
  BY <1>1, <1>8, <1>9 DEF Placed
<1>11. Dispatching(stage', gateQ')
  BY PlaceTypes DEF Dispatching, Safe
<1>12. Found(stage', pushed', attribution', gateQ', answers', superseded', watcher', abandoned')
  BY <1>1, <1>6, <1>7 DEF Found, Safe
<1>13. Claimed(claims', superseded', watcher', answers')
  BY <1>1 DEF Claimed, Safe
<1> QED  BY <1>1, <1>10, <1>11, <1>12, <1>13, SafeAfter

LEMMA ClientSafe ==
  ASSUME TypeOK, Safe, NEW p \in Pushes, Client(p)
  PROVE  Safe'
<1> DEFINE w == WtOf[p]
           q == pushed[w]
<1>0. /\ w \in Worktrees /\ q \in Seq(Pushes) /\ attribution[w] \in Pushes \cup {None}
      /\ InOrder(stage, q, attribution[w], w)
      /\ stage \in [Pushes -> {"new", "admitted", "stored", "accepted", "rejected"}]
      /\ pushed \in [Worktrees -> Seq(Pushes)]
  BY PlaceTypes DEF Placed, Safe, TypeOK
<1>1. CASE Admit(p) \/ Signal(p)
  BY <1>0, <1>1, StageSafe DEF Admit, Signal, Client, witnessVars
<1>2. CASE SendGate(p)
  BY <1>2, SendGateSafe
<1>3. CASE Enqueue(p) /\ Len(pushed[w]) >= QueueCap
  BY <1>0, <1>3, StageSafe DEF Enqueue, Client, witnessVars
<1>4. CASE Enqueue(p) /\ ~(Len(pushed[w]) >= QueueCap)
  <2>1. /\ stage[p] = "admitted" /\ p \notin Gates /\ stage'[p] = "stored"
        /\ \A x \in Pushes \ {p} : stage'[x] = stage[x]
        /\ gateQ' = gateQ /\ pushed' = [pushed EXCEPT ![w] = Append(q, p)]
        /\ superseded' = superseded \cup {}
    BY <1>0, <1>4 DEF Enqueue, witnessVars
  <2>2. ~Stored(stage, p) /\ Stored(stage', p) /\ \A x \in Pushes : Stored(stage, x) => Stored(stage', x)
    BY <2>1 DEF Stored
  <2>3. /\ InOrder(stage', Append(q, p), attribution[w], w)
        /\ \A x : (\E i \in DOMAIN Append(q, p) : Append(q, p)[i] = x) <=>
                     x = p \/ \E i \in DOMAIN q : q[i] = x
    <3> DEFINE st2 == stage'
               a == attribution[w]
    <3>1. /\ WtOf[p] = w /\ p \in Pushes /\ InOrder(stage, q, a, w) /\ a \in Pushes \cup {None}
          /\ q \in Seq(Pushes)
          /\ ~Stored(stage, p) /\ Stored(st2, p) /\ \A x \in Pushes : Stored(stage, x) => Stored(st2, x)
      BY <1>0, <2>2
    <3> HIDE DEF w, q, st2, a
    <3>2. /\ InOrder(st2, Append(q, p), a, w)
          /\ \A x : (\E i \in DOMAIN Append(q, p) : Append(q, p)[i] = x) <=>
                       x = p \/ \E i \in DOMAIN q : q[i] = x
      BY <3>1, OrderAppend, ZenonT(60)
    <3> QED  BY <3>2 DEF st2, a
  <2>4. Append(q, p) \in Seq(Pushes) /\ Client(p)
    BY <1>0, <1>4, AppendProperties DEF Client
  <2> DEFINE r == Append(q, p)
  <2>5. r \in Seq(Pushes) /\ pushed' = [pushed EXCEPT ![w] = r] /\ InOrder(stage', r, attribution[w], w)
        /\ (\A x : (\E i \in DOMAIN r : r[i] = x) => x = p \/ \E i \in DOMAIN q : q[i] = x)
        /\ (\A x : (\E i \in DOMAIN q : q[i] = x) => x \in {} \/ \E i \in DOMAIN r : r[i] = x)
        /\ (\E i \in DOMAIN r : r[i] = p)
    BY <2>1, <2>3, <2>4
  <2> HIDE DEF r
  <2> QED  BY <2>1, <2>4, <2>5, StoreSafe
<1>5. CASE Replace(p)
  <2>1. PICK n \in SameCommit(p) :
               /\ pushed' = [pushed EXCEPT ![w][n] = p]
               /\ superseded' = superseded \cup {q[n]}
    BY <1>5 DEF Replace
  <2> DEFINE r == [q EXCEPT ![n] = p]
             old == {q[n]}
  <2>2. n \in DOMAIN q /\ n \in 1..Len(q)
    BY <1>0, Positions DEF SameCommit
  <2>3. /\ stage[p] = "admitted" /\ p \notin Gates /\ stage'[p] = "stored"
        /\ \A x \in Pushes \ {p} : stage'[x] = stage[x]
        /\ gateQ' = gateQ /\ pushed' = [pushed EXCEPT ![w] = r]
        /\ superseded' = superseded \cup old
    BY <1>0, <1>5, <2>1 DEF Replace, witnessVars
  <2>4. ~Stored(stage, p) /\ Stored(stage', p) /\ \A x \in Pushes : Stored(stage, x) => Stored(stage', x)
    BY <2>3 DEF Stored
  <2>5. /\ InOrder(stage', r, attribution[w], w)
        /\ \A x : (\E i \in DOMAIN r : r[i] = x) => x = p \/ \E i \in DOMAIN q : q[i] = x
        /\ \A x : (\E i \in DOMAIN q : q[i] = x) => x = q[n] \/ \E i \in DOMAIN r : r[i] = x
        /\ \E i \in DOMAIN r : r[i] = p
    BY <1>0, <2>2, <2>4, OrderReplace
  <2>6. r \in Seq(Pushes) /\ Client(p)
    BY <1>0, <1>5, <2>2, ExceptSeq DEF Client
  <2>7. \A x : (\E i \in DOMAIN q : q[i] = x) => x \in old \/ \E i \in DOMAIN r : r[i] = x
    BY <2>5
  <2> HIDE DEF r, old
  <2> QED  BY <2>3, <2>5, <2>6, <2>7, StoreSafe
<1> QED  BY <1>1, <1>2, <1>3, <1>4, <1>5 DEF Client

-----------------------------------------------------------------------------
(* Witnesses.                                                              *)

\* The new claimant of a key supersedes the old one.
LEMMA BeginEffect ==
  ASSUME TypeOK, Claimed(claims, superseded, watcher, answers), NEW p \in Pushes, NEW err,
         Begin(p, err)
  PROVE  /\ \A q \in Pushes \ {p} : worker'[q] = worker[q] /\ watcher'[q] = watcher[q]
         /\ worker'[p] = "waiting" /\ watcher'[p].at = "watching" /\ watcher'[p].got = "nothing"
         /\ superseded \subseteq superseded'
         /\ Claimed(claims', superseded', watcher', answers)
<1>1. /\ worker \in [Pushes -> {"none", "waiting", "running", "sent", "ended"}]
      /\ watcher \in [Pushes -> Watch] /\ None \notin Pushes
      /\ claims \in [{Key(q) : q \in Pushes} -> Pushes \cup {None}]
  BY Constants DEF TypeOK
<1>2. /\ \A q \in Pushes \ {p} : worker'[q] = worker[q] /\ watcher'[q] = watcher[q]
      /\ worker'[p] = "waiting" /\ watcher'[p].at = "watching" /\ watcher'[p].got = "nothing"
      /\ superseded' = superseded \cup ({claims[Key(p)]} \ {None})
  BY <1>1 DEF Begin
<1>3. /\ claims'[Key(p)] = p
      /\ \A q \in Pushes : Key(q) # Key(p) => claims'[Key(q)] = claims[Key(q)]
  BY <1>1 DEF Begin
<1>4. ASSUME NEW q \in Pushes, q # p, watcher[q].at = "watching"
      PROVE  claims'[Key(q)] = q \/ q \in superseded'
  <2>1. claims[Key(q)] = q \/ q \in superseded
    BY <1>4 DEF Claimed
  <2>2. CASE Key(q) = Key(p)
    BY <1>1, <1>2, <2>1, <2>2
  <2>3. CASE Key(q) # Key(p)
    BY <1>2, <1>3, <2>1, <2>3
  <2> QED  BY <2>2, <2>3
<1> QED  BY <1>2, <1>3, <1>4 DEF Claimed

LEMMA WitnessElsewhere ==
  ASSUME Safe, NEW p \in Pushes, WitnessStep(p)
  PROVE  /\ InFlight' /\ Lifecycle' /\ attribution' = attribution /\ stage' = stage
         /\ pushed' = pushed /\ gateQ' = gateQ /\ abandoned' = abandoned
         /\ superseded' = superseded /\ Dispatching(stage', gateQ')
<1>1. /\ attribution' = attribution /\ abandoned' = abandoned /\ stage' = stage
      /\ driver' = driver /\ cluster' = cluster /\ members' = members
      /\ ctrl' = ctrl /\ pushed' = pushed /\ gateQ' = gateQ /\ superseded' = superseded
  BY DEF WitnessStep, Acquire, WorkerSends, WorkerEnds, Watcher, WatcherHears, WatchdogFires,
         WatcherPublishes, Settle, apiVars, loopVars, raVars
<1> QED  BY <1>1 DEF InFlight, Tracked, Lifecycle, Safe

LEMMA WatchFields ==
  ASSUME NEW x \in Watch, NEW a, NEW g
  PROVE  /\ [x EXCEPT !.got = g].at = x.at /\ [x EXCEPT !.got = g].got = g
         /\ [x EXCEPT !.at = a].at = a /\ [x EXCEPT !.at = a].got = x.got
         /\ [x EXCEPT !.at = a, !.got = g].at = a /\ [x EXCEPT !.at = a, !.got = g].got = g
BY DEF Watch

\* A worker moves on; what its watcher waits for does not.
LEMMA WorkerSafe ==
  ASSUME TypeOK, Safe, NEW p \in Pushes, Acquire(p) \/ WorkerSends(p) \/ WorkerEnds(p)
  PROVE  Safe'
<1>1. /\ InFlight' /\ Lifecycle' /\ attribution' = attribution /\ stage' = stage
      /\ pushed' = pushed /\ gateQ' = gateQ /\ abandoned' = abandoned
      /\ superseded' = superseded /\ Dispatching(stage', gateQ')
  BY WitnessElsewhere DEF WitnessStep
<1>2. /\ worker \in [Pushes -> {"none", "waiting", "running", "sent", "ended"}]
      /\ watcher \in [Pushes -> Watch] /\ pushed \in Queues /\ attribution \in Attributions
  BY PlaceTypes DEF TypeOK
<1>3. /\ answers' = answers /\ claims' = claims /\ worker[p] # "none"
      /\ \A q \in Pushes \ {p} : worker'[q] = worker[q]
      /\ \A q \in Pushes : watcher'[q].at = watcher[q].at
  <2>1. /\ answers' = answers /\ claims' = claims /\ worker[p] # "none"
        /\ \A q \in Pushes \ {p} : worker'[q] = worker[q]
        /\ watcher' = watcher \/ \E s \in Summaries(p) : watcher' = [watcher EXCEPT ![p].got = s]
    BY <1>2 DEF Acquire, WorkerSends, WorkerEnds, apiVars
  <2>2. ASSUME NEW s, watcher' = [watcher EXCEPT ![p].got = s]
        PROVE  \A q \in Pushes : watcher'[q].at = watcher[q].at
    <3>1. /\ watcher'[p] = [watcher[p] EXCEPT !.got = s] /\ watcher[p] \in Watch
          /\ \A q \in Pushes \ {p} : watcher'[q] = watcher[q]
      BY <1>2, <2>2
    <3>2. watcher'[p].at = watcher[p].at
      BY <3>1, WatchFields
    <3> QED  BY <3>1, <3>2
  <2> QED  BY <2>1, <2>2
<1>4. Counted'
  <2>1. CASE Acquire(p) \/ WorkerEnds(p)
    BY <2>1, CountedStep DEF Safe
  <2>2. CASE WorkerSends(p)
    BY <1>2, <2>2, CountedSame DEF WorkerSends, Safe
  <2> QED  BY <2>1, <2>2
<1>5. \A x \in Pushes :
        /\ Unanswered(stage, pushed, attribution, gateQ, answers, worker, watcher, x)
        /\ x = p => ~Untouched(stage, pushed, attribution, gateQ, x)
  BY <1>3 DEF Placed, Safe, Unanswered
<1>6. \A x \in Pushes :
        \/ answers'[x] = answers[x] /\ worker'[x] = worker[x] /\ watcher'[x].at = watcher[x].at
        \/ /\ ~Untouched(stage, pushed, attribution', gateQ', x)
           /\ Len(answers'[x]) <= 1
           /\ watcher'[x].at \in {"watching", "publishing", "dropped"} => answers'[x] = <<>>
  BY <1>1, <1>3, <1>5 DEF Unanswered
<1>7. Placed(stage', pushed', attribution', gateQ', answers', worker', watcher')
  BY <1>1, <1>2, <1>6, PlacedTouched DEF Safe
<1>8. Claimed(claims', superseded', watcher', answers')
  BY <1>1, <1>3 DEF Claimed, Safe
<1>9. Found(stage', pushed', attribution', gateQ', answers', superseded', watcher', abandoned')
  BY <1>1, <1>3 DEF Found, Safe
<1> QED  BY <1>1, <1>4, <1>7, <1>8, <1>9, SafeAfter

\* Only the claimant goes on to publish; a watcher that does not was superseded.
LEMMA SettleSafe ==
  ASSUME TypeOK, Safe, NEW p \in Pushes, NEW s, Settle(p, s), WitnessStep(p)
  PROVE  Safe'
<1>1. /\ InFlight' /\ Lifecycle' /\ attribution' = attribution /\ stage' = stage
      /\ pushed' = pushed /\ gateQ' = gateQ /\ abandoned' = abandoned
      /\ superseded' = superseded /\ Dispatching(stage', gateQ')
  BY WitnessElsewhere
<1>2. /\ watcher \in [Pushes -> Watch] /\ pushed \in Queues /\ attribution \in Attributions
      /\ claims \in [{Key(q) : q \in Pushes} -> Pushes \cup {None}]
  BY PlaceTypes DEF TypeOK
<1>3. /\ answers' = answers /\ worker' = worker /\ slots' = slots
      /\ watcher[p].at = "watching" /\ watcher'[p].at \in {"publishing", "dropped"}
      /\ \A q \in Pushes \ {p} : watcher'[q] = watcher[q]
      /\ claims[Key(p)] = p => watcher'[p].at = "publishing"
  <2>1. /\ answers' = answers /\ worker' = worker /\ slots' = slots
        /\ watcher[p].at = "watching"
    BY DEF Settle, apiVars
  <2>2. watcher[p] \in Watch
    BY <1>2
  <2>3. CASE claims[Key(p)] = p
    <3> DEFINE c == Composed(watcher[p].err, s)
    <3>1. watcher' = [watcher EXCEPT ![p].at = "publishing", ![p].got = c]
      BY <2>3 DEF Settle
    <3>2. /\ watcher'[p] = [watcher[p] EXCEPT !.at = "publishing", !.got = c]
          /\ \A q \in Pushes \ {p} : watcher'[q] = watcher[q]
      BY <1>2, <3>1
    <3> QED  BY <2>1, <2>2, <3>2, WatchFields
  <2>4. CASE claims[Key(p)] # p
    <3>1. watcher' = [watcher EXCEPT ![p].at = "dropped"]
      BY <2>4 DEF Settle
    <3>2. /\ watcher'[p] = [watcher[p] EXCEPT !.at = "dropped"]
          /\ \A q \in Pushes \ {p} : watcher'[q] = watcher[q]
      BY <1>2, <3>1
    <3> QED  BY <2>1, <2>2, <2>4, <3>2, WatchFields
  <2> QED  BY <2>3, <2>4
<1>4. Counted'
  BY <1>3, CountedSame DEF Safe
<1>5. \A x \in Pushes :
        \/ answers'[x] = answers[x] /\ worker'[x] = worker[x] /\ watcher'[x].at = watcher[x].at
        \/ /\ ~Untouched(stage, pushed, attribution', gateQ', x)
           /\ Len(answers'[x]) <= 1
           /\ watcher'[x].at \in {"watching", "publishing", "dropped"} => answers'[x] = <<>>
  <2> TAKE x \in Pushes
  <2>1. Unanswered(stage, pushed, attribution, gateQ, answers, worker, watcher, x)
    BY DEF Placed, Safe
  <2> QED  BY <1>1, <1>3, <2>1 DEF Unanswered
<1>6. Placed(stage', pushed', attribution', gateQ', answers', worker', watcher')
  BY <1>1, <1>2, <1>5, PlacedTouched DEF Safe
<1>7. Claimed(claims', superseded', watcher', answers')
  <2>1. CASE claims[Key(p)] = p
    <3>1. /\ \A q \in Pushes : claims'[Key(q)] = IF Key(q) = Key(p) THEN None ELSE claims[Key(q)]
          /\ watcher'[p].at = "publishing"
      BY <1>2, <1>3, <2>1 DEF Settle
    <3>2. \A q \in Pushes \ {p} : watcher[q].at = "watching" => claims'[Key(q)] = q \/ q \in superseded
      BY <2>1, <3>1 DEF Claimed, Safe
    <3> QED  BY <1>1, <1>3, <3>1, <3>2 DEF Claimed, Safe
  <2>2. CASE claims[Key(p)] # p
    <3>1. p \in superseded /\ claims' = claims
      BY <1>3, <2>2 DEF Claimed, Safe, Settle
    <3> QED  BY <1>1, <1>3, <3>1 DEF Claimed, Safe
  <2> QED  BY <2>1, <2>2
<1>8. Found(stage', pushed', attribution', gateQ', answers', superseded', watcher', abandoned')
  BY <1>1, <1>3 DEF Found, Safe
<1> QED  BY <1>1, <1>4, <1>6, <1>7, <1>8, SafeAfter

LEMMA OneMore ==
  ASSUME NEW s \in Seq(Verdicts), NEW v \in Verdicts
  PROVE  Append(s, v) # <<>> /\ (s = <<>> => Len(Append(s, v)) <= 1)
BY AppendProperties, EmptySeq

LEMMA WatcherPublishesSafe ==
  ASSUME TypeOK, Safe, NEW p \in Pushes, WatcherPublishes(p)
  PROVE  Safe'
<1>1. /\ InFlight' /\ Lifecycle' /\ attribution' = attribution /\ stage' = stage
      /\ pushed' = pushed /\ gateQ' = gateQ /\ abandoned' = abandoned
      /\ superseded' = superseded /\ Dispatching(stage', gateQ')
  BY WitnessElsewhere DEF WitnessStep, Watcher
<1>2. /\ watcher \in [Pushes -> Watch] /\ pushed \in Queues /\ attribution \in Attributions
      /\ answers \in [Pushes -> Seq(Verdicts)] /\ p # None
  BY PlaceTypes DEF TypeOK
<1>3. /\ worker' = worker /\ slots' = slots /\ claims' = claims
      /\ watcher[p].at = "publishing" /\ watcher'[p].at = "done"
      /\ \A q \in Pushes \ {p} : watcher'[q] = watcher[q] /\ answers'[q] = answers[q]
      /\ answers'[p] = Append(answers[p], watcher[p].got) /\ watcher[p].got \in Verdicts
  BY <1>2 DEF WatcherPublishes, Publish, Answer, Watch
<1>4. Unanswered(stage, pushed, attribution, gateQ, answers, worker, watcher, p)
  BY DEF Placed, Safe
<1>5. answers'[p] # <<>> /\ Len(answers'[p]) <= 1
  BY <1>2, <1>3, <1>4, OneMore DEF Unanswered
<1>6. Counted'
  BY <1>3, CountedSame DEF Safe
<1>7. \A x \in Pushes :
        \/ answers'[x] = answers[x] /\ worker'[x] = worker[x] /\ watcher'[x].at = watcher[x].at
        \/ /\ ~Untouched(stage, pushed, attribution', gateQ', x)
           /\ Len(answers'[x]) <= 1
           /\ watcher'[x].at \in {"watching", "publishing", "dropped"} => answers'[x] = <<>>
  BY <1>1, <1>3, <1>4, <1>5 DEF Unanswered
<1>8. Placed(stage', pushed', attribution', gateQ', answers', worker', watcher')
  BY <1>1, <1>2, <1>7, PlacedTouched DEF Safe
<1>9. Claimed(claims', superseded', watcher', answers')
  BY <1>1, <1>3, <1>5 DEF Claimed, Safe
<1>10. Found(stage', pushed', attribution', gateQ', answers', superseded', watcher', abandoned')
  BY <1>1, <1>3, <1>5 DEF Found, Safe
<1> QED  BY <1>1, <1>6, <1>8, <1>9, <1>10, SafeAfter

LEMMA WitnessSafe ==
  ASSUME TypeOK, Safe, NEW p \in Pushes, WitnessStep(p)
  PROVE  Safe'
<1>1. CASE Acquire(p) \/ WorkerSends(p) \/ WorkerEnds(p)
  BY <1>1, WorkerSafe
<1>2. CASE WatcherHears(p) \/ WatchdogFires(p)
  BY <1>2, SettleSafe DEF WatcherHears, WatchdogFires
<1>3. CASE WatcherPublishes(p)
  BY <1>3, WatcherPublishesSafe
<1> QED  BY <1>1, <1>2, <1>3 DEF WitnessStep, Watcher

\* The dispatcher hands its oldest request to a witness.
LEMMA DispatchSafe ==
  ASSUME TypeOK, Safe, DispatchGate
  PROVE  Safe'
<1> DEFINE p == Head(gateQ)
           r == Tail(gateQ)
<1>1. /\ attribution' = attribution /\ abandoned' = abandoned /\ stage' = stage
      /\ driver' = driver /\ cluster' = cluster /\ members' = members /\ answers' = answers
      /\ ctrl' = ctrl /\ pushed' = pushed /\ gateQ' = r /\ slots' = slots
      /\ gateQ # <<>> /\ Begin(p, FALSE)
  BY DEF DispatchGate, loopVars, raVars
<1>2. /\ pushed \in Queues /\ attribution \in Attributions
      /\ gateQ \in Seq(Gates) /\ Gates \subseteq Pushes
  BY PlaceTypes, Constants
<1>3. /\ p = gateQ[1] /\ 1 \in DOMAIN gateQ /\ p \in Gates /\ p \in Pushes
      /\ \A k \in DOMAIN r : k \in Nat /\ k + 1 \in DOMAIN gateQ /\ r[k] = gateQ[k + 1] /\ k + 1 # 1
      /\ \A k \in DOMAIN gateQ : k # 1 => k - 1 \in DOMAIN r /\ r[k - 1] = gateQ[k]
    <2>1. r \in Seq(Gates)
      BY <1>1, <1>2, TailPositions
    <2>2. \A k \in DOMAIN r : k \in Nat /\ k >= 1
      BY <2>1, Positions
    <2>3. \A k \in Nat : k >= 1 => k + 1 # 1
      OBVIOUS
    <2> QED  BY <1>1, <1>2, <2>2, <2>3, TailPositions
<1> HIDE DEF r, p
<1>4. \A k \in DOMAIN r : r[k] # p /\ stage[r[k]] = "accepted"
  BY <1>3 DEF Dispatching, Safe
<1>5. Dispatching(stage', gateQ')
  <2>1. \A i, j \in DOMAIN r : r[i] = r[j] => i = j
    BY <1>3 DEF Dispatching, Safe
  <2> QED  BY <1>1, <1>4, <2>1 DEF Dispatching
<1>6. Sent(gateQ, p) /\ ~Sent(r, p) /\ \A x : Sent(gateQ, x) <=> Sent(r, x) \/ x = p
  BY <1>3, <1>4 DEF Sent
<1>7. /\ answers[p] = <<>> /\ worker[p] = "none"
      /\ stage[p] = "accepted"
      /\ ~Untouched(stage, pushed, attribution, r, p)
  <2>1. Unanswered(stage, pushed, attribution, gateQ, answers, worker, watcher, p)
    BY <1>3 DEF Placed, Safe
  <2>2. answers[p] = <<>> /\ worker[p] = "none" /\ stage[p] = "accepted"
    BY <1>3, <1>6, <2>1 DEF Unanswered, Untouched, Dispatching, Safe
  <2>3. WtOf[p] \in Worktrees /\ p # None
    BY <1>3, PlaceTypes
  <2>4. ~Stored(stage, p)
    BY <1>3 DEF Stored
  <2>5. InOrder(stage, pushed[WtOf[p]], attribution[WtOf[p]], WtOf[p])
    BY <2>3 DEF Placed, Safe
  <2>6. ~Holds(pushed, p) /\ attribution[WtOf[p]] # p
    BY <2>3, <2>4, <2>5 DEF Holds, InOrder
  <2> QED  BY <1>6, <2>2, <2>6 DEF Untouched
<1>8. /\ \A q \in Pushes \ {p} : worker'[q] = worker[q] /\ watcher'[q] = watcher[q]
      /\ worker'[p] = "waiting" /\ watcher'[p].at = "watching"
      /\ superseded \subseteq superseded'
      /\ Claimed(claims', superseded', watcher', answers)
  BY <1>1, <1>3, BeginEffect DEF Safe
<1>9. Counted'
  BY <1>1, <1>3, <1>7, <1>8, CountedSame DEF Safe
<1>10. Len(answers[p]) <= 1
  BY <1>7, EmptySeq
<1>11. Placed(stage', pushed', attribution', gateQ', answers', worker', watcher')
  <2>1. \A x \in Pushes :
        \/ answers'[x] = answers[x] /\ worker'[x] = worker[x] /\ watcher'[x].at = watcher[x].at
        \/ /\ ~Untouched(stage, pushed, attribution', gateQ', x)
           /\ Len(answers'[x]) <= 1
           /\ watcher'[x].at \in {"watching", "publishing", "dropped"} => answers'[x] = <<>>
    BY <1>1, <1>7, <1>8, <1>10
  <2> QED  BY <1>1, <1>2, <1>6, <2>1, PlacedTouched DEF Safe
<1>12. Found(stage', pushed', attribution', gateQ', answers', superseded', watcher', abandoned')
  BY <1>1, <1>6, <1>8 DEF Found, Safe
<1>13. InFlight' /\ Lifecycle'
  BY <1>1 DEF InFlight, Tracked, Lifecycle, Safe
<1> QED  BY <1>1, <1>5, <1>8, <1>9, <1>11, <1>12, <1>13, SafeAfter

-----------------------------------------------------------------------------
(* The serve loop: batches and switches.                                   *)

LEMMA TxnFields ==
  /\ \A w \in Worktrees : Txn(w).wt = w /\ ~Txn(w).real /\ ~Txn(w).err /\ ~Txn(w).pullFailed
  /\ NoTxn.wt = None /\ \A w \in Worktrees : w # None
  /\ FreshDriver.current = NoTxn
BY Constants DEF Txn, NoTxn, FreshDriver

LEMMA SwitchTakes ==
  ASSUME NEW w, NEW cl, NEW an, NEW attr, Switch(w, cl, an, attr)
  PROVE  /\ pushed' = Popped(pushed, w) /\ attribution' = [attr EXCEPT ![w] = HeadOf(pushed, w)]
         /\ signals' = signals \cup (IF Len(pushed[w]) > 1 THEN {w} ELSE {})
         /\ NextPush(w) = HeadOf(pushed, w)
BY DEF Switch, TakeOverlay, Popped, HeadOf, NextPush

LEMMA SwitchSafe ==
  ASSUME pushed \in Queues, NEW w \in Worktrees, NEW cl, NEW an, NEW attr \in Attributions,
         NEW ans, NEW su, NEW wk, NEW wa, NEW ab,
         Placed(stage, pushed, attr, gateQ, ans, wk, wa),
         Found(stage, pushed, attr, gateQ, ans, su, wa, ab),
         \A v \in Worktrees : attr[v] \in ab \cup {None},
         driver'.current.wt = w, Switch(w, cl, an, attr)
  PROVE  /\ Placed(stage, pushed', attribution', gateQ, ans, wk, wa)
         /\ Found(stage, pushed', attribution', gateQ, ans, su, wa, ab)
         /\ Tracked(attribution', driver', ab)
<1>1. pushed' = Popped(pushed, w) /\ attribution' = [attr EXCEPT ![w] = HeadOf(pushed, w)]
  BY SwitchTakes
<1>2. Placed(stage, pushed', attribution', gateQ, ans, wk, wa)
  BY <1>1, PlacedTaken
<1>3. InOrder(stage, pushed[w], attr[w], w) /\ attr[w] \in ab \cup {None}
  BY DEF Placed
<1>4. Found(stage, pushed', attribution', gateQ, ans, su, wa, ab)
  BY <1>1, <1>3, FoundTaken
<1>5. \A v \in Worktrees : v # w => attribution'[v] = attr[v]
  BY <1>1 DEF Attributions
<1> QED  BY <1>2, <1>4, <1>5 DEF Tracked

LEMMA RoutedBatchSafe ==
  ASSUME pushed \in Queues, NEW w \in Worktrees, NEW drv \in Driver, IsInjective(drv.pending),
         NEW cl, NEW an, NEW attr \in Attributions,
         NEW ans, NEW su, NEW wk, NEW wa, NEW ab,
         Placed(stage, pushed, attr, gateQ, ans, wk, wa),
         Found(stage, pushed, attr, gateQ, ans, su, wa, ab),
         Tracked(attr, drv, ab), RoutedBatch(w, drv, cl, an, attr)
  PROVE  /\ Placed(stage, pushed', attribution', gateQ, ans, wk, wa)
         /\ Found(stage, pushed', attribution', gateQ, ans, su, wa, ab)
         /\ Tracked(attribution', driver', ab)
<1>1. CASE drv.current = NoTxn
  <2>1. driver' = Arm(drv, w) /\ Switch(w, cl, an, attr)
    BY <1>1 DEF RoutedBatch
  <2>2. driver'.current = Txn(w)
    BY <2>1, ArmTypes
  <2>3. driver'.current.wt = w /\ \A v \in Worktrees : attr[v] \in ab \cup {None}
    BY <1>1, <2>2, TxnFields DEF Tracked
  <2> QED  BY <2>1, <2>3, SwitchSafe
<1>2. CASE drv.current # NoTxn
  <2>1. driver' = Queue(drv, w) /\ attribution' = attr /\ pushed' = pushed
    BY <1>2 DEF RoutedBatch
  <2>2. driver'.current = drv.current
    BY <2>1, QueueTypes
  <2> QED  BY <2>1, <2>2 DEF Tracked
<1> QED  BY <1>1, <1>2

LEMMA RouteOrDeferSafe ==
  ASSUME pushed \in Queues, NEW w \in Worktrees, NEW drv \in Driver, IsInjective(drv.pending),
         NEW cl, NEW an, NEW attr \in Attributions,
         NEW ans, NEW su, NEW wk, NEW wa, NEW ab,
         Placed(stage, pushed, attr, gateQ, ans, wk, wa),
         Found(stage, pushed, attr, gateQ, ans, su, wa, ab),
         Tracked(attr, drv, ab), RouteOrDefer(w, drv, cl, an, attr)
  PROVE  /\ Placed(stage, pushed', attribution', gateQ, ans, wk, wa)
         /\ Found(stage, pushed', attribution', gateQ, ans, su, wa, ab)
         /\ Tracked(attribution', driver', ab)
<1>1. CASE cl.ready
  BY <1>1, RoutedBatchSafe DEF RouteOrDefer
<1>2. CASE ~cl.ready
  <2>1. driver' = drv /\ attribution' = attr /\ pushed' = pushed
    BY <1>2 DEF RouteOrDefer
  <2> QED  BY <2>1
<1> QED  BY <1>1, <1>2

\* A respawn answers whatever it strands, and forgets all attributions.
LEMMA StrandedSafe ==
  ASSUME TypeOK, Safe, PublishStranded
  PROVE  /\ Placed(stage, pushed, NoAttribution, gateQ, answers', worker, watcher)
         /\ Found(stage, pushed, NoAttribution, gateQ, answers', superseded, watcher, abandoned)
         /\ Claimed(claims, superseded, watcher, answers')
         /\ NoAttribution \in Attributions
         /\ \A drv : Tracked(NoAttribution, drv, abandoned)
         /\ \A p \in Pushes : p \notin Stranded => answers'[p] = answers[p]
         /\ \A p \in Pushes : p \in Stranded => attribution[WtOf[p]] = p
<1>1. /\ pushed \in Queues /\ attribution \in Attributions /\ gateQ \in Seq(Gates)
      /\ answers \in [Pushes -> Seq(Verdicts)]
      /\ \A p \in Pushes : WtOf[p] \in Worktrees /\ p # None
  BY PlaceTypes DEF TypeOK
<1>2. NoAttribution \in Attributions /\ \A w \in Worktrees : NoAttribution[w] = None
  BY DEF NoAttribution, Attributions
<1>3. \A p \in Pushes : answers'[p] = IF p \in Stranded THEN Append(answers[p], "unknown") ELSE answers[p]
  BY DEF PublishStranded
<1>4. ASSUME NEW p \in Pushes, p \in Stranded
      PROVE  /\ attribution[WtOf[p]] = p /\ Stored(stage, p) /\ ~Holds(pushed, p)
             /\ ~Sent(gateQ, p) /\ answers[p] = <<>> /\ watcher[p].at = "none"
  <2>1. PICK w \in Worktrees : attribution[w] = p
    BY <1>4 DEF Stranded
  <2>2. InOrder(stage, pushed[w], attribution[w], w) /\ p # None
    BY <1>1 DEF Placed, Safe
  <2>3. WtOf[p] = w /\ Stored(stage, p) /\ ~Holds(pushed, p)
    BY <2>1, <2>2 DEF InOrder, Holds
  <2>4. ~Sent(gateQ, p)
    BY <2>3, PlaceTypes DEF Stored, Sent
  <2>5. Unanswered(stage, pushed, attribution, gateQ, answers, worker, watcher, p)
    BY DEF Placed, Safe
  <2> QED  BY <2>1, <2>3, <2>4, <2>5 DEF Unanswered, Untouched
<1>5. \A p \in Pushes : p \in Stranded => answers'[p] # <<>> /\ Len(answers'[p]) <= 1
  BY <1>1, <1>3, <1>4, OneMore DEF Verdicts
<1>6. \A p \in Pushes : p \in Stranded => ~Untouched(stage, pushed, NoAttribution, gateQ, p)
  BY <1>1, <1>2, <1>4 DEF Untouched, Stored
<1>7. Placed(stage, pushed, NoAttribution, gateQ, answers', worker, watcher)
  <2>1. \A x \in Pushes :
        \/ answers'[x] = answers[x] /\ worker[x] = worker[x] /\ watcher[x].at = watcher[x].at
        \/ /\ ~Untouched(stage, pushed, NoAttribution, gateQ, x)
           /\ Len(answers'[x]) <= 1
           /\ watcher[x].at \in {"watching", "publishing", "dropped"} => answers'[x] = <<>>
    BY <1>3, <1>4, <1>5, <1>6
  <2>2. \A w \in Worktrees : NoAttribution[w] \in {attribution[w], None}
    BY <1>2
  <2> QED  BY <1>1, <1>2, <2>1, <2>2, PlacedTouched DEF Safe
<1>8. \A p \in Pushes : attribution[WtOf[p]] = p => p \in Stranded
  BY <1>1 DEF Stranded
<1>9. Found(stage, pushed, NoAttribution, gateQ, answers', superseded, watcher, abandoned)
  BY <1>3, <1>5, <1>8 DEF Found, Safe
<1>10. Claimed(claims, superseded, watcher, answers')
  BY <1>3, <1>5 DEF Claimed, Safe
<1>11. \A drv : Tracked(NoAttribution, drv, abandoned)
  BY <1>2 DEF Tracked
<1> QED  BY <1>2, <1>3, <1>4, <1>7, <1>9, <1>10, <1>11

LEMMA RoundSafe ==
  ASSUME TypeOK, Safe, Round
  PROVE  Safe'
<1>1. /\ stage' = stage /\ pushed' = pushed /\ superseded' = superseded /\ members' = members
      /\ abandoned' = abandoned /\ ctrl' = <<>> /\ gateQ' = gateQ /\ claims' = claims
      /\ worker' = worker /\ watcher' = watcher /\ slots' = slots
  BY DEF Round, witnessVars
<1>2. Counted' /\ Dispatching(stage', gateQ')
  BY <1>1, CountedSame DEF Safe
<1>3. CASE ctrl # <<>> /\ members # {}
  <2>1. PublishStranded /\ attribution' = NoAttribution
    BY <1>3 DEF Round
  <2>2. /\ Placed(stage, pushed, NoAttribution, gateQ, answers', worker, watcher)
        /\ Found(stage, pushed, NoAttribution, gateQ, answers', superseded, watcher, abandoned)
        /\ Claimed(claims, superseded, watcher, answers')
        /\ Tracked(NoAttribution, driver', abandoned)
    BY <2>1, StrandedSafe
  <2>3. InFlight' /\ Lifecycle'
    BY <1>1, <1>3, <2>1, <2>2 DEF InFlight, Lifecycle
  <2> QED  BY <1>1, <1>2, <2>1, <2>2, <2>3, SafeAfter
<1>4. CASE ~(ctrl # <<>> /\ members # {})
  <2>1. UNCHANGED <<driver, answers, activeWts, attribution, cluster>>
    BY <1>4 DEF Round
  <2>2. InFlight' /\ Lifecycle'
    BY <1>1, <2>1 DEF InFlight, Lifecycle, Tracked, Safe
  <2> QED  BY <1>1, <1>2, <2>1, <2>2, SafeAfter DEF Safe
<1> QED  BY <1>3, <1>4

LEMMA PushKeySafe ==
  ASSUME TypeOK, Safe, NEW w \in Worktrees, PushKeyRoutes(w) \/ PushKeySpawns(w) \/ PushKeyFails(w)
  PROVE  Safe'
<1>0. /\ Routed /\ Told /\ Looped /\ Processes /\ Witnesses
      /\ pushed \in Queues /\ attribution \in Attributions
      /\ driver \in Driver /\ IsInjective(driver.pending)
      /\ cluster \in Cluster /\ IsInjective(cluster.deferred) /\ cluster.fence < cluster.nextGen
      /\ ra \in Analyzer
  BY TypeParts, PlaceTypes DEF Routed
<1>1. /\ stage' = stage /\ superseded' = superseded
      /\ abandoned' = abandoned /\ gateQ' = gateQ /\ claims' = claims
      /\ worker' = worker /\ watcher' = watcher /\ slots' = slots
  BY DEF PushKeyRoutes, PushKeySpawns, PushKeyFails, TakeKey, witnessVars
<1>2. Counted' /\ Dispatching(stage', gateQ')
  BY <1>1, CountedSame DEF Safe
<1>3. CASE PushKeyRoutes(w)
  <2>1. /\ members' # {} /\ RouteOrDefer(w, driver, cluster, ra, attribution)
        /\ answers' = answers /\ ctrl' = ctrl
    BY <1>3 DEF PushKeyRoutes
  <2>2. /\ Placed(stage, pushed', attribution', gateQ, answers, worker, watcher)
        /\ Found(stage, pushed', attribution', gateQ, answers, superseded, watcher, abandoned)
        /\ Tracked(attribution', driver', abandoned)
    BY <1>0, <2>1, RouteOrDeferSafe DEF Safe, InFlight
  <2>3. cluster'.lsp = cluster.lsp
    BY <1>0, <2>1, RouteOrDeferTypes DEF Attributions
  <2>4. InFlight' /\ Lifecycle'
    BY <1>1, <2>1, <2>2, <2>3 DEF InFlight, Lifecycle, Safe
  <2>5. Claimed(claims', superseded', watcher', answers')
    BY <1>1, <2>1 DEF Safe
  <2> QED  BY <1>1, <1>2, <2>1, <2>2, <2>4, <2>5, SafeAfter
<1>4. CASE PushKeySpawns(w)
  <2>0. /\ members' # {} /\ members = {} /\ ctrl' = <<>>
        /\ FreshDriver \in Driver /\ IsInjective(FreshDriver.pending) /\ driver = FreshDriver
    BY <1>4, FreshTypes DEF PushKeySpawns, Lifecycle, Safe
  <2>1. PICK shaken \in BOOLEAN :
          LET sent == IF shaken THEN Append(ctrl, spawns + 1) ELSE ctrl
              an   == [inc |-> spawns + 1, alive |-> shaken, text |-> None]
          IN  IF sent = <<>>
              THEN /\ RouteOrDefer(w, FreshDriver, FreshCluster, an, attribution)
                   /\ UNCHANGED <<answers, activeWts>>
              ELSE /\ RouteOrDefer(w, FreshDriver, Handshaked(FreshCluster, Last(sent)), an,
                                   NoAttribution)
                   /\ PublishStranded
    BY <1>4 DEF PushKeySpawns
  <2> DEFINE sent == IF shaken THEN Append(ctrl, spawns + 1) ELSE ctrl
             an   == [inc |-> spawns + 1, alive |-> shaken, text |-> None]
             cl   == Handshaked(FreshCluster, Last(sent))
  <2>2. \/ /\ RouteOrDefer(w, FreshDriver, FreshCluster, an, attribution)
           /\ answers' = answers
        \/ RouteOrDefer(w, FreshDriver, cl, an, NoAttribution) /\ PublishStranded
    BY <2>1
  <2> HIDE DEF sent, an, cl
  <2>3. /\ Placed(stage, pushed', attribution', gateQ, answers', worker, watcher)
        /\ Found(stage, pushed', attribution', gateQ, answers', superseded, watcher, abandoned)
        /\ Tracked(attribution', driver', abandoned)
        /\ Claimed(claims, superseded, watcher, answers')
    <3>1. CASE RouteOrDefer(w, FreshDriver, FreshCluster, an, attribution) /\ answers' = answers
      <4>1. Tracked(attribution, FreshDriver, abandoned)
        BY <2>0 DEF InFlight, Safe
      <4> QED  BY <1>0, <2>0, <3>1, <4>1, RouteOrDeferSafe DEF Safe
    <3>2. CASE RouteOrDefer(w, FreshDriver, cl, an, NoAttribution) /\ PublishStranded
      <4> DEFINE a2 == answers'
      <4>1. /\ Placed(stage, pushed, NoAttribution, gateQ, a2, worker, watcher)
            /\ Found(stage, pushed, NoAttribution, gateQ, a2, superseded, watcher, abandoned)
            /\ Claimed(claims, superseded, watcher, a2) /\ NoAttribution \in Attributions
            /\ Tracked(NoAttribution, FreshDriver, abandoned)
        BY <3>2, StrandedSafe
      <4> HIDE DEF a2
      <4>2. /\ Placed(stage, pushed', attribution', gateQ, a2, worker, watcher)
            /\ Found(stage, pushed', attribution', gateQ, a2, superseded, watcher, abandoned)
            /\ Tracked(attribution', driver', abandoned)
        BY <1>0, <2>0, <3>2, <4>1, RouteOrDeferSafe
      <4> QED  BY <4>1, <4>2 DEF a2
    <3> QED  BY <2>2, <3>1, <3>2
  <2>4. InFlight' /\ Lifecycle'
    BY <1>1, <2>0, <2>3 DEF InFlight, Lifecycle
  <2> QED  BY <1>1, <1>2, <2>3, <2>4, SafeAfter
<1>5. CASE PushKeyFails(w)
  <2> DEFINE h == HeadOf(pushed, w)
  <2>1. /\ pushed' = Popped(pushed, w) /\ attribution' = attribution /\ members' = members
        /\ driver' = driver /\ cluster' = cluster /\ ctrl' = ctrl
        /\ IF pushed[w] = <<>> THEN answers' = answers
           ELSE Publish(h, w, "unknown")
    BY <1>5 DEF PushKeyFails, Popped, HeadOf, NextPush
  <2>2. InOrder(stage, pushed[w], attribution[w], w)
    BY DEF Placed, Safe
  <2>3. /\ Popped(pushed, w) \in Queues
        /\ \A v \in Worktrees : v # w => Popped(pushed, w)[v] = pushed[v]
        /\ h \in Pushes \cup {None} /\ (h = None <=> pushed[w] = <<>>)
        /\ InOrder(stage, Popped(pushed, w)[w], attribution[w], w)
        /\ h # None => /\ WtOf[h] = w /\ Stored(stage, h) /\ Holds(pushed, h) /\ h # attribution[w]
                       /\ ~Holds(Popped(pushed, w), h)
        /\ \A p \in Pushes : Holds(pushed, p) <=> Holds(Popped(pushed, w), p) \/ p = h
    <3>1. pushed \in Queues /\ attribution \in Attributions
      BY <1>0
    <3> HIDE DEF h
    <3>2. /\ Popped(pushed, w) \in Queues
          /\ \A v \in Worktrees : v # w => Popped(pushed, w)[v] = pushed[v]
          /\ InOrder(stage, Popped(pushed, w)[w], attribution[w], w)
      BY <2>2, <3>1, PoppedIs
    <3>3. h \in Pushes \cup {None} /\ (h = None <=> pushed[w] = <<>>)
      BY <2>2, <3>1, PoppedIs DEF h
    <3>4. h # None => /\ WtOf[h] = w /\ Stored(stage, h) /\ Holds(pushed, h) /\ h # attribution[w]
                      /\ ~Holds(Popped(pushed, w), h)
      BY <2>2, <3>1, PoppedIs DEF h
    <3>5. \A p \in Pushes : Holds(pushed, p) <=> Holds(Popped(pushed, w), p) \/ p = h
      BY <2>2, <3>1, PoppedIs DEF h
    <3> QED  BY <3>2, <3>3, <3>4, <3>5
  <2> HIDE DEF h
  <2>4. /\ answers \in [Pushes -> Seq(Verdicts)] /\ \A p \in Pushes : p # None
    BY <1>0, PlaceTypes DEF Told
  <2>5. /\ \A p \in Pushes : p # h => answers'[p] = answers[p]
        /\ h # None => answers'[h] = Append(answers[h], "unknown")
    BY <2>1, <2>3, <2>4 DEF Publish, Answer
  <2>6. h # None =>
          /\ answers[h] = <<>> /\ watcher[h].at = "none" /\ ~Sent(gateQ, h)
          /\ ~Untouched(stage, pushed', attribution, gateQ, h)
    <3>1. ASSUME h # None
          PROVE  /\ answers[h] = <<>> /\ watcher[h].at = "none" /\ ~Sent(gateQ, h)
                 /\ ~Untouched(stage, pushed', attribution, gateQ, h)
      <4>1. Unanswered(stage, pushed, attribution, gateQ, answers, worker, watcher, h)
        BY <2>3, <3>1 DEF Placed, Safe
      <4>2. ~Sent(gateQ, h)
        BY <2>3, <3>1, PlaceTypes DEF Sent, Stored
      <4> QED  BY <2>1, <2>3, <3>1, <4>1, <4>2 DEF Unanswered, Untouched, Stored
    <3> QED  BY <3>1
  <2>7. h # None => answers'[h] # <<>> /\ Len(answers'[h]) <= 1
    BY <2>3, <2>4, <2>5, <2>6, OneMore DEF Verdicts
  <2>8. Placed(stage', pushed', attribution', gateQ', answers', worker', watcher')
    <3>1. ASSUME NEW v \in Worktrees  PROVE InOrder(stage, pushed'[v], attribution[v], v)
      BY <2>1, <2>3 DEF Placed, Safe
    <3>2. ASSUME NEW x \in Pushes
          PROVE  Unanswered(stage, pushed', attribution, gateQ, answers', worker, watcher, x)
      <4>1. Unanswered(stage, pushed, attribution, gateQ, answers, worker, watcher, x) /\ x # None
        BY <2>4 DEF Placed, Safe
      <4>2. CASE x = h
        BY <2>6, <2>7, <4>1, <4>2 DEF Unanswered
      <4>3. CASE x # h
        <5>1. answers'[x] = answers[x]
          BY <2>5, <4>3
        <5>2. Untouched(stage, pushed', attribution, gateQ, x)
                => Untouched(stage, pushed, attribution, gateQ, x)
          BY <2>1, <2>3 DEF Untouched
        <5> QED  BY <4>1, <5>1, <5>2 DEF Unanswered
      <4> QED  BY <4>2, <4>3
    <3> QED  BY <1>1, <2>1, <3>1, <3>2 DEF Placed
  <2>9. Found(stage', pushed', attribution', gateQ', answers', superseded', watcher', abandoned')
    <3>1. \A p \in Pushes : Holds(pushed, p) => Holds(pushed', p) \/ answers'[p] # <<>>
      BY <2>1, <2>3, <2>4, <2>7
    <3>2. \A p \in Pushes : answers[p] # <<>> => answers'[p] # <<>>
      BY <2>4, <2>5, <2>7
    <3> QED  BY <1>1, <2>1, <3>1, <3>2 DEF Found, Safe
  <2>10. Claimed(claims', superseded', watcher', answers')
    <3>1. \A p \in Pushes : answers[p] # <<>> => answers'[p] # <<>>
      BY <2>4, <2>5, <2>7
    <3> QED  BY <1>1, <3>1 DEF Claimed, Safe
  <2>11. InFlight' /\ Lifecycle'
    BY <1>1, <2>1 DEF InFlight, Tracked, Lifecycle, Safe
  <2> QED  BY <1>1, <1>2, <2>8, <2>9, <2>10, <2>11, SafeAfter
<1> QED  BY <1>3, <1>4, <1>5

\* A verdict of the loop: published, or left to a witness, and the attribution
\* is consumed.
LEMMA EmitSafe ==
  ASSUME TypeOK, Safe, driver.current # NoTxn, NEW t \in Transaction,
         t.wt = driver.current.wt, Emit(t)
  PROVE  LET attr == TakeAttribution(t.wt)
         IN  /\ attr \in Attributions
             /\ Placed(stage, pushed, attr, gateQ, answers', worker', watcher')
             /\ Found(stage, pushed, attr, gateQ, answers', superseded', watcher', abandoned)
             /\ Claimed(claims', superseded', watcher', answers')
             /\ Counted' /\ gateQ' = gateQ
             /\ \A v \in Worktrees : attr[v] \in abandoned \cup {None}
<1> DEFINE w == t.wt
           p == attribution[w]
           attr == TakeAttribution(w)
<1>1. /\ pushed \in Queues /\ attribution \in Attributions /\ gateQ \in Seq(Gates)
      /\ answers \in [Pushes -> Seq(Verdicts)]
      /\ \A q \in Pushes : WtOf[q] \in Worktrees /\ q # None
      /\ w \in Worktrees /\ p \in Pushes \cup {None}
  BY PlaceTypes DEF TypeOK, Transaction
<1>2. /\ attr \in Attributions /\ attr[w] = None
      /\ \A v \in Worktrees : v # w => attr[v] = attribution[v]
  BY <1>1 DEF TakeAttribution, Attributions
<1>3. \A v \in Worktrees : attr[v] \in abandoned \cup {None}
  BY <1>1, <1>2 DEF Safe, InFlight, Tracked
<1>4. p # None => /\ WtOf[p] = w /\ Stored(stage, p) /\ ~Holds(pushed, p) /\ ~Sent(gateQ, p)
                  /\ answers[p] = <<>> /\ worker[p] = "none" /\ watcher[p].at = "none"
  <2>1. ASSUME p # None
        PROVE  /\ WtOf[p] = w /\ Stored(stage, p) /\ ~Holds(pushed, p) /\ ~Sent(gateQ, p)
               /\ answers[p] = <<>> /\ worker[p] = "none" /\ watcher[p].at = "none"
    <3>1. InOrder(stage, pushed[w], p, w) /\ p \in Pushes
      BY <1>1, <2>1 DEF Placed, Safe
    <3> HIDE DEF w, attr
    <3>2. WtOf[p] = w /\ Stored(stage, p) /\ ~Holds(pushed, p)
      BY <2>1, <3>1 DEF InOrder, Holds
    <3>3. ~Sent(gateQ, p)
      BY <3>2, PlaceTypes DEF Stored, Sent
    <3>4. Unanswered(stage, pushed, attribution, gateQ, answers, worker, watcher, p)
      BY <3>1 DEF Placed, Safe
    <3> QED  BY <3>2, <3>3, <3>4 DEF Unanswered, Untouched
  <2> QED  BY <2>1
<1> HIDE DEF attr
<1>5. p # None => ~Untouched(stage, pushed, attr, gateQ, p)
  BY <1>1, <1>2, <1>4 DEF Untouched, Stored
<1>6. CASE p \in Escalated
  <2>1. Begin(p, t.err) /\ answers' = answers /\ gateQ' = gateQ /\ slots' = slots
    BY <1>6 DEF Emit
  <2>2. p \in Pushes /\ p # None
    BY <1>6, Constants
  <2> HIDE DEF p, w
  <2>3. /\ \A q \in Pushes \ {p} : worker'[q] = worker[q] /\ watcher'[q] = watcher[q]
        /\ worker'[p] = "waiting" /\ watcher'[p].at = "watching"
        /\ superseded \subseteq superseded'
        /\ Claimed(claims', superseded', watcher', answers)
    BY <2>1, <2>2, BeginEffect DEF Safe
  <2>4. Counted'
    BY <1>4, <2>1, <2>2, <2>3, CountedSame DEF Safe
  <2>5. Len(answers[p]) <= 1
    BY <1>4, <2>2, EmptySeq
  <2>6. Placed(stage, pushed, attr, gateQ, answers', worker', watcher')
    <3>1. \A x \in Pushes :
          \/ answers'[x] = answers[x] /\ worker'[x] = worker[x] /\ watcher'[x].at = watcher[x].at
          \/ /\ ~Untouched(stage, pushed, attr, gateQ, x)
             /\ Len(answers'[x]) <= 1
             /\ watcher'[x].at \in {"watching", "publishing", "dropped"} => answers'[x] = <<>>
      BY <1>4, <1>5, <2>1, <2>2, <2>3, <2>5
    <3>2. \A v \in Worktrees : attr[v] \in {attribution[v], None}
      BY <1>1, <1>2
    <3> QED  BY <1>1, <1>2, <3>1, <3>2, PlacedTouched DEF Safe
  <2>7. \A q \in Pushes : q # p /\ attribution[WtOf[q]] = q => attr[WtOf[q]] = q
    BY <1>1, <1>2 DEF p
  <2>8. Found(stage, pushed, attr, gateQ, answers', superseded', watcher', abandoned)
    BY <2>1, <2>3, <2>7 DEF Found, Safe
  <2> QED  BY <1>2, <1>3, <2>1, <2>3, <2>4, <2>6, <2>8 DEF attr, w
<1>7. CASE p \notin Escalated
  <2> DEFINE v == NativeVerdict(t, p)
  <2>1. Publish(p, w, v) /\ UNCHANGED <<superseded, witnessVars>>
    BY <1>7 DEF Emit
  <2>2. v \in Verdicts
    BY DEF NativeVerdict, Verdicts
  <2> HIDE DEF v, p, w
  <2>3. /\ gateQ' = gateQ /\ claims' = claims /\ worker' = worker /\ watcher' = watcher
        /\ slots' = slots /\ superseded' = superseded
    BY <2>1 DEF witnessVars
  <2>4. /\ \A q \in Pushes : q # p => answers'[q] = answers[q]
        /\ p # None => answers'[p] = Append(answers[p], v)
    BY <1>1, <2>1 DEF Publish, Answer
  <2>5. p # None => answers'[p] # <<>> /\ Len(answers'[p]) <= 1
    BY <1>1, <1>4, <2>2, <2>4, OneMore
  <2>6. Placed(stage, pushed, attr, gateQ, answers', worker', watcher')
    <3>1. \A x \in Pushes :
          \/ answers'[x] = answers[x] /\ worker'[x] = worker[x] /\ watcher'[x].at = watcher[x].at
          \/ /\ ~Untouched(stage, pushed, attr, gateQ, x)
             /\ Len(answers'[x]) <= 1
             /\ watcher'[x].at \in {"watching", "publishing", "dropped"} => answers'[x] = <<>>
      BY <1>1, <1>4, <1>5, <2>3, <2>4, <2>5
    <3>2. \A x \in Worktrees : attr[x] \in {attribution[x], None}
      BY <1>1, <1>2
    <3> QED  BY <1>1, <1>2, <3>1, <3>2, PlacedTouched DEF Safe
  <2>7. /\ \A q \in Pushes : attribution[WtOf[q]] = q => attr[WtOf[q]] = q \/ answers'[q] # <<>>
        /\ \A q \in Pushes : answers[q] # <<>> => answers'[q] # <<>>
    BY <1>1, <1>2, <2>4, <2>5 DEF p
  <2>8. Found(stage, pushed, attr, gateQ, answers', superseded', watcher', abandoned)
    BY <2>3, <2>7 DEF Found, Safe
  <2>9. Claimed(claims', superseded', watcher', answers')
    BY <2>3, <2>7 DEF Claimed, Safe
  <2>10. Counted'
    BY <2>3, CountedSame DEF Safe
  <2> QED  BY <1>2, <1>3, <2>3, <2>6, <2>8, <2>9, <2>10 DEF attr, w
<1> QED  BY <1>6, <1>7

LEMMA SettlesSafe ==
  ASSUME TypeOK, Safe, EventSettles
  PROVE  Safe'
<1> DEFINE e == Head(events)
           t == Settled(e)
           next == AfterSettle(driver)
           attr == TakeAttribution(t.wt)
           cl == [Unfenced(e) EXCEPT !.baseline = FALSE]
<1>1. /\ events # <<>> /\ members # {} /\ driver.current # NoTxn
      /\ TakeEvent(e) /\ Emit(t) /\ driver' = next
      /\ IF next.current = NoTxn
         THEN /\ cluster' = cl /\ attribution' = attr
              /\ UNCHANGED <<pushed, signals, ra, pulls, stalled, budget>>
         ELSE Switch(next.current.wt, cl, ra, attr)
  BY DEF EventSettles
<1>2. /\ stage' = stage /\ members' = members /\ abandoned' = abandoned /\ ctrl' = ctrl
  BY <1>1 DEF TakeEvent
<1>3. /\ pushed \in Queues /\ driver \in Driver /\ IsInjective(driver.pending)
      /\ events \in Seq(LspEvent) /\ cluster \in Cluster /\ cluster.fence < cluster.nextGen
  BY PlaceTypes DEF TypeOK
<1>4. e \in LspEvent
  BY <1>1, <1>3, TailPositions
<1>5. t \in Transaction /\ t.wt = driver.current.wt
  BY <1>1, <1>3, <1>4, SettledTypes
<1>6. cl.lsp = cluster.lsp
  <2>1. Unfenced(e) \in Cluster /\ Unfenced(e).lsp = cluster.lsp
    BY <1>3, <1>4, UnfencedTypes
  <2> QED  BY <2>1 DEF Cluster
<1>7. next.current # NoTxn => next.current.wt \in Worktrees
  BY <1>1, <1>3, AfterSettleTypes
<1> HIDE DEF e, t, next, cl
<1>8. /\ attr \in Attributions
      /\ Placed(stage, pushed, attr, gateQ, answers', worker', watcher')
      /\ Found(stage, pushed, attr, gateQ, answers', superseded', watcher', abandoned)
      /\ Claimed(claims', superseded', watcher', answers')
      /\ Counted' /\ gateQ' = gateQ
      /\ \A v \in Worktrees : attr[v] \in abandoned \cup {None}
  BY <1>1, <1>5, EmitSafe
<1> HIDE DEF attr
<1>9. /\ Placed(stage, pushed', attribution', gateQ, answers', worker', watcher')
      /\ Found(stage, pushed', attribution', gateQ, answers', superseded', watcher', abandoned)
      /\ Tracked(attribution', driver', abandoned) /\ cluster'.lsp = cluster.lsp
  <2>1. CASE next.current = NoTxn
    <3>1. attribution' = attr /\ pushed' = pushed /\ cluster' = cl
      BY <1>1, <2>1
    <3> QED  BY <1>6, <1>8, <3>1 DEF Tracked
  <2>2. CASE next.current # NoTxn
    <3> DEFINE w == next.current.wt
               ans == answers'
               su == superseded'
               wk == worker'
               wa == watcher'
    <3>1. w \in Worktrees /\ driver'.current.wt = w /\ Switch(w, cl, ra, attr)
      BY <1>1, <1>7, <2>2
    <3> HIDE DEF w
    <3>2. /\ Placed(stage, pushed', attribution', gateQ, ans, wk, wa)
          /\ Found(stage, pushed', attribution', gateQ, ans, su, wa, abandoned)
          /\ Tracked(attribution', driver', abandoned)
      <4>1. /\ Placed(stage, pushed, attr, gateQ, ans, wk, wa)
            /\ Found(stage, pushed, attr, gateQ, ans, su, wa, abandoned)
            /\ \A v \in Worktrees : attr[v] \in abandoned \cup {None}
            /\ pushed \in Queues /\ attr \in Attributions
        BY <1>3, <1>8
      <4> HIDE DEF ans, su, wk, wa
      <4> QED  BY <3>1, <4>1, SwitchSafe
    <3>3. cluster'.lsp = cl.lsp
      <4>1. cl \in Cluster
        <5>1. Unfenced(e) \in Cluster
          BY <1>3, <1>4, UnfencedTypes
        <5> QED  BY <5>1 DEF cl, Cluster
      <4> QED  BY <3>1, <4>1 DEF Switch, WriteOk, WriteFails, NoClient, Cluster
    <3> QED  BY <1>6, <3>2, <3>3
  <2> QED  BY <2>1, <2>2
<1>10. InFlight' /\ Lifecycle'
  BY <1>1, <1>2, <1>9 DEF InFlight, Lifecycle, Safe
<1>11. Dispatching(stage', gateQ')
  BY <1>2, <1>8 DEF Safe
<1> QED  BY <1>2, <1>8, <1>9, <1>10, <1>11, SafeAfter

\* Steps that move no push.
Standing == UNCHANGED <<stage, pushed, attribution, gateQ, answers, superseded, claims, worker,
                        watcher, slots>>

LEMMA StandingSafe ==
  ASSUME Safe, Standing, InFlight', Lifecycle', abandoned \subseteq abandoned'
  PROVE  Safe'
<1>1. /\ stage' = stage /\ pushed' = pushed /\ attribution' = attribution /\ gateQ' = gateQ
      /\ answers' = answers /\ superseded' = superseded /\ claims' = claims /\ worker' = worker
      /\ watcher' = watcher /\ slots' = slots
  BY DEF Standing
<1>2. Counted'
  BY <1>1, CountedSame DEF Safe
<1>3. Found(stage', pushed', attribution', gateQ', answers', superseded', watcher', abandoned')
  BY <1>1 DEF Found, Safe
<1> QED  BY <1>1, <1>2, <1>3, SafeAfter DEF Safe

LEMMA EventSafe ==
  ASSUME TypeOK, Safe, EventIgnored \/ EventObserved \/ EventIndexed
  PROVE  Safe'
<1>1. Standing /\ abandoned' = abandoned /\ members' = members /\ ctrl' = ctrl
  BY DEF EventIgnored, EventObserved, EventIndexed, TakeEvent, Standing, witnessVars
<1> DEFINE e == Head(events)
<1>2. driver'.current.wt = driver.current.wt
  <2>1. CASE EventObserved
    <3>1. /\ driver.current # NoTxn /\ driver \in Driver
          /\ driver' = [driver EXCEPT !.current.real = TRUE,
                                      !.current.err = driver.current.err \/ e.err]
      BY <2>1 DEF EventObserved, TypeOK
    <3>2. driver.current \in Transaction
      BY <3>1, InTransaction
    <3> QED  BY <3>1, <3>2 DEF Driver, Transaction
  <2>2. CASE EventIgnored \/ EventIndexed
    BY <2>2 DEF EventIgnored, EventIndexed
  <2> QED  BY <2>1, <2>2
<1>3. /\ cluster'.lsp = cluster.lsp
      /\ members = {} => driver' = driver /\ cluster' = cluster
  <2>1. CASE EventObserved
    BY <2>1 DEF EventObserved
  <2>2. CASE EventIgnored
    <3>1. /\ events # <<>> /\ driver' = driver
          /\ cluster' = IF members # {} /\ Admitted(e) THEN Unfenced(e) ELSE cluster
      BY <2>2 DEF EventIgnored
    <3>2. e \in LspEvent /\ cluster \in Cluster /\ cluster.fence < cluster.nextGen
      BY <3>1, TailPositions DEF TypeOK
    <3> HIDE DEF e
    <3>3. Unfenced(e).lsp = cluster.lsp
      BY <3>2, UnfencedTypes
    <3> QED  BY <3>1, <3>3
  <2>3. CASE EventIndexed
    BY <2>3 DEF EventIndexed, TypeOK, Cluster
  <2> QED  BY <2>1, <2>2, <2>3
<1>4. Lifecycle'
  BY <1>1, <1>3 DEF Lifecycle, Safe
<1>5. InFlight'
  BY <1>1, <1>2 DEF InFlight, Tracked, Standing, Safe
<1> QED  BY <1>1, <1>4, <1>5, StandingSafe

LEMMA RouteDeferredSafe ==
  ASSUME TypeOK, Safe, RouteDeferred
  PROVE  Safe'
<1> DEFINE w == Head(cluster.deferred)
           cl == [cluster EXCEPT !.deferred = Tail(cluster.deferred)]
<1>1. /\ cluster.deferred # <<>> /\ RoutedBatch(w, driver, cl, ra, attribution)
      /\ stage' = stage /\ answers' = answers /\ superseded' = superseded
      /\ members' = members /\ abandoned' = abandoned /\ ctrl' = ctrl
      /\ gateQ' = gateQ /\ claims' = claims /\ worker' = worker /\ watcher' = watcher
      /\ slots' = slots
  BY DEF RouteDeferred, witnessVars
<1>2. /\ Routed /\ pushed \in Queues /\ driver \in Driver /\ IsInjective(driver.pending)
      /\ cluster \in Cluster /\ IsInjective(cluster.deferred) /\ cluster.fence < cluster.nextGen
      /\ ra \in Analyzer /\ attribution \in Attributions
  BY TypeParts, PlaceTypes DEF Routed
<1>3. Tail(cluster.deferred) \in Seq(Worktrees) /\ w \in Worktrees /\ IsInjective(Tail(cluster.deferred))
  BY <1>1, <1>2, TailPositions, TailUnique DEF Cluster
<1>4. /\ cl \in Cluster /\ IsInjective(cl.deferred) /\ cl.lsp = cluster.lsp
      /\ cl.fence = cluster.fence /\ cl.nextGen = cluster.nextGen
  BY <1>2, <1>3 DEF Cluster
<1> HIDE DEF w, cl
<1>5. cluster'.lsp = cluster.lsp
  BY <1>1, <1>2, <1>3, <1>4, RoutedBatchTypes DEF Attributions
<1>6. /\ Placed(stage, pushed', attribution', gateQ, answers, worker, watcher)
      /\ Found(stage, pushed', attribution', gateQ, answers, superseded, watcher, abandoned)
      /\ Tracked(attribution', driver', abandoned)
  BY <1>1, <1>2, <1>3, RoutedBatchSafe DEF Safe, InFlight
<1>7. members # {}
  BY <1>1, FreshTypes DEF Lifecycle, Safe
<1>8. InFlight' /\ Lifecycle'
  BY <1>1, <1>5, <1>6, <1>7 DEF InFlight, Lifecycle, Safe
<1>9. Counted'
  BY <1>1, CountedSame DEF Safe
<1> QED  BY <1>1, <1>6, <1>8, <1>9, SafeAfter DEF Safe

LEMMA DeactivateSafe ==
  ASSUME TypeOK, Safe, NEW w \in Worktrees, Deactivate(w)
  PROVE  Safe'
<1>1. /\ Standing /\ ctrl' = ctrl /\ members' = members \ {w} /\ w \in members
  BY DEF Deactivate, Standing, apiVars, witnessVars
<1>2. CASE members = {w}
  <2>1. driver' = FreshDriver /\ cluster' = FreshCluster /\ abandoned' = abandoned \cup Stranded
    BY <1>2 DEF Deactivate
  <2>2. InFlight'
    BY <1>1, <2>1 DEF InFlight, Tracked, Stranded, Standing
  <2>3. \A k \in DOMAIN ctrl : ctrl[k] \in 1..spawns
    BY Positions DEF TypeOK
  <2>4. spawns \in Nat
    BY DEF TypeOK
  <2>5. Lifecycle'
    BY <1>1, <2>1, <2>3, <2>4, FreshTypes DEF Lifecycle
  <2> QED  BY <1>1, <2>1, <2>2, <2>5, StandingSafe
<1>3. CASE members # {w}
  <2> DEFINE q == RemoveFirst(driver.pending, w)
             b == driver.recheck /\ driver.current.wt # w
  <2>1. /\ driver' = [driver EXCEPT !.pending = q, !.recheck = b]
        /\ cluster' = cluster /\ abandoned' = abandoned /\ driver \in Driver
    BY <1>3 DEF Deactivate, TypeOK
  <2> HIDE DEF q, b
  <2>2. driver'.current = driver.current
    BY <2>1 DEF Driver
  <2>3. InFlight'
    BY <1>1, <2>1, <2>2 DEF InFlight, Tracked, Standing, Safe
  <2>4. Lifecycle'
    BY <1>1, <1>3, <2>1 DEF Lifecycle, Safe
  <2> QED  BY <1>1, <2>1, <2>3, <2>4, StandingSafe
<1> QED  BY <1>2, <1>3

LEMMA RespawnSafe ==
  ASSUME TypeOK, Safe, RaRespawns
  PROVE  Safe'
<1>1. /\ Standing /\ abandoned' = abandoned /\ members' = members /\ driver' = driver
      /\ cluster' = cluster
      /\ ctrl' = ctrl \/ ctrl' = Append(ctrl, spawns + 1)
  BY DEF RaRespawns, Standing, apiVars, loopVars, witnessVars
<1>2. /\ spawns \in Nat /\ ctrl \in Seq(1..spawns) /\ cluster.lsp \in Nat /\ cluster.lsp <= spawns
  BY DEF TypeOK, Cluster
<1>3. \A k \in DOMAIN ctrl' : ctrl'[k] > cluster.lsp
  <2>1. CASE ctrl' = ctrl
    BY <2>1 DEF Lifecycle, Safe
  <2>2. CASE ctrl' = Append(ctrl, spawns + 1)
    <3>1. ctrl \in Seq(Nat) /\ spawns + 1 \in Nat /\ spawns + 1 > cluster.lsp
      <4>1. 1..spawns \subseteq Nat
        BY <1>2
      <4> QED  BY <1>2, <4>1, SeqMonotonic
    <3>2. /\ ctrl'[Len(ctrl) + 1] = spawns + 1
          /\ \A k \in DOMAIN ctrl : ctrl'[k] = ctrl[k]
          /\ \A k \in DOMAIN ctrl' : k \in DOMAIN ctrl \/ k = Len(ctrl) + 1
      BY <2>2, <3>1, AppendPositions
    <3> QED  BY <3>1, <3>2 DEF Lifecycle, Safe
  <2> QED  BY <1>1, <2>1, <2>2
<1>4. Lifecycle' /\ InFlight'
  BY <1>1, <1>3 DEF Lifecycle, InFlight, Tracked, Standing, Safe
<1> QED  BY <1>1, <1>4, StandingSafe

LEMMA OtherSafe ==
  ASSUME Safe,
         \/ RaNotifies \/ RaDies \/ RequestQuiesce \/ ExitDrained \/ KeysDone \/ RoundEnds
         \/ \E q \in pulls : Pull(q)
  PROVE  Safe'
<1>1. /\ Standing /\ abandoned' = abandoned /\ members' = members /\ driver' = driver
      /\ cluster' = cluster /\ ctrl' = ctrl
  BY DEF RaNotifies, RaDies, RequestQuiesce, ExitDrained, KeysDone, RoundEnds, Pull, PullReports,
         PullFails, Standing, apiVars, loopVars, raVars, witnessVars
<1>2. Lifecycle' /\ InFlight'
  BY <1>1 DEF Lifecycle, InFlight, Tracked, Standing, Safe
<1> QED  BY <1>1, <1>2, StandingSafe

\* Every step keeps the pushes in their places.
LEMMA SafeStep ==
  ASSUME TypeOK, Safe, Next
  PROVE  Safe'
BY ClientSafe, WitnessSafe, DispatchSafe, RoundSafe, PushKeySafe, EventSafe, SettlesSafe,
   RouteDeferredSafe, DeactivateSafe, RespawnSafe, OtherSafe
   DEF Next, LoopStep, Environment

LEMMA InitSafe ==
  ASSUME Init
  PROVE  TypeOK /\ Safe
<1>1. /\ stage = [p \in Pushes |-> "new"] /\ pushed = [w \in Worktrees |-> <<>>]
      /\ attribution = [w \in Worktrees |-> None] /\ answers = [p \in Pushes |-> <<>>]
      /\ claims = [k \in {Key(p) : p \in Pushes} |-> None]
      /\ worker = [p \in Pushes |-> "none"]
      /\ watcher = [p \in Pushes |-> [at |-> "none", err |-> FALSE, got |-> "nothing"]]
      /\ slots = 0 /\ gateQ = <<>> /\ superseded = {} /\ abandoned = {}
      /\ members = {} /\ driver = FreshDriver /\ cluster = FreshCluster /\ ctrl = <<>>
      /\ spawns = 0 /\ events = <<>> /\ pulls = {}
  BY DEF Init
<1>2. /\ \A p \in Pushes : /\ stage[p] = "new" /\ answers[p] = <<>> /\ worker[p] = "none"
                           /\ watcher[p].at = "none" /\ WtOf[p] \in Worktrees /\ p # None
      /\ \A w \in Worktrees : pushed[w] = <<>> /\ attribution[w] = None
      /\ DOMAIN <<>> = {} /\ Len(<<>>) = 0
  BY <1>1, Constants
<1>3. Placed(stage, pushed, attribution, gateQ, answers, worker, watcher)
  BY <1>1, <1>2 DEF Placed, InOrder, Unanswered
<1>4. Dispatching(stage, gateQ) /\ Claimed(claims, superseded, watcher, answers)
  BY <1>1, <1>2 DEF Dispatching, Claimed
<1>5. Found(stage, pushed, attribution, gateQ, answers, superseded, watcher, abandoned)
  BY <1>2 DEF Found
<1>6. Compiling = {}
  BY <1>2 DEF Compiling
<1>7. Counted
  BY <1>1, <1>6, FS_EmptySet, Constants DEF Counted
<1>8. InFlight /\ Lifecycle
  BY <1>1, <1>2 DEF InFlight, Tracked, Lifecycle
<1>9. Safe
  BY <1>3, <1>4, <1>5, <1>7, <1>8 DEF Safe
<1>10. Routed
  <2>1. /\ [inc |-> 0, alive |-> FALSE, text |-> None] \in Analyzer
        /\ [natives |-> MaxNatives, stalls |-> MaxStalls, idles |-> MaxIdles]
             \in [natives : Nat, stalls : Nat, idles : Nat]
    BY ServeConstants DEF Analyzer
  <2>2. pushed \in [Worktrees -> Seq(Pushes)] /\ \A w \in Worktrees : Len(pushed[w]) <= QueueCap
    BY <1>1, <1>2, Constants
  <2>3. FreshCluster.fence < FreshCluster.nextGen
    BY FreshTypes
  <2> QED  BY <1>1, <2>1, <2>2, <2>3, FreshTypes DEF Init, Routed
<1>11. Told
  <2>1. <<>> \in Seq(Verdicts)
    OBVIOUS
  <2> QED  BY <2>1 DEF Init, Told
<1>12. Looped
  BY DEF Init, Looped
<1>13. Processes
  <2>1. <<>> \in Seq(1..spawns) /\ <<>> \in Seq(LspEvent)
    OBVIOUS
  <2> QED  BY <1>1, <2>1, FreshTypes DEF Init, Processes
<1>14. Witnesses
  <2>1. <<>> \in Seq(Gates) /\ [at |-> "none", err |-> FALSE, got |-> "nothing"] \in Watch
    BY DEF Watch
  <2> QED  BY <1>1, <2>1 DEF Witnesses
<1> QED  BY <1>9, <1>10, <1>11, <1>12, <1>13, <1>14, TypeParts

-----------------------------------------------------------------------------
(* What follows from the places alone.                                     *)

LEMMA SafeStutter ==
  ASSUME TypeOK, Safe, UNCHANGED vars
  PROVE  (TypeOK /\ Safe)'
<1>1. UNCHANGED <<apiVars, loopVars, raVars, witnessVars>>
  BY DEF vars
<1>2. Routed' /\ Told' /\ Looped' /\ Processes' /\ Witnesses'
  BY <1>1, TypeParts DEF Routed, Told, Looped, Processes, Witnesses,
                          apiVars, loopVars, raVars, witnessVars
<1>3. /\ Standing /\ abandoned' = abandoned /\ members' = members /\ driver' = driver
      /\ cluster' = cluster /\ ctrl' = ctrl
  BY <1>1 DEF Standing, apiVars, loopVars, raVars, witnessVars
<1>4. Lifecycle' /\ InFlight'
  BY <1>3 DEF Lifecycle, InFlight, Tracked, Standing, Safe
<1> QED  BY <1>2, <1>3, <1>4, TypePartsAfter, StandingSafe

LEMMA AlwaysSafe == Spec => [](TypeOK /\ Safe)
<1>1. TypeOK /\ Safe /\ [Next]_vars => (TypeOK /\ Safe)'
  BY TypeStep, SafeStep, SafeStutter DEF Safe
<1> QED  BY <1>1, InitSafe, PTL DEF Spec

\* Every variable of the push path keeps its type, queues their caps.
THEOREM TypeCorrect == Spec => []TypeOK
BY AlwaysSafe, PTL

\* The counter of the compile gate is the number of compiles that run and stays
\* within the limit, for every limit: claimed under the lock that saw a slot
\* free, given back once by whoever held one, whatever the watchdog gave up on.
THEOREM GateIsSound == Spec => []SlotsAreCompiles
<1>1. Safe => SlotsAreCompiles
  BY DEF Safe, Counted, Compiling, SlotsAreCompiles
<1> QED  BY <1>1, AlwaysSafe, PTL

\* No push gets a second verdict: the respawn drain, the watchdog, a late
\* worker, a failed spawn and the settle of its transaction exclude each other.
THEOREM OneVerdictEach == Spec => []AnsweredOnce
<1>1. Safe => AnsweredOnce
  BY DEF Safe, Placed, Unanswered, AnsweredOnce
<1> QED  BY <1>1, AlwaysSafe, PTL

\* An accepted push without a verdict is still somewhere it can get one from;
\* only the teardown of an idle cluster in the middle of its analysis may lose it.
THEOREM NoPushVanishes == Spec => []NothingVanishes
<1>1. TypeOK /\ Safe => NothingVanishes
  <2> SUFFICES ASSUME TypeOK, Safe, NEW p \in Pushes, Owed(p)
               PROVE  \/ Contains(pushed[WtOf[p]], p) \/ attribution[WtOf[p]] = p
                      \/ Contains(gateQ, p) \/ watcher[p].at \in {"watching", "publishing"}
                      \/ p \in abandoned
    BY DEF NothingVanishes
  <2>1. /\ stage[p] \in {"stored", "accepted"} /\ answers[p] = <<>> /\ p \notin superseded
    BY DEF Owed
  <2>2. \/ Holds(pushed, p) \/ attribution[WtOf[p]] = p \/ Sent(gateQ, p)
        \/ watcher[p].at # "none" \/ p \in abandoned
    BY <2>1 DEF Safe, Found
  <2>3. /\ Holds(pushed, p) => Contains(pushed[WtOf[p]], p)
        /\ Sent(gateQ, p) => Contains(gateQ, p)
    <3>1. pushed[WtOf[p]] \in Seq(Pushes) /\ gateQ \in Seq(Gates)
      BY PlaceTypes
    <3> QED  BY <3>1, ContainsIs DEF Holds, Sent
  <2>4. watcher[p].at \in {"none", "watching", "dropped", "done", "publishing"}
    BY DEF TypeOK, Watch
  <2>5. watcher[p].at # "dropped" /\ watcher[p].at # "done"
    BY <2>1 DEF Safe, Claimed
  <2> QED  BY <2>2, <2>3, <2>4, <2>5
<1> QED  BY <1>1, AlwaysSafe, PTL

-----------------------------------------------------------------------------
(* A push that is alone on its worktree.                                   *)

LEMMA AloneFacts ==
  ASSUME TypeOK, Safe, NEW p \in Pushes, Alone(p)
  PROVE  LET w == WtOf[p]
         IN  /\ w \in Worktrees /\ pushed[w] \in Seq(Pushes)
             /\ ~(Len(pushed[w]) > 1)
             /\ Holds(pushed, p) => pushed[w] # <<>> /\ HeadOf(pushed, w) = p
             /\ pushed[w] # <<>> => Holds(pushed, p)
             /\ pushed[w] = <<>> => HeadOf(pushed, w) = None
             /\ ~Holds(Popped(pushed, w), p)
             /\ attribution[w] \in {None, p}
             /\ \A q \in Pushes : WtOf[q] = w /\ (stage[q] # "new" \/ watcher[q].at # "none") => q = p
<1> DEFINE w == WtOf[p]
           s == pushed[w]
<1>1. /\ w \in Worktrees /\ s \in Seq(Pushes) /\ attribution[w] \in Pushes \cup {None}
      /\ p # None /\ pushed \in Queues /\ attribution \in Attributions
      /\ InOrder(stage, s, attribution[w], w)
  BY PlaceTypes DEF Placed, Safe
<1>2. \A q \in Pushes : WtOf[q] = w /\ stage[q] # "new" => q = p
  BY DEF Alone
<1>3. \A q \in Pushes : Stored(stage, q) => stage[q] # "new"
  BY DEF Stored
<1>4. \A i \in DOMAIN s : i \in Nat /\ s[i] = p
  BY <1>1, <1>2, <1>3, Positions DEF InOrder
<1>5. attribution[w] \in {None, p}
  BY <1>1, <1>2, <1>3 DEF InOrder
<1>6. \A i, j \in DOMAIN s : i = j
  BY <1>1, <1>4 DEF InOrder
<1>7. Len(s) \in Nat /\ DOMAIN s = 1..Len(s) /\ (s # <<>> <=> 1 \in DOMAIN s)
  BY <1>1, Positions
<1>8. ~(Len(s) > 1)
  BY <1>6, <1>7
<1>9. s # <<>> => Holds(pushed, p) /\ HeadOf(pushed, w) = p
  <2>1. ASSUME s # <<>>  PROVE Holds(pushed, p) /\ HeadOf(pushed, w) = p
    <3>1. Head(s) = s[1] /\ s[1] = p /\ 1 \in DOMAIN s
      BY <1>1, <1>4, <1>7, <2>1, TailPositions
    <3> QED  BY <2>1, <3>1 DEF Holds, HeadOf
  <2> QED  BY <2>1
<1>10. s = <<>> => HeadOf(pushed, w) = None /\ ~Holds(pushed, p)
  BY <1>7 DEF HeadOf, Holds
<1>11. ~Holds(Popped(pushed, w), p)
  <2>1. CASE s # <<>>
    BY <1>1, <1>9, <2>1, PoppedIs
  <2>2. CASE s = <<>>
    <3>1. Holds(Popped(pushed, w), p) => Holds(pushed, p)
      BY <1>1, PoppedIs
    <3> QED  BY <1>10, <2>2, <3>1
  <2> QED  BY <2>1, <2>2
<1>12. \A q \in Pushes : stage[q] = "new" => watcher[q].at = "none"
  BY DEF Safe, Placed, Unanswered, Untouched
<1> QED  BY <1>1, <1>2, <1>5, <1>8, <1>9, <1>10, <1>11, <1>12

\* Batches of other worktrees do not touch it.
Beside(w, p, drv, cl, attr) ==
  /\ Holds(pushed', p) <=> Holds(pushed, p)
  /\ attribution'[w] = attr[w]
  /\ w \in signals' <=> w \in signals
  /\ Contains(cluster'.deferred, w) <=> Contains(cl.deferred, w)
  /\ Contains(driver'.pending, w) <=> Contains(drv.pending, w)
  /\ driver'.current.wt = w <=> drv.current.wt = w
  /\ drv.current.wt = w => driver'.recheck = drv.recheck

LEMMA SwitchBeside ==
  ASSUME pushed \in Queues, NEW v \in Worktrees, NEW p \in Pushes, WtOf[p] # v,
         NEW cl \in Cluster, NEW an, NEW attr \in Attributions, Switch(v, cl, an, attr)
  PROVE  /\ Holds(pushed', p) <=> Holds(pushed, p)
         /\ attribution'[WtOf[p]] = attr[WtOf[p]]
         /\ WtOf[p] \in signals' <=> WtOf[p] \in signals
         /\ cluster'.deferred = cl.deferred
<1>1. /\ pushed' = Popped(pushed, v) /\ attribution' = [attr EXCEPT ![v] = HeadOf(pushed, v)]
      /\ signals' = signals \cup (IF Len(pushed[v]) > 1 THEN {v} ELSE {})
  BY SwitchTakes
<1>2. WtOf[p] \in Worktrees
  BY Constants
<1>3. pushed'[WtOf[p]] = pushed[WtOf[p]] /\ attribution'[WtOf[p]] = attr[WtOf[p]]
  BY <1>1, <1>2 DEF Popped, Queues, Attributions
<1>4. Holds(pushed', p) <=> Holds(pushed, p)
  BY <1>3 DEF Holds
<1>5. cluster'.deferred = cl.deferred
  BY DEF Switch, WriteOk, WriteFails, NoClient, Cluster
<1>6. WtOf[p] \in signals' <=> WtOf[p] \in signals
  BY <1>1
<1> QED  BY <1>3, <1>4, <1>5, <1>6

LEMMA RoutedBatchBeside ==
  ASSUME pushed \in Queues, NEW v \in Worktrees, NEW p \in Pushes, WtOf[p] # v,
         NEW drv \in Driver, IsInjective(drv.pending),
         NEW cl \in Cluster, NEW an, NEW attr \in Attributions, RoutedBatch(v, drv, cl, an, attr)
  PROVE  Beside(WtOf[p], p, drv, cl, attr)
<1> DEFINE w == WtOf[p]
<1>1. w \in Worktrees /\ w # None /\ NoTxn.wt = None
  BY Constants, TxnFields
<1>2. CASE drv.current = NoTxn
  <2>1. driver' = Arm(drv, v) /\ Switch(v, cl, an, attr)
    BY <1>2 DEF RoutedBatch
  <2>2. driver'.pending = drv.pending /\ driver'.current = Txn(v)
    BY <2>1, ArmTypes
  <2>3. driver'.current.wt = v
    BY <2>2, TxnFields
  <2>4. /\ Holds(pushed', p) <=> Holds(pushed, p)
        /\ attribution'[w] = attr[w]
        /\ w \in signals' <=> w \in signals
        /\ cluster'.deferred = cl.deferred
    BY <2>1, SwitchBeside
  <2> QED  BY <1>1, <1>2, <2>2, <2>3, <2>4 DEF Beside
<1>3. CASE drv.current # NoTxn
  <2>1. /\ driver' = Queue(drv, v) /\ cluster' = cl /\ attribution' = attr
        /\ pushed' = pushed /\ signals' = signals
    BY <1>3 DEF RoutedBatch
  <2>2. /\ driver'.current = drv.current
        /\ v = drv.current.wt => driver'.pending = drv.pending
        /\ v # drv.current.wt =>
             /\ driver'.recheck = drv.recheck
             /\ \A x : Contains(driver'.pending, x) <=> Contains(drv.pending, x) \/ x = v
    BY <2>1, QueueTypes
  <2>3. Contains(driver'.pending, w) <=> Contains(drv.pending, w)
    BY <2>2
  <2> QED  BY <2>1, <2>2, <2>3 DEF Beside
<1> QED  BY <1>2, <1>3

LEMMA RouteOrDeferBeside ==
  ASSUME pushed \in Queues, NEW v \in Worktrees, NEW p \in Pushes, WtOf[p] # v,
         NEW drv \in Driver, IsInjective(drv.pending),
         NEW cl \in Cluster, NEW an, NEW attr \in Attributions, RouteOrDefer(v, drv, cl, an, attr)
  PROVE  Beside(WtOf[p], p, drv, cl, attr)
<1> DEFINE w == WtOf[p]
<1>1. CASE cl.ready
  BY <1>1, RoutedBatchBeside DEF RouteOrDefer
<1>2. CASE ~cl.ready
  <2> DEFINE q == IF Contains(cl.deferred, v) THEN cl.deferred ELSE Append(cl.deferred, v)
  <2>1. /\ cluster' = [cl EXCEPT !.deferred = q]
        /\ driver' = drv /\ attribution' = attr /\ pushed' = pushed /\ signals' = signals
    BY <1>2 DEF RouteOrDefer
  <2>2. \A x : x # v => (Contains(q, x) <=> Contains(cl.deferred, x))
    BY AppendUnique DEF Cluster
  <2> HIDE DEF q
  <2>3. cluster'.deferred = q
    BY <2>1 DEF Cluster
  <2>4. Contains(cluster'.deferred, w) <=> Contains(cl.deferred, w)
    BY <2>2, <2>3
  <2> QED  BY <2>1, <2>4 DEF Beside
<1> QED  BY <1>1, <1>2

\* Its own batch makes it the transaction in flight, or one token waits for it.
Landed(w, p, drv, attr) ==
  \/ /\ driver'.current.wt = w /\ attribution'[w] = p /\ driver'.recheck = drv.recheck
     /\ drv.current = NoTxn
     /\ ~Contains(driver'.pending, w) /\ ~Contains(cluster'.deferred, w)
  \/ /\ driver'.current.wt # w /\ Holds(pushed', p) /\ attribution'[w] = attr[w]
     /\ ~(Contains(driver'.pending, w) /\ Contains(cluster'.deferred, w))

LEMMA RoutedBatchOwn ==
  ASSUME TypeOK, Safe, NEW p \in Pushes, Alone(p), Holds(pushed, p),
         NEW drv \in Driver, IsInjective(drv.pending), drv.current.wt # WtOf[p],
         ~Contains(drv.pending, WtOf[p]),
         NEW cl \in Cluster, NEW an, NEW attr \in Attributions, ~Contains(cl.deferred, WtOf[p]),
         RoutedBatch(WtOf[p], drv, cl, an, attr)
  PROVE  Landed(WtOf[p], p, drv, attr) /\ signals' = signals
<1> DEFINE w == WtOf[p]
<1>1. /\ w \in Worktrees /\ ~(Len(pushed[w]) > 1) /\ HeadOf(pushed, w) = p
      /\ w # None /\ NoTxn.wt = None
  BY AloneFacts, Constants, TxnFields
<1>2. CASE drv.current = NoTxn
  <2>1. driver' = Arm(drv, w) /\ Switch(w, cl, an, attr)
    BY <1>2 DEF RoutedBatch
  <2>2. driver'.pending = drv.pending /\ driver'.current = Txn(w) /\ driver'.recheck = drv.recheck
    BY <1>1, <2>1, ArmTypes
  <2>3. driver'.current.wt = w
    BY <1>1, <2>2, TxnFields
  <2>4. /\ attribution' = [attr EXCEPT ![w] = HeadOf(pushed, w)]
        /\ signals' = signals \cup (IF Len(pushed[w]) > 1 THEN {w} ELSE {})
    BY <2>1, SwitchTakes
  <2>5. attribution'[w] = p /\ signals' = signals
    BY <1>1, <2>4 DEF Attributions
  <2>6. cluster'.deferred = cl.deferred
    BY <2>1 DEF Switch, WriteOk, WriteFails, NoClient, Cluster
  <2> QED  BY <1>2, <2>2, <2>3, <2>5, <2>6 DEF Landed
<1>3. CASE drv.current # NoTxn
  <2>1. /\ driver' = Queue(drv, w) /\ cluster' = cl /\ attribution' = attr
        /\ pushed' = pushed /\ signals' = signals
    BY <1>3 DEF RoutedBatch
  <2>2. driver'.current = drv.current
    BY <1>1, <2>1, QueueTypes
  <2> QED  BY <2>1, <2>2 DEF Landed
<1> QED  BY <1>2, <1>3

LEMMA RouteOrDeferOwn ==
  ASSUME TypeOK, Safe, NEW p \in Pushes, Alone(p), Holds(pushed, p),
         NEW drv \in Driver, IsInjective(drv.pending), drv.current.wt # WtOf[p],
         ~Contains(drv.pending, WtOf[p]),
         NEW cl \in Cluster, NEW an, NEW attr \in Attributions, ~Contains(cl.deferred, WtOf[p]),
         RouteOrDefer(WtOf[p], drv, cl, an, attr)
  PROVE  Landed(WtOf[p], p, drv, attr) /\ signals' = signals
<1>1. CASE cl.ready
  BY <1>1, RoutedBatchOwn DEF RouteOrDefer
<1>2. CASE ~cl.ready
  <2>1. driver' = drv /\ attribution' = attr /\ pushed' = pushed /\ signals' = signals
    BY <1>2 DEF RouteOrDefer
  <2> QED  BY <2>1 DEF Landed
<1> QED  BY <1>1, <1>2

\* An idle driver has nothing to re-check.
LEMMA RestedStep ==
  ASSUME TypeOK, driver.current = NoTxn => ~driver.recheck, Lifecycle, Next
  PROVE  driver'.current = NoTxn => ~driver'.recheck
<1>0. /\ driver \in Driver /\ IsInjective(driver.pending) /\ \A w \in Worktrees : Txn(w) # NoTxn
      /\ FreshDriver \in Driver /\ IsInjective(FreshDriver.pending) /\ ~FreshDriver.recheck
  BY FreshTypes DEF TypeOK
<1>1. ASSUME NEW w \in Worktrees, NEW drv \in Driver, IsInjective(drv.pending), NEW cl, NEW an, NEW attr,
             drv.current = NoTxn => ~drv.recheck, RoutedBatch(w, drv, cl, an, attr)
      PROVE  driver'.current = NoTxn => ~driver'.recheck
  <2>1. CASE drv.current = NoTxn
    BY <1>0, <1>1, <2>1, ArmTypes DEF RoutedBatch
  <2>2. CASE drv.current # NoTxn
    BY <1>1, <2>2, QueueTypes DEF RoutedBatch
  <2> QED  BY <2>1, <2>2
<1>2. ASSUME NEW w \in Worktrees, NEW drv \in Driver, IsInjective(drv.pending), NEW cl, NEW an, NEW attr,
             drv.current = NoTxn => ~drv.recheck, RouteOrDefer(w, drv, cl, an, attr)
      PROVE  driver'.current = NoTxn => ~driver'.recheck
  <2>1. CASE cl.ready
    BY <1>1, <1>2, <2>1 DEF RouteOrDefer
  <2>2. CASE ~cl.ready
    BY <1>2, <2>2 DEF RouteOrDefer
  <2> QED  BY <2>1, <2>2
<1>3. ASSUME driver' = driver  PROVE driver'.current = NoTxn => ~driver'.recheck
  BY <1>3
<1>4. CASE Round
  BY <1>0, <1>3, <1>4 DEF Round, ResetAfterRespawn, Driver
<1>5. CASE \E w \in Worktrees : PushKeyRoutes(w) \/ PushKeySpawns(w) \/ PushKeyFails(w)
  <2>1. PICK w \in Worktrees : PushKeyRoutes(w) \/ PushKeySpawns(w) \/ PushKeyFails(w)
    BY <1>5
  <2>2. CASE PushKeyRoutes(w)
    BY <1>0, <1>2, <2>2 DEF PushKeyRoutes
  <2>3. CASE PushKeySpawns(w)
    <3>1. \E cl, an, attr : RouteOrDefer(w, FreshDriver, cl, an, attr)
      BY <2>3 DEF PushKeySpawns
    <3> QED  BY <1>0, <1>2, <3>1
  <2>4. CASE PushKeyFails(w)
    BY <1>3, <2>4 DEF PushKeyFails
  <2> QED  BY <2>1, <2>2, <2>3, <2>4
<1>6. CASE EventObserved
  <2>1. /\ driver.current # NoTxn
        /\ driver' = [driver EXCEPT !.current.real = TRUE,
                                    !.current.err = driver.current.err \/ Head(events).err]
    BY <1>6 DEF EventObserved
  <2>2. driver.current \in Transaction
    BY <1>0, <2>1, InTransaction
  <2>3. driver'.current.wt = driver.current.wt /\ driver.current.wt \in Worktrees
    BY <1>0, <2>1, <2>2 DEF Driver, Transaction
  <2> QED  BY <2>3, TxnFields
<1>7. CASE EventSettles
  <2>1. driver.current # NoTxn /\ driver' = AfterSettle(driver)
    BY <1>7 DEF EventSettles
  <2> QED  BY <1>0, <2>1, AfterSettleTypes
<1>8. CASE RouteDeferred
  <2> DEFINE w == Head(cluster.deferred)
  <2>1. cluster.deferred # <<>> /\ \E cl : RoutedBatch(w, driver, cl, ra, attribution)
    BY <1>8 DEF RouteDeferred
  <2>2. w \in Worktrees
    BY <2>1, TailPositions DEF TypeOK, Cluster
  <2> HIDE DEF w
  <2> QED  BY <1>0, <1>1, <2>1, <2>2
<1>9. ASSUME NEW w \in Worktrees, Deactivate(w)  PROVE driver'.current = NoTxn => ~driver'.recheck
  <2>1. CASE members = {w}
    BY <1>0, <1>9, <2>1 DEF Deactivate
  <2>2. CASE members # {w}
    <3> DEFINE q == RemoveFirst(driver.pending, w)
               b == driver.recheck /\ driver.current.wt # w
    <3>1. driver' = [driver EXCEPT !.pending = q, !.recheck = b]
      BY <1>9, <2>2 DEF Deactivate
    <3> HIDE DEF q
    <3>2. driver'.current = driver.current /\ driver'.recheck = b
      BY <1>0, <3>1 DEF Driver
    <3> QED  BY <3>2
  <2> QED  BY <2>1, <2>2
<1>10. CASE EventIgnored \/ EventIndexed \/ ExitDrained \/ KeysDone \/ RoundEnds
  BY <1>3, <1>10 DEF EventIgnored, EventIndexed, ExitDrained, KeysDone, RoundEnds
<1>11. CASE \E p \in Pushes : Client(p) \/ WitnessStep(p)
  BY <1>3, <1>11 DEF Client, Admit, Replace, Enqueue, Signal, SendGate, WitnessStep, Acquire,
     WorkerSends, WorkerEnds, Watcher, WatcherHears, WatchdogFires, WatcherPublishes, Settle, loopVars
<1>12. CASE DispatchGate \/ RaRespawns \/ RaNotifies \/ RaDies \/ RequestQuiesce \/ \E q \in pulls : Pull(q)
  BY <1>3, <1>12 DEF DispatchGate, RaRespawns, RaNotifies, RaDies, RequestQuiesce, Pull, PullReports,
     PullFails, loopVars
<1> QED  BY <1>4, <1>5, <1>6, <1>7, <1>8, <1>9, <1>10, <1>11, <1>12 DEF Next, LoopStep, Environment

LEMMA StageForward ==
  ASSUME TypeOK, Next, NEW q \in Pushes, stage[q] # "new"
  PROVE  stage'[q] # "new"
<1>1. ASSUME NEW p \in Pushes, Client(p)  PROVE stage'[q] # "new"
  BY <1>1 DEF Client, Admit, Replace, Enqueue, Signal, SendGate, TypeOK
<1>2. ASSUME NEW p \in Pushes, WitnessStep(p)  PROVE stage' = stage
  BY <1>2 DEF WitnessStep, Acquire, WorkerSends, WorkerEnds, Watcher, WatcherHears, WatchdogFires,
     WatcherPublishes, Settle, apiVars
<1>3. CASE LoopStep
  BY <1>3 DEF LoopStep, ExitDrained, Round, KeysDone, PushKeyRoutes, PushKeySpawns, PushKeyFails,
     TakeKey, EventIgnored, EventObserved, EventSettles, EventIndexed, TakeEvent, RouteDeferred,
     RoundEnds, apiVars
<1>4. CASE DispatchGate \/ RaRespawns \/ Environment \/ \E k \in pulls : Pull(k)
  BY <1>4 DEF DispatchGate, RaRespawns, Environment, RaNotifies, RaDies, RequestQuiesce, Deactivate,
     Pull, PullReports, PullFails, apiVars
<1> QED  BY <1>1, <1>2, <1>3, <1>4 DEF Next

\* A step that takes nothing from the push's account.
AsBefore(p) ==
  LET w == WtOf[p]
  IN  /\ stage'[p] = stage[p] /\ (Holds(pushed, p) => Holds(pushed', p))
      /\ \/ (w \in signals' => w \in signals) /\ (w \in keys' => w \in keys)
         \/ w \notin signals' /\ (w \in keys' => w \in signals)
      /\ Contains(cluster'.deferred, w) => Contains(cluster.deferred, w)
      /\ Contains(driver'.pending, w) => Contains(driver.pending, w)
      /\ driver'.current.wt = w =>
           /\ driver.current.wt = w /\ attribution'[w] = attribution[w]
           /\ driver'.recheck => driver.recheck
      /\ answers[p] # <<>> => answers'[p] # <<>>
      /\ superseded \subseteq superseded'
      /\ \/ w \in activeWts => w \in activeWts'
         \/ answers'[p] # <<>> /\ stage[p] # "admitted"

LEMMA WokenKept ==
  ASSUME NEW p \in Pushes, Woken(p), AsBefore(p)
  PROVE  Woken(p)'
<1> DEFINE w == WtOf[p]
<1>1. Owed(p)' => Owed(p) /\ answers'[p] = <<>>
  BY DEF Owed, AsBefore
<1>2. Holds(pushed, p) => Holds(pushed, p)'
  BY DEF AsBefore, Holds
<1>3. Waits(w)' => Waits(w)
  BY DEF Waits, AsBefore
<1>4. Waits(w)' => Holds(pushed, p)' /\ stage'[p] = "accepted" /\ driver'.current.wt # w
  BY <1>2, <1>3 DEF Woken, AsBefore
<1>5. /\ w \in signals' => /\ w \notin keys' /\ ~Contains(cluster'.deferred, w)
                           /\ ~Contains(driver'.pending, w)
      /\ w \in keys' => ~Contains(cluster'.deferred, w) /\ ~Contains(driver'.pending, w)
      /\ Contains(cluster'.deferred, w) => ~Contains(driver'.pending, w)
  BY DEF Woken, AsBefore
<1>6. /\ driver'.current.wt = w => /\ attribution'[w] = p /\ stage'[p] = "accepted"
                                   /\ ~driver'.recheck
      /\ stage'[p] = "stored" => Holds(pushed, p)'
  BY <1>2 DEF Woken, AsBefore
<1>7. Owed(p)' \/ stage'[p] = "admitted" => w \in activeWts'
  BY <1>1 DEF Woken, AsBefore
<1> QED  BY <1>4, <1>5, <1>6, <1>7 DEF Woken

LEMMA ClientWoken ==
  ASSUME TypeOK, Safe, NEW p \in Pushes, Alone(p), Alone(p)', Woken(p), NEW q \in Pushes, Client(q)
  PROVE  Woken(p)'
<1> DEFINE w == WtOf[p]
<1>1. /\ stage \in [Pushes -> {"new", "admitted", "stored", "accepted", "rejected"}]
      /\ pushed \in [Worktrees -> Seq(Pushes)] /\ w \in Worktrees /\ WtOf[q] \in Worktrees
  BY PlaceTypes DEF TypeOK
<1>2. /\ UNCHANGED <<loopVars, attribution, answers>>
      /\ \A x \in Pushes \ {q} : stage'[x] = stage[x] /\ stage'[q] # "new"
      /\ \A v \in Worktrees \ {WtOf[q]} : pushed'[v] = pushed[v]
      /\ \A v \in Worktrees \ {WtOf[q]} : /\ v \in signals' <=> v \in signals
                                          /\ v \in activeWts' <=> v \in activeWts
      /\ superseded \subseteq superseded'
  BY <1>1 DEF Client, Admit, Replace, Enqueue, Signal, SendGate
<1>3. keys' = keys /\ cluster' = cluster /\ driver' = driver
  BY <1>2 DEF loopVars
<1>4. CASE q # p
  <2>1. WtOf[q] # w
    BY <1>2, <1>4 DEF Alone
  <2>2. AsBefore(p)
    BY <1>1, <1>2, <1>3, <1>4, <2>1 DEF AsBefore, Holds
  <2> QED  BY <2>2, WokenKept
<1>5. CASE q = p
  <2>1. CASE Admit(p)
    <3>1. /\ stage[p] = "new" /\ pushed' = pushed /\ signals' = signals /\ superseded' = superseded
          /\ \/ stage'[p] = "rejected"
             \/ stage'[p] = "admitted" /\ w \in activeWts'
      BY <1>1, <2>1 DEF Admit
    <3>2. ~Waits(w) /\ driver.current.wt # w
      BY <3>1 DEF Woken
    <3> QED  BY <1>2, <1>3, <3>1, <3>2 DEF Woken, Waits, Owed
  <2>2. CASE Replace(p) \/ Enqueue(p) \/ SendGate(p)
    <3>1. /\ stage[p] = "admitted" /\ signals' = signals
          /\ \/ stage'[p] = "rejected"
             \/ stage'[p] \in {"stored", "accepted"} /\ activeWts' = activeWts
          /\ stage'[p] = "stored" => Replace(p) \/ (Enqueue(p) /\ pushed' = [pushed EXCEPT ![w] = Append(@, p)])
      BY <1>1, <2>2 DEF Replace, Enqueue, SendGate
    <3>2. ~Waits(w) /\ driver.current.wt # w /\ w \in activeWts
      BY <3>1 DEF Woken
    <3>3. stage'[p] = "stored" => Holds(pushed, p)'
      <4>1. CASE Replace(p)
        <5>1. PICK n \in SameCommit(p) : pushed' = [pushed EXCEPT ![w][n] = p]
          BY <4>1 DEF Replace
        <5>2. n \in DOMAIN pushed[w]
          BY DEF SameCommit
        <5>3. n \in DOMAIN pushed'[w] /\ pushed'[w][n] = p
          BY <1>1, <5>1, <5>2
        <5> QED  BY <5>3 DEF Holds
      <4>2. CASE pushed' = [pushed EXCEPT ![w] = Append(@, p)]
        <5>1. /\ Len(pushed[w]) + 1 \in DOMAIN Append(pushed[w], p)
              /\ Append(pushed[w], p)[Len(pushed[w]) + 1] = p
          BY <1>1, AppendPositions
        <5>2. pushed'[w] = Append(pushed[w], p)
          BY <1>1, <4>2
        <5> QED  BY <5>1, <5>2 DEF Holds
      <4> QED  BY <3>1, <4>1, <4>2
    <3> QED  BY <1>2, <1>3, <3>1, <3>2, <3>3 DEF Woken, Waits, Owed
  <2>3. CASE Signal(p)
    <3>1. /\ stage[p] = "stored" /\ stage'[p] = "accepted" /\ pushed' = pushed /\ activeWts' = activeWts
          /\ signals' = signals \cup {w} /\ superseded' = superseded
      BY <1>1, <2>3 DEF Signal
    <3>2. ~Waits(w) /\ driver.current.wt # w /\ Holds(pushed, p) /\ Holds(pushed, p)'
      BY <3>1 DEF Woken, Holds
    <3> QED  BY <1>2, <1>3, <3>1, <3>2 DEF Woken, Waits, Owed
  <2> QED  BY <1>5, <2>1, <2>2, <2>3 DEF Client
<1> QED  BY <1>4, <1>5

LEMMA WitnessWoken ==
  ASSUME TypeOK, Safe, NEW p \in Pushes, Alone(p), Woken(p),
         DispatchGate \/ \E q \in Pushes : WitnessStep(q)
  PROVE  Woken(p)'
<1>1. UNCHANGED <<stage, pushed, attribution, signals, loopVars>>
  BY DEF DispatchGate, WitnessStep, Acquire, WorkerSends, WorkerEnds, Watcher, WatcherHears,
         WatchdogFires, WatcherPublishes, Settle, apiVars
<1>2. keys' = keys /\ cluster' = cluster /\ driver' = driver
  BY <1>1 DEF loopVars
<1>3. CASE \E q \in Pushes : WatcherPublishes(q)
  <2>1. PICK q \in Pushes : WatcherPublishes(q)
    BY <1>3
  <2>2. /\ watcher[q].at = "publishing" /\ superseded' = superseded
        /\ activeWts' = activeWts \ {WtOf[q]}
        /\ answers' = [answers EXCEPT ![q] = Append(@, watcher[q].got)]
        /\ q # None
    BY <2>1, Constants DEF WatcherPublishes, Publish, Answer
  <2>3. answers \in [Pushes -> Seq(Verdicts)] /\ watcher[q] \in Watch
    BY DEF TypeOK
  <2>4. answers'[q] # <<>> /\ \A x \in Pushes : x # q => answers'[x] = answers[x]
    <3>1. watcher[q].got \in Verdicts
      BY <2>2, <2>3 DEF Watch
    <3> QED  BY <2>2, <2>3, <3>1, OneMore
  <2>5. WtOf[q] = WtOf[p] => q = p /\ stage[p] # "admitted"
    <3>1. WtOf[q] = WtOf[p] => q = p
      BY <2>2, AloneFacts
    <3>2. stage[q] # "admitted"
      BY <2>2 DEF Safe, Placed, Unanswered, Untouched
    <3> QED  BY <3>1, <3>2
  <2>6. AsBefore(p)
    BY <1>1, <1>2, <2>2, <2>4, <2>5 DEF AsBefore
  <2> QED  BY <2>6, WokenKept
<1>4. CASE ~\E q \in Pushes : WatcherPublishes(q)
  <2>1. /\ answers' = answers /\ activeWts' = activeWts /\ superseded \subseteq superseded'
    BY <1>4 DEF DispatchGate, Begin, WitnessStep, Acquire, WorkerSends, WorkerEnds, Watcher,
                WatcherHears, WatchdogFires, Settle, apiVars
  <2>2. AsBefore(p)
    BY <1>1, <1>2, <2>1 DEF AsBefore
  <2> QED  BY <2>2, WokenKept
<1> QED  BY <1>3, <1>4

\* Deadlines, respawns and the steps of the loop that route nothing.
LEMMA RestWoken ==
  ASSUME TypeOK, NEW p \in Pushes, Woken(p),
         \/ RaRespawns \/ RaNotifies \/ RaDies \/ RequestQuiesce \/ KeysDone \/ RoundEnds
         \/ ExitDrained \/ EventIgnored \/ EventObserved \/ EventIndexed
         \/ \E q \in pulls : Pull(q)
  PROVE  Woken(p)'
<1>1. CASE \/ RaRespawns \/ RaNotifies \/ RaDies \/ RequestQuiesce \/ KeysDone \/ RoundEnds
           \/ ExitDrained \/ \E q \in pulls : Pull(q)
  <2>1. /\ UNCHANGED <<stage, pushed, attribution, signals, answers, activeWts, superseded>>
        /\ UNCHANGED <<keys, cluster, driver>>
    BY <1>1 DEF RaRespawns, RaNotifies, RaDies, RequestQuiesce, KeysDone, RoundEnds, ExitDrained,
       Pull, PullReports, PullFails, apiVars, loopVars
  <2>2. AsBefore(p)
    BY <2>1 DEF AsBefore
  <2> QED  BY <2>2, WokenKept
<1>2. CASE EventIgnored \/ EventObserved \/ EventIndexed
  <2>1. /\ UNCHANGED <<stage, pushed, attribution, signals, answers, activeWts, superseded>>
        /\ keys' = keys
    BY <1>2 DEF EventIgnored, EventObserved, EventIndexed, TakeEvent
  <2>2. cluster'.deferred = cluster.deferred
    BY <1>2 DEF EventIgnored, EventObserved, EventIndexed, Unfenced, TypeOK, Cluster
  <2>3. /\ driver'.pending = driver.pending /\ driver'.recheck = driver.recheck
        /\ driver'.current.wt = driver.current.wt
    <3>1. CASE EventIgnored \/ EventIndexed
      BY <3>1 DEF EventIgnored, EventIndexed
    <3>2. CASE EventObserved
      <4>1. /\ driver.current # NoTxn
            /\ driver' = [driver EXCEPT !.current.real = TRUE,
                                        !.current.err = driver.current.err \/ Head(events).err]
        BY <3>2 DEF EventObserved
      <4>2. driver \in Driver
        BY DEF TypeOK
      <4>3. driver.current \in Transaction
        BY <4>1, <4>2, InTransaction
      <4> QED  BY <4>1, <4>2, <4>3 DEF Driver, Transaction
    <3> QED  BY <1>2, <3>1, <3>2
  <2>4. AsBefore(p)
    BY <2>1, <2>2, <2>3 DEF AsBefore
  <2> QED  BY <2>4, WokenKept
<1> QED  BY <1>1, <1>2

LEMMA DeactivateWoken ==
  ASSUME TypeOK, NEW p \in Pushes, Woken(p), NEW v \in Worktrees, Deactivate(v)
  PROVE  Woken(p)'
<1>1. /\ UNCHANGED <<stage, pushed, attribution, signals, answers, activeWts, superseded>>
      /\ keys' = keys
  BY DEF Deactivate, apiVars
<1>2. /\ driver \in Driver /\ IsInjective(driver.pending) /\ WtOf[p] \in Worktrees
      /\ cluster \in Cluster
  BY Constants DEF TypeOK
<1>3. CASE members = {v}
  <2>1. driver' = FreshDriver /\ cluster' = FreshCluster
    BY <1>3 DEF Deactivate
  <2>2. /\ ~Contains(FreshDriver.pending, WtOf[p]) /\ ~Contains(FreshCluster.deferred, WtOf[p])
        /\ FreshDriver.current.wt # WtOf[p]
    <3>1. ~Contains(<<>>, WtOf[p])
      BY DEF Contains
    <3> QED  BY <1>2, <3>1, FreshTypes, TxnFields
  <2>3. AsBefore(p)
    BY <1>1, <2>1, <2>2 DEF AsBefore
  <2> QED  BY <2>3, WokenKept
<1>4. CASE members # {v}
  <2> DEFINE q == RemoveFirst(driver.pending, v)
             b == driver.recheck /\ driver.current.wt # v
  <2>1. driver' = [driver EXCEPT !.pending = q, !.recheck = b] /\ cluster' = cluster
    BY <1>4 DEF Deactivate
  <2>2. \A x : Contains(q, x) => Contains(driver.pending, x)
    BY <1>2, PruneUnique DEF Driver
  <2> HIDE DEF q
  <2>3. driver'.pending = q /\ driver'.recheck = b /\ driver'.current = driver.current
    BY <1>2, <2>1 DEF Driver
  <2>4. AsBefore(p)
    BY <1>1, <2>1, <2>2, <2>3 DEF AsBefore
  <2> QED  BY <2>4, WokenKept
<1> QED  BY <1>3, <1>4

\* What the drain at a handshake does to it.
LEMMA StrandedBeside ==
  ASSUME TypeOK, Safe, PublishStranded, NEW p \in Pushes, Alone(p)
  PROVE  /\ answers[p] # <<>> => answers'[p] # <<>>
         /\ \/ WtOf[p] \in activeWts => WtOf[p] \in activeWts'
            \/ answers'[p] # <<>> /\ stage[p] # "admitted"
<1> DEFINE w == WtOf[p]
<1>1. answers \in [Pushes -> Seq(Verdicts)] /\ "unknown" \in Verdicts
  BY DEF TypeOK, Verdicts
<1>2. /\ answers' = [x \in Pushes |-> IF x \in Stranded THEN Append(answers[x], "unknown")
                                      ELSE answers[x]]
      /\ activeWts' = activeWts \ {WtOf[x] : x \in Stranded}
  BY DEF PublishStranded
<1>3. p \in Stranded => answers'[p] # <<>>
  BY <1>1, <1>2, OneMore
<1>4. p \notin Stranded => answers'[p] = answers[p]
  BY <1>2
<1>5. ASSUME NEW q \in Stranded, WtOf[q] = w  PROVE q = p /\ stage[p] # "admitted"
  <2>1. PICK v \in Worktrees : attribution[v] = q /\ q # None
    BY DEF Stranded
  <2>2. WtOf[q] = v /\ Stored(stage, q)
    BY <2>1 DEF Safe, Placed, InOrder
  <2>3. q \in Pushes
    BY <2>1, PlaceTypes
  <2>4. q = p
    BY <1>5, <2>2, <2>3 DEF Alone, Stored
  <2> QED  BY <2>2, <2>4 DEF Stored
<1> QED  BY <1>2, <1>3, <1>4, <1>5

LEMMA RoundWoken ==
  ASSUME TypeOK, Safe, NEW p \in Pushes, Alone(p), Woken(p), Round
  PROVE  Woken(p)'
<1>1. /\ UNCHANGED <<stage, pushed, superseded>> /\ keys' = signals /\ signals' = {}
  BY DEF Round
<1>2. driver \in Driver /\ cluster \in Cluster /\ WtOf[p] # None
  BY Constants DEF TypeOK
<1>3. CASE ctrl # <<>> /\ members # {}
  <2>1. /\ PublishStranded /\ driver' = ResetAfterRespawn(driver)
        /\ cluster' = Handshaked(cluster, Last(ctrl))
    BY <1>3 DEF Round
  <2>2. /\ driver'.pending = driver.pending /\ driver'.current = NoTxn
        /\ cluster'.deferred = cluster.deferred
    BY <1>2, <2>1 DEF ResetAfterRespawn, Handshaked, Driver, Cluster
  <2>3. driver'.current.wt # WtOf[p]
    BY <1>2, <2>2, TxnFields
  <2>4. AsBefore(p)
    BY <1>1, <2>1, <2>2, <2>3, StrandedBeside DEF AsBefore
  <2> QED  BY <2>4, WokenKept
<1>4. CASE ~(ctrl # <<>> /\ members # {})
  <2>1. UNCHANGED <<driver, answers, activeWts, attribution, cluster>>
    BY <1>4 DEF Round
  <2>2. AsBefore(p)
    BY <1>1, <2>1 DEF AsBefore
  <2> QED  BY <2>2, WokenKept
<1> QED  BY <1>3, <1>4

\* Taking the key of its worktree.
LEMMA LandedWoken ==
  ASSUME TypeOK, Safe, NEW p \in Pushes, Alone(p), Woken(p), Waits(WtOf[p]),
         NEW drv, drv.current = NoTxn => ~drv.recheck,
         NEW attr, Landed(WtOf[p], p, drv, attr),
         stage' = stage, superseded' = superseded,
         answers[p] # <<>> => answers'[p] # <<>>,
         \/ WtOf[p] \in activeWts => WtOf[p] \in activeWts'
         \/ answers'[p] # <<>> /\ stage[p] # "admitted",
         WtOf[p] \notin signals', WtOf[p] \notin keys'
  PROVE  Woken(p)'
<1> DEFINE w == WtOf[p]
<1>1. Holds(pushed, p) /\ stage[p] = "accepted" /\ stage'[p] = "accepted"
  BY DEF Woken
<1>2. Owed(p)' \/ stage'[p] = "admitted" => w \in activeWts'
  BY <1>1 DEF Woken, Owed
<1>3. Holds(pushed', p) <=> Holds(pushed, p)'
  BY DEF Holds
<1>4. CASE /\ driver'.current.wt = w /\ attribution'[w] = p /\ driver'.recheck = drv.recheck
           /\ drv.current = NoTxn
           /\ ~Contains(driver'.pending, w) /\ ~Contains(cluster'.deferred, w)
  <2>1. ~Waits(w)' /\ ~driver'.recheck
    BY <1>4 DEF Waits
  <2> QED  BY <1>1, <1>2, <1>4, <2>1 DEF Woken, Waits
<1>5. CASE /\ driver'.current.wt # w /\ Holds(pushed', p) /\ attribution'[w] = attr[w]
           /\ ~(Contains(driver'.pending, w) /\ Contains(cluster'.deferred, w))
  BY <1>1, <1>2, <1>3, <1>5 DEF Woken
<1> QED  BY <1>4, <1>5 DEF Landed

LEMMA PushKeyWoken ==
  ASSUME TypeOK, Safe, Lonely, NEW p \in Pushes, Alone(p), NEW v \in Worktrees,
         PushKeyRoutes(v) \/ PushKeySpawns(v) \/ PushKeyFails(v)
  PROVE  Woken(p)'
<1> DEFINE w == WtOf[p]
<1>0. /\ pushed \in Queues /\ attribution \in Attributions /\ w \in Worktrees
      /\ driver \in Driver /\ IsInjective(driver.pending)
      /\ cluster \in Cluster /\ answers \in [Pushes -> Seq(Verdicts)]
  BY PlaceTypes DEF TypeOK
<1>1. /\ stage' = stage /\ superseded' = superseded /\ v \in keys /\ keys' = keys \ {v}
  BY DEF PushKeyRoutes, PushKeySpawns, PushKeyFails, TakeKey
<1>2. Woken(p) /\ (driver.current = NoTxn => ~driver.recheck)
  BY DEF Lonely
<1>3. v = w => /\ Waits(w) /\ Holds(pushed, p) /\ stage[p] = "accepted" /\ driver.current.wt # w
               /\ w \notin signals /\ w \notin keys'
               /\ ~Contains(cluster.deferred, w) /\ ~Contains(driver.pending, w)
  BY <1>1, <1>2 DEF Woken, Waits
<1>4. ASSUME NEW drv \in Driver, IsInjective(drv.pending), NEW cl \in Cluster, NEW an,
             NEW attr \in Attributions, RouteOrDefer(v, drv, cl, an, attr),
             drv.current = NoTxn => ~drv.recheck,
             drv.current.wt = w =>
               driver.current.wt = w /\ attr[w] = attribution[w] /\ (drv.recheck => driver.recheck),
             Contains(drv.pending, w) => Contains(driver.pending, w),
             Contains(cl.deferred, w) => Contains(cluster.deferred, w),
             answers[p] # <<>> => answers'[p] # <<>>,
             \/ w \in activeWts => w \in activeWts'
             \/ answers'[p] # <<>> /\ stage[p] # "admitted"
      PROVE  Woken(p)'
  <2>1. CASE v = w
    <3>1. drv.current.wt # w /\ ~Contains(drv.pending, w) /\ ~Contains(cl.deferred, w)
      BY <1>3, <1>4, <2>1
    <3>2. Landed(w, p, drv, attr) /\ signals' = signals
      BY <1>3, <1>4, <2>1, <3>1, RouteOrDeferOwn
    <3> QED  BY <1>1, <1>2, <1>3, <1>4, <2>1, <3>2, LandedWoken
  <2>2. CASE v # w
    <3>1. Beside(w, p, drv, cl, attr)
      BY <1>0, <1>4, <2>2, RouteOrDeferBeside
    <3>2. AsBefore(p)
      BY <1>1, <1>4, <3>1 DEF Beside, AsBefore
    <3> QED  BY <1>2, <3>2, WokenKept
  <2> QED  BY <2>1, <2>2
<1>5. CASE PushKeyRoutes(v)
  <2>1. /\ RouteOrDefer(v, driver, cluster, ra, attribution)
        /\ answers' = answers /\ activeWts' = activeWts
    BY <1>5 DEF PushKeyRoutes
  <2> QED  BY <1>0, <1>2, <1>4, <2>1
<1>6. CASE PushKeySpawns(v)
  <2>0. /\ FreshDriver \in Driver /\ IsInjective(FreshDriver.pending) /\ driver = FreshDriver
        /\ FreshCluster \in Cluster /\ cluster = FreshCluster /\ FreshDriver.current.wt # w
    BY <1>0, <1>6, FreshTypes, TxnFields DEF PushKeySpawns, Lifecycle, Safe
  <2>1. PICK shaken \in BOOLEAN :
          LET sent == IF shaken THEN Append(ctrl, spawns + 1) ELSE ctrl
              an   == [inc |-> spawns + 1, alive |-> shaken, text |-> None]
          IN  IF sent = <<>>
              THEN /\ RouteOrDefer(v, FreshDriver, FreshCluster, an, attribution)
                   /\ UNCHANGED <<answers, activeWts>>
              ELSE /\ RouteOrDefer(v, FreshDriver, Handshaked(FreshCluster, Last(sent)), an,
                                   NoAttribution)
                   /\ PublishStranded
    BY <1>6 DEF PushKeySpawns
  <2> DEFINE sent == IF shaken THEN Append(ctrl, spawns + 1) ELSE ctrl
             an   == [inc |-> spawns + 1, alive |-> shaken, text |-> None]
             cl   == Handshaked(FreshCluster, Last(sent))
  <2>2. CASE sent = <<>>
    <3>1. /\ RouteOrDefer(v, FreshDriver, FreshCluster, an, attribution)
          /\ answers' = answers /\ activeWts' = activeWts
      BY <2>1, <2>2
    <3> HIDE DEF an
    <3> QED  BY <1>0, <1>2, <1>4, <2>0, <3>1
  <2>3. CASE sent # <<>>
    <3>1. RouteOrDefer(v, FreshDriver, cl, an, NoAttribution) /\ PublishStranded
      BY <2>1, <2>3
    <3>2. cl \in Cluster /\ cl.deferred = FreshCluster.deferred
      <4>1. Last(sent) \in Nat
        <5>1. ctrl \in Seq(1..spawns) /\ spawns \in Nat
          BY DEF TypeOK
        <5>2. sent \in Seq(1..spawns + 1)
          <6>1. ctrl \in Seq(1..spawns + 1)
            BY <5>1, SeqMonotonic
          <6>2. spawns + 1 \in 1..spawns + 1
            BY <5>1
          <6> QED  BY <6>1, <6>2, AppendProperties
        <5> HIDE DEF sent
        <5>3. Last(sent) \in 1..spawns + 1
          BY <2>3, <5>1, <5>2, LastElement
        <5> QED  BY <5>1, <5>3
      <4> HIDE DEF sent
      <4> QED  BY <2>0, <4>1 DEF Handshaked, Cluster
    <3>3. NoAttribution \in Attributions
      BY DEF NoAttribution, Attributions
    <3>4. /\ answers[p] # <<>> => answers'[p] # <<>>
          /\ \/ w \in activeWts => w \in activeWts'
             \/ answers'[p] # <<>> /\ stage[p] # "admitted"
      BY <3>1, StrandedBeside
    <3> HIDE DEF an, cl
    <3>5. /\ FreshDriver.current = NoTxn => ~FreshDriver.recheck
          /\ Contains(FreshDriver.pending, w) => Contains(driver.pending, w)
          /\ Contains(cl.deferred, w) => Contains(cluster.deferred, w)
      BY <1>2, <2>0, <3>2
    <3> QED  BY <1>4, <2>0, <3>1, <3>2, <3>3, <3>4, <3>5
  <2> QED  BY <2>2, <2>3
<1>7. CASE PushKeyFails(v)
  <2> DEFINE h == HeadOf(pushed, v)
  <2>1. /\ pushed' = Popped(pushed, v) /\ UNCHANGED <<attribution, driver, cluster>>
        /\ signals' = signals \cup (IF Len(pushed[v]) > 1 THEN {v} ELSE {})
        /\ IF pushed[v] = <<>> THEN UNCHANGED <<answers, activeWts>>
           ELSE Publish(h, v, "unknown")
    BY <1>7 DEF PushKeyFails, Popped, HeadOf, NextPush
  <2> HIDE DEF h
  <2>2. /\ pushed[v] = <<>> => answers' = answers /\ activeWts' = activeWts
        /\ pushed[v] # <<>> => activeWts' = activeWts \ {v} /\ answers' = Answer(answers, h, "unknown")
    BY <2>1 DEF Publish
  <2>3. CASE v = w
    <3>1. pushed[w] # <<>> /\ h = p /\ ~(Len(pushed[w]) > 1) /\ p # None
      BY <1>3, <2>3, AloneFacts, Constants DEF h
    <3>2. answers' = [answers EXCEPT ![p] = Append(@, "unknown")]
      BY <2>2, <2>3, <3>1 DEF Answer
    <3>3. answers'[p] # <<>>
      BY <1>0, <3>2, OneMore DEF Verdicts
    <3>4. w \notin signals' /\ ~Waits(w)'
      BY <1>3, <2>1, <2>3, <3>1 DEF Waits
    <3>5. ~Owed(p)' /\ stage'[p] = "accepted" /\ driver'.current.wt # w
      BY <1>1, <1>3, <2>1, <2>3, <3>3 DEF Owed
    <3> QED  BY <3>4, <3>5 DEF Woken, Waits
  <2>4. CASE v # w
    <3>1. pushed'[w] = pushed[w]
      BY <1>0, <2>1, <2>4 DEF Popped, Queues
    <3>2. Holds(pushed, p) => Holds(pushed', p)
      BY <3>1 DEF Holds
    <3>3. answers[p] # <<>> => answers'[p] # <<>>
      <4>1. CASE pushed[v] # <<>> /\ h = p
        <5>1. answers' = [answers EXCEPT ![p] = Append(@, "unknown")]
          BY <2>2, <4>1, Constants DEF Answer
        <5> QED  BY <1>0, <5>1, OneMore DEF Verdicts
      <4>2. CASE pushed[v] = <<>> \/ h # p
        <5>1. answers'[p] = answers[p]
          BY <1>0, <2>2, <4>2 DEF Answer
        <5> QED  BY <5>1
      <4> QED  BY <4>1, <4>2
    <3>4. AsBefore(p)
      BY <1>1, <2>1, <2>2, <2>4, <3>2, <3>3 DEF AsBefore
    <3> QED  BY <1>2, <3>4, WokenKept
  <2> QED  BY <2>3, <2>4
<1> QED  BY <1>5, <1>6, <1>7

LEMMA RouteDeferredWoken ==
  ASSUME TypeOK, Safe, Lonely, NEW p \in Pushes, Alone(p), RouteDeferred
  PROVE  Woken(p)'
<1> DEFINE w == WtOf[p]
           v == Head(cluster.deferred)
           cl == [cluster EXCEPT !.deferred = Tail(cluster.deferred)]
<1>1. /\ cluster.deferred # <<>> /\ RoutedBatch(v, driver, cl, ra, attribution)
      /\ UNCHANGED <<stage, answers, activeWts, superseded, keys>>
  BY DEF RouteDeferred
<1>2. /\ pushed \in Queues /\ attribution \in Attributions /\ w \in Worktrees
      /\ driver \in Driver /\ IsInjective(driver.pending)
      /\ cluster \in Cluster /\ IsInjective(cluster.deferred)
  BY PlaceTypes DEF TypeOK
<1>3. /\ Tail(cluster.deferred) \in Seq(Worktrees) /\ v \in Worktrees
      /\ ~Contains(Tail(cluster.deferred), v) /\ Contains(cluster.deferred, v)
      /\ \A x : Contains(Tail(cluster.deferred), x) => Contains(cluster.deferred, x)
  BY <1>1, <1>2, TailPositions, TailUnique DEF Cluster
<1>4. cl \in Cluster /\ cl.deferred = Tail(cluster.deferred)
  BY <1>2, <1>3 DEF Cluster
<1>5. Woken(p) /\ (driver.current = NoTxn => ~driver.recheck)
  BY DEF Lonely
<1> HIDE DEF v, cl
<1>6. CASE v = w
  <2>1. /\ Waits(w) /\ Holds(pushed, p) /\ driver.current.wt # w
        /\ w \notin signals /\ w \notin keys /\ ~Contains(driver.pending, w)
        /\ ~Contains(cl.deferred, w)
    BY <1>3, <1>4, <1>5, <1>6 DEF Woken, Waits
  <2>2. Landed(w, p, driver, attribution) /\ signals' = signals
    BY <1>1, <1>2, <1>4, <1>6, <2>1, RoutedBatchOwn
  <2> QED  BY <1>1, <1>5, <2>1, <2>2, LandedWoken
<1>7. CASE v # w
  <2>1. Beside(w, p, driver, cl, attribution)
    BY <1>1, <1>2, <1>3, <1>4, <1>7, RoutedBatchBeside
  <2>2. AsBefore(p)
    BY <1>1, <1>3, <1>4, <2>1 DEF Beside, AsBefore
  <2> QED  BY <1>5, <2>2, WokenKept
<1> QED  BY <1>6, <1>7

\* A verdict of the loop clears the active mark of the worktree it is about.
LEMMA EmitBeside ==
  ASSUME TypeOK, Safe, driver.current # NoTxn, NEW t \in Transaction,
         t.wt = driver.current.wt, Emit(t), NEW p \in Pushes,
         WtOf[p] = t.wt => attribution[t.wt] = p /\ stage[p] # "admitted"
  PROVE  /\ answers[p] # <<>> => answers'[p] # <<>>
         /\ superseded \subseteq superseded'
         /\ \/ WtOf[p] \in activeWts => WtOf[p] \in activeWts'
            \/ answers'[p] # <<>> /\ stage[p] # "admitted"
<1> DEFINE q == attribution[t.wt]
           v == NativeVerdict(t, q)
<1>1. /\ answers \in [Pushes -> Seq(Verdicts)] /\ t.wt \in Worktrees
      /\ q \in Pushes \cup {None} /\ v \in Verdicts /\ p # None
  BY PlaceTypes DEF TypeOK, Transaction, NativeVerdict, Verdicts
<1>2. CASE q \in Escalated
  <2>1. answers' = answers /\ activeWts' = activeWts /\ superseded \subseteq superseded'
    BY <1>2 DEF Emit, Begin
  <2> QED  BY <2>1
<1>3. CASE q \notin Escalated
  <2>1. Publish(q, t.wt, v) /\ superseded' = superseded
    BY <1>3 DEF Emit
  <2> HIDE DEF v, q
  <2>2. activeWts' = activeWts \ {t.wt} /\ answers' = Answer(answers, q, v)
    BY <2>1 DEF Publish
  <2>3. q = p => answers'[p] # <<>>
    <3>1. ASSUME q = p  PROVE answers'[p] # <<>>
      <4>1. answers'[p] = Append(answers[p], v)
        BY <1>1, <2>2, <3>1 DEF Answer
      <4> QED  BY <1>1, <4>1, OneMore
    <3> QED  BY <3>1
  <2>4. q # p => answers'[p] = answers[p]
    BY <1>1, <2>2 DEF Answer
  <2>5. WtOf[p] = t.wt => q = p /\ stage[p] # "admitted"
    BY DEF q
  <2> QED  BY <2>1, <2>2, <2>3, <2>4, <2>5
<1> QED  BY <1>2, <1>3

LEMMA SettlesWoken ==
  ASSUME TypeOK, Safe, NEW p \in Pushes, Alone(p), Woken(p), EventSettles
  PROVE  Woken(p)'
<1> DEFINE w == WtOf[p]
           e == Head(events)
           t == Settled(e)
           next == AfterSettle(driver)
           attr == TakeAttribution(t.wt)
           cl == [Unfenced(e) EXCEPT !.baseline = FALSE]
<1>1. /\ events # <<>> /\ members # {} /\ driver.current # NoTxn
      /\ TakeEvent(e) /\ Emit(t) /\ driver' = next
      /\ IF next.current = NoTxn
         THEN /\ cluster' = cl /\ attribution' = attr
              /\ UNCHANGED <<pushed, signals, ra, pulls, stalled, budget>>
         ELSE Switch(next.current.wt, cl, ra, attr)
  BY DEF EventSettles
<1>2. stage' = stage /\ keys' = keys
  BY <1>1 DEF TakeEvent
<1>3. /\ pushed \in Queues /\ attribution \in Attributions
      /\ driver \in Driver /\ IsInjective(driver.pending)
      /\ events \in Seq(LspEvent) /\ cluster \in Cluster /\ cluster.fence < cluster.nextGen
      /\ w \in Worktrees /\ w # None
  BY PlaceTypes, Constants DEF TypeOK
<1>4. e \in LspEvent
  BY <1>1, <1>3, TailPositions
<1>5. t \in Transaction /\ t.wt = driver.current.wt /\ t.wt \in Worktrees
  BY <1>1, <1>3, <1>4, SettledTypes, InTransaction
<1>6. cl \in Cluster /\ cl.deferred = cluster.deferred
  <2>1. Unfenced(e) \in Cluster /\ Unfenced(e).deferred = cluster.deferred
    BY <1>3, <1>4, UnfencedTypes
  <2> QED  BY <2>1 DEF Cluster
<1>7. /\ \A x : Contains(next.pending, x) => Contains(driver.pending, x)
      /\ driver.recheck => next.current = Txn(driver.current.wt)
      /\ ~driver.recheck => /\ next.recheck = FALSE
                            /\ \/ next.current = NoTxn
                               \/ /\ next.current = Txn(Head(driver.pending))
                                  /\ ~Contains(next.pending, Head(driver.pending))
                                  /\ Contains(driver.pending, Head(driver.pending))
      /\ next.current # NoTxn =>
           next.current.wt \in Worktrees /\ next.current = Txn(next.current.wt)
  BY <1>1, <1>3, AfterSettleTypes
<1>8. attr \in Attributions
  BY <1>3, <1>5 DEF TakeAttribution, Attributions
<1> HIDE DEF e, t, next, cl, attr
<1>9. t.wt = w => attribution[w] = p /\ stage[p] = "accepted" /\ ~driver.recheck /\ ~Waits(w)
  BY <1>5 DEF Woken
<1>10. /\ answers[p] # <<>> => answers'[p] # <<>>
       /\ superseded \subseteq superseded'
       /\ \/ w \in activeWts => w \in activeWts'
          \/ answers'[p] # <<>> /\ stage[p] # "admitted"
  BY <1>1, <1>5, <1>9, EmitBeside
<1>11. CASE next.current = NoTxn
  <2>1. /\ cluster' = cl /\ pushed' = pushed /\ signals' = signals /\ driver'.current.wt # w
    BY <1>1, <1>3, <1>11, TxnFields
  <2>2. AsBefore(p)
    BY <1>1, <1>2, <1>6, <1>7, <1>10, <2>1 DEF AsBefore
  <2> QED  BY <2>2, WokenKept
<1>12. CASE next.current # NoTxn
  <2> DEFINE v == next.current.wt
  <2>1. /\ v \in Worktrees /\ driver'.current = Txn(v) /\ driver'.current.wt = v
        /\ Switch(v, cl, ra, attr)
    BY <1>1, <1>7, <1>12
  <2> HIDE DEF v
  <2>2. CASE v # w
    <3>1. /\ Holds(pushed', p) <=> Holds(pushed, p)
          /\ w \in signals' <=> w \in signals
          /\ cluster'.deferred = cl.deferred
      BY <1>3, <1>6, <1>8, <2>1, <2>2, SwitchBeside
    <3>2. AsBefore(p)
      BY <1>1, <1>2, <1>6, <1>7, <1>10, <2>1, <2>2, <3>1 DEF AsBefore
    <3> QED  BY <3>2, WokenKept
  <2>3. CASE v = w
    <3>1. /\ ~driver.recheck /\ Contains(driver.pending, w) /\ ~Contains(next.pending, w)
      <4>1. driver.recheck => v = t.wt
        BY <1>5, <1>7, <2>1, TxnFields DEF v
      <4>2. ~driver.recheck
        BY <1>9, <2>3, <4>1
      <4>3. Head(driver.pending) \in Worktrees
        <5>1. \E i \in DOMAIN driver.pending : driver.pending[i] = Head(driver.pending)
          BY <1>3, <1>7, <1>12, <4>2, ContainsIs DEF Driver
        <5> QED  BY <1>3, <5>1, Positions DEF Driver
      <4>4. Head(driver.pending) = w
        BY <1>7, <1>12, <2>1, <2>3, <4>2, <4>3, TxnFields DEF v
      <4> QED  BY <1>7, <1>12, <4>2, <4>4
    <3>2. /\ Holds(pushed, p) /\ stage[p] = "accepted"
          /\ w \notin signals /\ w \notin keys /\ ~Contains(cluster.deferred, w)
      BY <3>1 DEF Woken, Waits
    <3>3. ~(Len(pushed[w]) > 1) /\ HeadOf(pushed, w) = p
      BY <3>2, AloneFacts
    <3>4. /\ attribution' = [attr EXCEPT ![w] = HeadOf(pushed, w)]
          /\ signals' = signals \cup (IF Len(pushed[w]) > 1 THEN {w} ELSE {})
      BY <2>1, <2>3, SwitchTakes
    <3>5. attribution'[w] = p /\ w \notin signals'
      BY <1>3, <1>8, <3>2, <3>3, <3>4 DEF Attributions
    <3>6. cluster'.deferred = cl.deferred
      BY <1>6, <2>1 DEF Switch, WriteOk, WriteFails, NoClient, Cluster
    <3>7. ~Waits(w)' /\ ~driver'.recheck
      BY <1>1, <1>2, <1>6, <1>7, <3>1, <3>2, <3>5, <3>6 DEF Waits
    <3>8. Owed(p)' => w \in activeWts'
      BY <1>2, <1>10, <3>2 DEF Woken, Owed
    <3> QED  BY <1>2, <3>2, <3>5, <3>7, <3>8 DEF Woken, Waits
  <2> QED  BY <2>2, <2>3
<1> QED  BY <1>11, <1>12

LEMMA LonelyStep ==
  ASSUME TypeOK, Safe, Lonely, Next
  PROVE  Lonely'
<1>1. driver'.current = NoTxn => ~driver'.recheck
  BY RestedStep DEF Lonely, Safe
<1>2. ASSUME NEW p \in Pushes, Alone(p)'  PROVE Woken(p)'
  <2>1. Alone(p)
    BY <1>2, StageForward DEF Alone
  <2>2. Woken(p)
    BY <2>1 DEF Lonely
  <2>3. CASE \E q \in Pushes : Client(q)
    BY <1>2, <2>1, <2>2, <2>3, ClientWoken
  <2>4. CASE DispatchGate \/ \E q \in Pushes : WitnessStep(q)
    BY <2>1, <2>2, <2>4, WitnessWoken
  <2>5. CASE Round
    BY <2>1, <2>2, <2>5, RoundWoken
  <2>6. CASE \E v \in Worktrees : PushKeyRoutes(v) \/ PushKeySpawns(v) \/ PushKeyFails(v)
    BY <2>1, <2>6, PushKeyWoken
  <2>7. CASE EventSettles
    BY <2>1, <2>2, <2>7, SettlesWoken
  <2>8. CASE RouteDeferred
    BY <2>1, <2>8, RouteDeferredWoken
  <2>9. CASE \E v \in Worktrees : Deactivate(v)
    BY <2>2, <2>9, DeactivateWoken
  <2>10. CASE \/ RaRespawns \/ RaNotifies \/ RaDies \/ RequestQuiesce \/ KeysDone \/ RoundEnds
              \/ ExitDrained \/ EventIgnored \/ EventObserved \/ EventIndexed
              \/ \E q \in pulls : Pull(q)
    BY <2>2, <2>10, RestWoken
  <2> QED  BY <2>3, <2>4, <2>5, <2>6, <2>7, <2>8, <2>9, <2>10 DEF Next, LoopStep, Environment
<1> QED  BY <1>1, <1>2 DEF Lonely

LEMMA DrainedStep ==
  ASSUME Drained, Next
  PROVE  Drained'
<1>1. CASE ExitDrained
  BY <1>1 DEF ExitDrained, DrainComplete, Drained, apiVars
<1>2. CASE ~ExitDrained
  <2>1. phase # "exited" /\ (phase' = phase \/ phase' \in {"top", "keys", "lsp", "deferred"})
    BY <1>2 DEF Next, Up, Client, Admit, Replace, Enqueue, Signal, SendGate, WitnessStep, Acquire,
       WorkerSends, WorkerEnds, Watcher, WatcherHears, WatchdogFires, WatcherPublishes, Settle,
       LoopStep, Round, KeysDone, PushKeyRoutes, PushKeySpawns, PushKeyFails, TakeKey, EventIgnored,
       EventObserved, EventSettles, EventIndexed, TakeEvent, RouteDeferred, RoundEnds, DispatchGate,
       RaRespawns, Environment, RaNotifies, RaDies, RequestQuiesce, Deactivate, Pull, PullReports,
       PullFails, loopVars
  <2> QED  BY <2>1 DEF Drained
<1> QED  BY <1>1, <1>2

LEMMA InitLonely ==
  ASSUME Init
  PROVE  Lonely /\ Drained
<1>1. /\ stage = [p \in Pushes |-> "new"] /\ signals = {} /\ keys = {} /\ phase = "top"
      /\ driver = FreshDriver /\ cluster = FreshCluster
  BY DEF Init
<1>2. ASSUME NEW p \in Pushes  PROVE Woken(p)
  <2>1. ~Contains(<<>>, WtOf[p]) /\ WtOf[p] # None
    BY Constants DEF Contains
  <2>2. ~Waits(WtOf[p]) /\ driver.current.wt # WtOf[p]
    BY <1>1, <2>1, FreshTypes, TxnFields DEF Waits
  <2> QED  BY <1>1, <2>2 DEF Woken, Waits, Owed
<1> QED  BY <1>1, <1>2, FreshTypes DEF Lonely, Drained

LEMMA AlwaysIInv == Spec => []IInv
<1>1. Init => IInv
  BY InitSafe, InitLonely DEF IInv
<1>2. IInv /\ [Next]_vars => IInv'
  <2> SUFFICES ASSUME IInv, [Next]_vars  PROVE IInv'
    OBVIOUS
  <2>1. CASE Next
    BY <2>1, TypeStep, SafeStep, LonelyStep, DrainedStep DEF Safe, IInv
  <2>2. ASSUME UNCHANGED vars  PROVE IInv'
    <3>1. (TypeOK /\ Safe)'
      BY <2>2, SafeStutter DEF IInv
    <3>2. Lonely' /\ Drained'
      BY <2>2 DEF IInv, Lonely, Drained, Alone, Woken, Waits, Holds, Owed, vars, apiVars, loopVars,
                  raVars, witnessVars
    <3> QED  BY <3>1, <3>2 DEF IInv
  <2> QED  BY <2>1, <2>2
<1> QED  BY <1>1, <1>2, PTL DEF Spec

\* A daemon that exits drained owes no verdict to a push that had its worktree
\* key for itself: its one active mark stays until its verdict is published,
\* through every handshake, teardown, witness and respawn.
THEOREM DrainIsExact == Spec => []DrainForgetsOnlySharedKeys
<1>1. IInv => DrainForgetsOnlySharedKeys
  <2> SUFFICES ASSUME IInv, phase = "exited", NEW p \in Pushes, Owed(p)
               PROVE  \E q \in Pushes \ {p} : WtOf[q] = WtOf[p] /\ stage[q] # "new"
    BY DEF DrainForgetsOnlySharedKeys
  <2>1. activeWts = {}
    BY DEF IInv, Drained
  <2>2. ~Woken(p)
    BY <2>1 DEF Woken
  <2>3. ~Alone(p)
    BY <2>2 DEF IInv, Lonely
  <2> QED  BY <2>3 DEF Alone
<1> QED  BY <1>1, AlwaysIInv, PTL

-----------------------------------------------------------------------------
(* What a green verdict rests on.                                          *)

LEMMA SwitchAnalysed ==
  ASSUME NEW w \in Worktrees, NEW cl \in Cluster, NEW an \in Analyzer, NEW attr \in Attributions,
         NEW ev \in Seq(LspEvent), pulls \subseteq PullOf,
         InStep(cl, an), Numbered(cl, ev, pulls), Switch(w, cl, an, attr),
         NEW drv, drv.current = Txn(w)
  PROVE  Analysed(drv, attribution', cluster', ra', ev, pulls', stalled')
<1> DEFINE h == NextPush(w)
<1>1. attribution'[w] = h /\ drv.current.wt = w /\ ~drv.current.real
  <2>1. attribution' = [attr EXCEPT ![w] = h]
    BY DEF Switch, TakeOverlay
  <2> HIDE DEF h
  <2> QED  BY <2>1, TxnFields DEF Attributions
<1> HIDE DEF h
<1>2. /\ cl.nextGen \in Nat \ {0} /\ an.inc \in Nat /\ cl.lsp \in Nat
      /\ \A q \in pulls : q.gen \in Nat /\ q.gen < cl.nextGen
      /\ \A k \in DOMAIN ev : ev[k].gen \in Nat /\ ev[k].gen < cl.nextGen
  <2>1. \A k \in DOMAIN ev : ev[k] \in LspEvent
    BY Positions
  <2> QED  BY <2>1 DEF Cluster, Analyzer, PullOf, LspEvent, Numbered
<1>3. CASE WriteOk(w, cl, an)
  <2> DEFINE q0 == [gen |-> cl.nextGen, inc |-> cl.lsp, empty |-> h = None]
  <2>1. /\ cluster' = [cl EXCEPT !.mux = h, !.fence = cl.nextGen, !.nextGen = cl.nextGen + 1,
                                 !.baseline = TRUE]
        /\ ra' = IF LiveClient(cl, an) THEN [an EXCEPT !.text = Opened(cl, an, h)] ELSE an
        /\ pulls' = pulls \cup {q0} /\ stalled' = stalled
    BY <1>3 DEF WriteOk, h
  <2>2. /\ cluster'.mux = h /\ cluster'.fence = cl.nextGen /\ cluster'.nextGen = cl.nextGen + 1
        /\ cluster'.lsp = cl.lsp
    BY <2>1 DEF Cluster
  <2>3. q0.gen = cl.nextGen /\ q0.inc = cl.lsp
    OBVIOUS
  <2> HIDE DEF q0
  <2>4. InStep(cluster', ra')
    <3>1. CASE LiveClient(cl, an)
      <4>1. ra' = [an EXCEPT !.text = Opened(cl, an, h)] /\ an.text = cl.mux
        BY <2>1, <3>1 DEF InStep
      <4>2. ra'.text = Opened(cl, an, h) /\ ra'.inc = an.inc /\ ra'.alive = an.alive
        BY <4>1 DEF Analyzer
      <4>3. Opened(cl, an, h) = h
        BY <4>1 DEF Opened
      <4> QED  BY <2>2, <3>1, <4>2, <4>3 DEF InStep, LiveClient
    <3>2. CASE ~LiveClient(cl, an)
      BY <2>1, <2>2, <3>2 DEF InStep, LiveClient
    <3> QED  BY <3>1, <3>2
  <2>5. Numbered(cluster', ev, pulls')
    <3>1. /\ \A q \in pulls' : q.gen < cl.nextGen + 1
          /\ \A k \in DOMAIN ev : ev[k].gen < cl.nextGen + 1
      BY <1>2, <2>1, <2>3
    <3> QED  BY <2>2, <3>1 DEF Numbered
  <2>6. Truthful(drv, attribution', cluster', ev, pulls', stalled')
    <3>1. /\ cluster'.fence # 0
          /\ \A k \in DOMAIN ev : ev[k].gen # cluster'.fence
          /\ \A q \in pulls' : q.gen = cluster'.fence => q = q0
      BY <1>2, <2>1, <2>2
    <3> QED  BY <1>1, <2>2, <2>3, <3>1 DEF Truthful
  <2> QED  BY <2>4, <2>5, <2>6 DEF Analysed
<1>4. CASE WriteFails(w, cl, an)
  <2>1. /\ cluster' = [cl EXCEPT !.mux = h, !.baseline = TRUE]
        /\ ra' = [an EXCEPT !.alive = FALSE] \/ (cl.lsp # an.inc /\ ra' = an)
        /\ pulls' = pulls /\ stalled' = stalled \cup ({h} \ {None})
    BY <1>4 DEF WriteFails, h
  <2>2. cluster'.nextGen = cl.nextGen /\ cluster'.lsp = cl.lsp
    BY <2>1 DEF Cluster
  <2>3. InStep(cluster', ra')
    <3>1. CASE ra' = [an EXCEPT !.alive = FALSE]
      <4>1. ~ra'.alive
        BY <3>1 DEF Analyzer
      <4> QED  BY <4>1 DEF InStep, LiveClient
    <3>2. CASE cl.lsp # an.inc /\ ra' = an
      BY <2>2, <3>2 DEF InStep, LiveClient
    <3> QED  BY <2>1, <3>1, <3>2
  <2>4. Numbered(cluster', ev, pulls')
    BY <2>1, <2>2 DEF Numbered
  <2>5. Truthful(drv, attribution', cluster', ev, pulls', stalled')
    BY <1>1, <2>1 DEF Truthful
  <2> QED  BY <2>3, <2>4, <2>5 DEF Analysed
<1>5. CASE NoClient(cl, an)
  <2>1. /\ cluster' = [cl EXCEPT !.baseline = FALSE] /\ ra' = an /\ pulls' = pulls
    BY <1>5 DEF NoClient
  <2>2. /\ cluster'.nextGen = cl.nextGen /\ cluster'.lsp = cl.lsp /\ cluster'.mux = cl.mux
        /\ ~cluster'.baseline
    BY <2>1 DEF Cluster
  <2> QED  BY <2>1, <2>2 DEF Analysed, InStep, LiveClient, Numbered, Truthful
<1> QED  BY <1>3, <1>4, <1>5 DEF Switch

LEMMA RoutedBatchAnalysed ==
  ASSUME NEW w \in Worktrees, NEW drv \in Driver, IsInjective(drv.pending),
         NEW cl \in Cluster, NEW an \in Analyzer, NEW attr \in Attributions,
         events \in Seq(LspEvent), pulls \subseteq PullOf,
         Analysed(drv, attr, cl, an, events, pulls, stalled), RoutedBatch(w, drv, cl, an, attr)
  PROVE  Analysed(driver', attribution', cluster', ra', events, pulls', stalled')
<1>1. CASE drv.current = NoTxn
  <2>1. driver' = Arm(drv, w) /\ Switch(w, cl, an, attr)
    BY <1>1 DEF RoutedBatch
  <2>2. driver'.current = Txn(w)
    BY <2>1, ArmTypes
  <2>3. InStep(cl, an) /\ Numbered(cl, events, pulls)
    BY DEF Analysed
  <2> QED  BY <2>1, <2>2, <2>3, SwitchAnalysed
<1>2. CASE drv.current # NoTxn
  <2>1. /\ driver' = Queue(drv, w) /\ cluster' = cl /\ ra' = an /\ attribution' = attr
        /\ pulls' = pulls /\ stalled' = stalled
    BY <1>2 DEF RoutedBatch
  <2>2. driver'.current = drv.current
    BY <2>1, QueueTypes
  <2> QED  BY <2>1, <2>2 DEF Analysed, Truthful
<1> QED  BY <1>1, <1>2

LEMMA RouteOrDeferAnalysed ==
  ASSUME NEW w \in Worktrees, NEW drv \in Driver, IsInjective(drv.pending),
         NEW cl \in Cluster, NEW an \in Analyzer, NEW attr \in Attributions,
         events \in Seq(LspEvent), pulls \subseteq PullOf,
         Analysed(drv, attr, cl, an, events, pulls, stalled), RouteOrDefer(w, drv, cl, an, attr)
  PROVE  Analysed(driver', attribution', cluster', ra', events, pulls', stalled')
<1>1. CASE cl.ready
  BY <1>1, RoutedBatchAnalysed DEF RouteOrDefer
<1>2. CASE ~cl.ready
  <2> DEFINE q == IF Contains(cl.deferred, w) THEN cl.deferred ELSE Append(cl.deferred, w)
  <2>1. /\ cluster' = [cl EXCEPT !.deferred = q]
        /\ driver' = drv /\ ra' = an /\ attribution' = attr /\ pulls' = pulls /\ stalled' = stalled
    BY <1>2 DEF RouteOrDefer
  <2> HIDE DEF q
  <2>2. /\ cluster'.nextGen = cl.nextGen /\ cluster'.lsp = cl.lsp /\ cluster'.mux = cl.mux
        /\ cluster'.fence = cl.fence /\ cluster'.baseline = cl.baseline
    BY <2>1 DEF Cluster
  <2> QED  BY <2>1, <2>2 DEF Analysed, InStep, LiveClient, Numbered, Truthful
<1> QED  BY <1>1, <1>2

Analysing == Analysed(driver, attribution, cluster, ra, events, pulls, stalled)

LEMMA AnalysisTypes ==
  ASSUME TypeOK
  PROVE  /\ driver \in Driver /\ IsInjective(driver.pending)
         /\ cluster \in Cluster /\ IsInjective(cluster.deferred) /\ cluster.fence < cluster.nextGen
         /\ ra \in Analyzer /\ ra.inc = spawns /\ attribution \in Attributions
         /\ events \in Seq(LspEvent) /\ pulls \subseteq PullOf
         /\ spawns \in Nat /\ cluster.lsp <= spawns /\ cluster.lsp \in Nat
         /\ ctrl \in Seq(1..spawns) /\ cluster.nextGen \in Nat \ {0}
         /\ \A k \in DOMAIN events : events[k] \in LspEvent
BY PlaceTypes, Positions DEF TypeOK, Cluster

LEMMA HandshakeAnalysed ==
  ASSUME TypeOK, Safe, Analysing, Round
  PROVE  Analysing'
<1>1. events' = events /\ pulls' = pulls /\ stalled' = stalled /\ ra' = ra
  BY DEF Round
<1>2. CASE ctrl # <<>> /\ members # {}
  <2> DEFINE n == Last(ctrl)
  <2>1. driver' = ResetAfterRespawn(driver) /\ cluster' = Handshaked(cluster, n)
    BY <1>2 DEF Round
  <2>2. n \in 1..spawns /\ n > cluster.lsp
    <3>1. ctrl \in Seq(1..spawns)
      BY AnalysisTypes
    <3>2. n \in 1..spawns /\ \E k \in DOMAIN ctrl : n = ctrl[k]
      BY <1>2, <3>1, LastElement
    <3> QED  BY <3>2 DEF Safe, Lifecycle
  <2> HIDE DEF n
  <2>3. /\ cluster'.nextGen = cluster.nextGen /\ cluster'.lsp = n /\ cluster'.mux = None
    <3>1. n \in Nat /\ cluster \in Cluster
      BY <2>2, AnalysisTypes
    <3> QED  BY <2>1, <3>1 DEF Handshaked, Cluster
  <2>4. driver'.current = NoTxn
    BY <2>1, AnalysisTypes DEF ResetAfterRespawn, Driver
  <2>5. ra.alive => ra.text = None
    <3>1. cluster.lsp # ra.inc
      BY <2>2, AnalysisTypes
    <3> QED  BY <3>1 DEF Analysing, Analysed, InStep
  <2> QED  BY <1>1, <2>3, <2>4, <2>5 DEF Analysing, Analysed, InStep, LiveClient, Numbered, Truthful
<1>3. CASE ~(ctrl # <<>> /\ members # {})
  <2>1. UNCHANGED <<driver, attribution, cluster>>
    BY <1>3 DEF Round
  <2> QED  BY <1>1, <2>1 DEF Analysing
<1> QED  BY <1>2, <1>3

LEMMA PushKeyAnalysed ==
  ASSUME TypeOK, Safe, Analysing, NEW w \in Worktrees,
         PushKeyRoutes(w) \/ PushKeySpawns(w) \/ PushKeyFails(w)
  PROVE  Analysing'
<1>1. events' = events
  BY DEF PushKeyRoutes, PushKeySpawns, PushKeyFails, TakeKey
<1>2. CASE PushKeyRoutes(w)
  <2>1. RouteOrDefer(w, driver, cluster, ra, attribution)
    BY <1>2 DEF PushKeyRoutes
  <2>2. Analysed(driver', attribution', cluster', ra', events, pulls', stalled')
    BY <2>1, AnalysisTypes, RouteOrDeferAnalysed DEF Analysing
  <2> QED  BY <1>1, <2>2 DEF Analysing
<1>3. CASE PushKeySpawns(w)
  <2>0. /\ FreshDriver \in Driver /\ IsInjective(FreshDriver.pending)
        /\ FreshCluster \in Cluster /\ IsInjective(FreshCluster.deferred)
        /\ FreshCluster.fence < FreshCluster.nextGen
        /\ cluster = FreshCluster /\ FreshDriver.current = NoTxn
    BY <1>3, FreshTypes DEF PushKeySpawns, Lifecycle, Safe
  <2>1. PICK shaken \in BOOLEAN :
          LET sent == IF shaken THEN Append(ctrl, spawns + 1) ELSE ctrl
              an   == [inc |-> spawns + 1, alive |-> shaken, text |-> None]
          IN  IF sent = <<>>
              THEN /\ RouteOrDefer(w, FreshDriver, FreshCluster, an, attribution)
                   /\ UNCHANGED <<answers, activeWts>>
              ELSE /\ RouteOrDefer(w, FreshDriver, Handshaked(FreshCluster, Last(sent)), an,
                                   NoAttribution)
                   /\ PublishStranded
    BY <1>3 DEF PushKeySpawns
  <2> DEFINE sent == IF shaken THEN Append(ctrl, spawns + 1) ELSE ctrl
             an   == [inc |-> spawns + 1, alive |-> shaken, text |-> None]
             cl   == Handshaked(FreshCluster, Last(sent))
  <2>2. /\ an \in Analyzer /\ an.text = None
        /\ spawns + 1 \in Nat /\ spawns \in Nat
    <3>1. spawns + 1 \in Nat /\ spawns \in Nat
      BY AnalysisTypes
    <3> QED  BY <3>1 DEF Analyzer
  <2>3. CASE sent = <<>>
    <3>1. RouteOrDefer(w, FreshDriver, FreshCluster, an, attribution)
      BY <2>1, <2>3
    <3> HIDE DEF an
    <3>2. Analysed(FreshDriver, attribution, FreshCluster, an, events, pulls, stalled)
      <4>1. InStep(FreshCluster, an) /\ Numbered(FreshCluster, events, pulls)
        BY <2>0, <2>2, FreshTypes DEF Analysing, Analysed, InStep
      <4> QED  BY <2>0, <4>1 DEF Analysed, Truthful
    <3>3. Analysed(driver', attribution', cluster', ra', events, pulls', stalled')
      BY <2>0, <2>2, <3>1, <3>2, AnalysisTypes, RouteOrDeferAnalysed
    <3> QED  BY <1>1, <3>3 DEF Analysing
  <2>4. CASE sent # <<>>
    <3>1. RouteOrDefer(w, FreshDriver, cl, an, NoAttribution)
      BY <2>1, <2>4
    <3>2. sent \in Seq(1..spawns + 1)
      <4>1. ctrl \in Seq(1..spawns + 1)
        BY <2>2, AnalysisTypes, SeqMonotonic
      <4>2. spawns + 1 \in 1..spawns + 1
        BY <2>2
      <4> QED  BY <4>1, <4>2, AppendProperties
    <3> HIDE DEF sent, an
    <3>3. Last(sent) \in Nat
      <4>1. Last(sent) \in 1..spawns + 1
        BY <2>4, <3>2, LastElement
      <4> QED  BY <2>2, <4>1
    <3>4. /\ cl \in Cluster /\ cl.mux = None /\ cl.nextGen = FreshCluster.nextGen
      BY <2>0, <3>3, HandshakedTypes
    <3> HIDE DEF cl
    <3>5. Analysed(FreshDriver, NoAttribution, cl, an, events, pulls, stalled)
      <4>1. InStep(cl, an) /\ Numbered(cl, events, pulls)
        BY <2>0, <2>2, <3>4 DEF Analysing, Analysed, InStep, Numbered
      <4> QED  BY <2>0, <4>1 DEF Analysed, Truthful
    <3>6. NoAttribution \in Attributions
      BY DEF NoAttribution, Attributions
    <3>7. Analysed(driver', attribution', cluster', ra', events, pulls', stalled')
      BY <2>0, <2>2, <3>1, <3>4, <3>5, <3>6, AnalysisTypes, RouteOrDeferAnalysed
    <3> QED  BY <1>1, <3>7 DEF Analysing
  <2> QED  BY <2>3, <2>4
<1>4. CASE PushKeyFails(w)
  <2>1. UNCHANGED <<attribution, driver, cluster, ra, pulls, stalled>>
    BY <1>4 DEF PushKeyFails
  <2> QED  BY <1>1, <2>1 DEF Analysing
<1> QED  BY <1>2, <1>3, <1>4

LEMMA EventAnalysed ==
  ASSUME TypeOK, Safe, Analysing, EventIgnored \/ EventObserved \/ EventIndexed
  PROVE  Analysing'
<1> DEFINE e == Head(events)
<1>1. /\ events # <<>> /\ events' = Tail(events)
      /\ UNCHANGED <<attribution, ra, pulls, stalled>>
  BY DEF EventIgnored, EventObserved, EventIndexed, TakeEvent
<1>2. /\ e \in LspEvent /\ e = events[1] /\ 1 \in DOMAIN events
      /\ \A k \in DOMAIN events' : k + 1 \in DOMAIN events /\ events'[k] = events[k + 1]
  BY <1>1, AnalysisTypes, TailPositions
<1> HIDE DEF e
<1>3. ASSUME driver' = driver, cluster'.lsp = cluster.lsp, cluster'.mux = cluster.mux,
             cluster'.nextGen = cluster.nextGen, cluster'.baseline = cluster.baseline,
             driver.current = NoTxn \/ cluster'.fence = cluster.fence
      PROVE  Analysing'
  BY <1>1, <1>2, <1>3 DEF Analysing, Analysed, InStep, LiveClient, Numbered, Truthful
<1>4. CASE EventIgnored
  <2>1. /\ driver' = driver
        /\ members = {} \/ ~Admitted(e) \/ driver.current = NoTxn
        /\ cluster' = IF members # {} /\ Admitted(e) THEN Unfenced(e) ELSE cluster
    BY <1>4 DEF EventIgnored, e
  <2>2. /\ Unfenced(e).lsp = cluster.lsp /\ Unfenced(e).mux = cluster.mux
        /\ Unfenced(e).nextGen = cluster.nextGen /\ Unfenced(e).baseline = cluster.baseline
    BY <1>2, AnalysisTypes, UnfencedTypes
  <2> QED  BY <1>3, <2>1, <2>2
<1>5. CASE EventIndexed
  <2>1. driver' = driver /\ cluster' = [cluster EXCEPT !.ready = TRUE]
    BY <1>5 DEF EventIndexed
  <2> QED  BY <1>3, <2>1, AnalysisTypes DEF Cluster
<1>6. CASE EventObserved
  <2>1. /\ driver.current # NoTxn /\ cluster' = cluster
        /\ e.kind = "diagnostics" /\ Admitted(e)
        /\ driver' = [driver EXCEPT !.current.real = TRUE,
                                    !.current.err = driver.current.err \/ e.err]
    BY <1>6 DEF EventObserved, e
  <2>2. driver.current \in Transaction /\ driver \in Driver
    BY <2>1, AnalysisTypes, InTransaction
  <2>3. /\ driver'.current.wt = driver.current.wt
        /\ driver'.current.err = (driver.current.err \/ e.err)
    BY <2>1, <2>2 DEF Driver, Transaction
  <2>4. Truthful(driver', attribution', cluster', events', pulls', stalled')
    <3> DEFINE p == attribution[driver.current.wt]
    <3>1. SUFFICES ASSUME p # None, p \notin stalled, cluster.baseline
          PROVE  /\ cluster.fence # 0
                 /\ p \in Broken => driver'.current.err
                 /\ \A k \in DOMAIN events' :
                      (events'[k].gen = cluster.fence /\ events'[k].kind = "diagnostics" /\ p \in Broken)
                        => events'[k].err
                 /\ \A q \in pulls : q.gen = cluster.fence => q.inc = cluster.lsp /\ cluster.mux = p
      BY <1>1, <2>1, <2>3 DEF Truthful
    <3>2. /\ cluster.fence # 0
          /\ \A k \in DOMAIN events :
               (events[k].gen = cluster.fence /\ events[k].kind = "diagnostics" /\ p \in Broken)
                 => events[k].err
          /\ \A q \in pulls : q.gen = cluster.fence => q.inc = cluster.lsp /\ cluster.mux = p
      BY <2>1, <3>1 DEF Analysing, Analysed, Truthful
    <3>3. e.gen = cluster.fence
      BY <2>1, <3>2 DEF Admitted
    <3>4. p \in Broken => e.err
      BY <1>2, <2>1, <3>2, <3>3
    <3> QED  BY <1>2, <2>3, <3>2, <3>4
  <2>5. InStep(cluster', ra') /\ Numbered(cluster', events', pulls')
    BY <1>1, <1>2, <2>1 DEF Analysing, Analysed, Numbered
  <2> QED  BY <2>4, <2>5 DEF Analysing, Analysed
<1> QED  BY <1>4, <1>5, <1>6

LEMMA SettlesAnalysed ==
  ASSUME TypeOK, Analysing, EventSettles
  PROVE  Analysing'
<1> DEFINE e == Head(events)
           t == Settled(e)
           next == AfterSettle(driver)
           attr == TakeAttribution(t.wt)
           cl == [Unfenced(e) EXCEPT !.baseline = FALSE]
<1>1. /\ events # <<>> /\ driver.current # NoTxn
      /\ events' = Tail(events) /\ driver' = next
      /\ IF next.current = NoTxn
         THEN /\ cluster' = cl /\ attribution' = attr
              /\ UNCHANGED <<pushed, signals, ra, pulls, stalled, budget>>
         ELSE Switch(next.current.wt, cl, ra, attr)
  BY DEF EventSettles, TakeEvent
<1>2. /\ e \in LspEvent /\ events' \in Seq(LspEvent)
      /\ \A k \in DOMAIN events' : k + 1 \in DOMAIN events /\ events'[k] = events[k + 1]
  BY <1>1, AnalysisTypes, TailPositions
<1>3. /\ cl \in Cluster /\ cl.lsp = cluster.lsp /\ cl.mux = cluster.mux /\ cl.nextGen = cluster.nextGen
  <2>1. /\ Unfenced(e) \in Cluster /\ Unfenced(e).lsp = cluster.lsp
        /\ Unfenced(e).mux = cluster.mux /\ Unfenced(e).nextGen = cluster.nextGen
    BY <1>2, AnalysisTypes, UnfencedTypes
  <2> QED  BY <2>1 DEF Cluster
<1>4. attr \in Attributions
  <2>1. t.wt \in Worktrees
    BY <1>1, <1>2, AnalysisTypes, SettledTypes, InTransaction
  <2> HIDE DEF t
  <2> QED  BY <2>1, AnalysisTypes DEF TakeAttribution, Attributions
<1>5. next.current # NoTxn => next.current.wt \in Worktrees /\ next.current = Txn(next.current.wt)
  BY <1>1, AnalysisTypes, AfterSettleTypes
<1> HIDE DEF e, t, next, attr, cl
<1>6. InStep(cl, ra) /\ Numbered(cl, events', pulls)
  BY <1>2, <1>3 DEF Analysing, Analysed, InStep, LiveClient, Numbered
<1>7. CASE next.current = NoTxn
  BY <1>1, <1>6, <1>7 DEF Analysing, Analysed, Truthful
<1>8. CASE next.current # NoTxn
  <2> DEFINE v == next.current.wt
             ev == events'
             drv == driver'
  <2>1. /\ v \in Worktrees /\ drv.current = Txn(v) /\ Switch(v, cl, ra, attr)
        /\ ev \in Seq(LspEvent) /\ Numbered(cl, ev, pulls)
    BY <1>1, <1>2, <1>5, <1>6, <1>8
  <2> HIDE DEF v, ev, drv
  <2>2. Analysed(drv, attribution', cluster', ra', ev, pulls', stalled')
    BY <1>3, <1>4, <1>6, <2>1, AnalysisTypes, SwitchAnalysed
  <2> QED  BY <2>2 DEF Analysing, ev, drv
<1> QED  BY <1>7, <1>8

LEMMA RouteDeferredAnalysed ==
  ASSUME TypeOK, Analysing, RouteDeferred
  PROVE  Analysing'
<1> DEFINE w == Head(cluster.deferred)
           cl == [cluster EXCEPT !.deferred = Tail(cluster.deferred)]
<1>1. /\ cluster.deferred # <<>> /\ RoutedBatch(w, driver, cl, ra, attribution)
      /\ events' = events
  BY DEF RouteDeferred
<1>2. Tail(cluster.deferred) \in Seq(Worktrees) /\ w \in Worktrees
  BY <1>1, AnalysisTypes, TailPositions DEF Cluster
<1>3. /\ cl \in Cluster /\ cl.lsp = cluster.lsp /\ cl.mux = cluster.mux
      /\ cl.nextGen = cluster.nextGen /\ cl.fence = cluster.fence /\ cl.baseline = cluster.baseline
  BY <1>2, AnalysisTypes DEF Cluster
<1> HIDE DEF w, cl
<1>4. Analysed(driver, attribution, cl, ra, events, pulls, stalled)
  BY <1>3 DEF Analysing, Analysed, InStep, LiveClient, Numbered, Truthful
<1>5. Analysed(driver', attribution', cluster', ra', events, pulls', stalled')
  BY <1>1, <1>2, <1>3, <1>4, AnalysisTypes, RoutedBatchAnalysed
<1> QED  BY <1>1, <1>5 DEF Analysing

\* A teardown numbers from 1 again: no pull and no event may be left by then.
LEMMA DeactivateAnalysed ==
  ASSUME TypeOK, Analysing, ~PullsOutliveIdle, NEW w \in Worktrees, Deactivate(w)
  PROVE  Analysing'
<1>1. /\ pulls = {} /\ events = <<>>
      /\ UNCHANGED <<attribution, events, pulls, stalled>>
  BY DEF Deactivate, apiVars
<1>2. CASE members = {w}
  <2>1. driver' = FreshDriver /\ cluster' = FreshCluster /\ ra' = [ra EXCEPT !.alive = FALSE]
    BY <1>2 DEF Deactivate
  <2>2. ~ra'.alive /\ driver'.current = NoTxn
    BY <2>1, AnalysisTypes, FreshTypes DEF Analyzer
  <2>3. Numbered(cluster', events', pulls')
    <3>1. DOMAIN <<>> = {}
      OBVIOUS
    <3> QED  BY <1>1, <3>1 DEF Numbered
  <2> QED  BY <2>2, <2>3 DEF Analysing, Analysed, InStep, LiveClient, Truthful
<1>3. CASE members # {w}
  <2> DEFINE q == RemoveFirst(driver.pending, w)
             b == driver.recheck /\ driver.current.wt # w
  <2>1. driver' = [driver EXCEPT !.pending = q, !.recheck = b] /\ cluster' = cluster /\ ra' = ra
    BY <1>3 DEF Deactivate
  <2> HIDE DEF q
  <2>2. driver'.current = driver.current
    BY <2>1, AnalysisTypes DEF Driver
  <2> QED  BY <1>1, <2>1, <2>2 DEF Analysing, Analysed, Truthful
<1> QED  BY <1>2, <1>3

\* What a pull hears comes from the text its transaction is about.
LEMMA AnalyzerAnalysed ==
  ASSUME TypeOK, Analysing,
         RaRespawns \/ RaNotifies \/ RaDies \/ \E q \in pulls : Pull(q)
  PROVE  Analysing'
<1>1. UNCHANGED <<driver, attribution, cluster, stalled>>
  BY DEF RaRespawns, RaNotifies, RaDies, Pull, PullReports, PullFails, apiVars, loopVars
<1>2. ASSUME ra' = ra, pulls' \subseteq pulls, NEW s \in Seq(LspEvent), events' = events \o s,
             \A k \in DOMAIN s : s[k].gen < cluster.nextGen,
             \A k \in DOMAIN s : LET p == attribution[driver.current.wt]
                                 IN  (/\ driver.current # NoTxn /\ p # None /\ p \notin stalled
                                      /\ cluster.baseline /\ cluster.fence # 0 /\ p \in Broken
                                      /\ s[k].gen = cluster.fence /\ s[k].kind = "diagnostics")
                                        => s[k].err
      PROVE  Analysing'
  <2>1. /\ \A k \in DOMAIN events : events'[k] = events[k]
        /\ \A k \in DOMAIN s : events'[k + Len(events)] = s[k]
        /\ \A k \in DOMAIN events' : \/ k \in DOMAIN events
                                     \/ k - Len(events) \in DOMAIN s /\ (k - Len(events)) + Len(events) = k
    <3>1. events \in Seq(LspEvent) /\ Len(events) \in Nat
      BY AnalysisTypes, Positions
    <3>2. \A k \in DOMAIN (events \o s) : k \in Nat
      BY <1>2, <3>1, ConcatPositions
    <3> QED  BY <1>2, <3>1, <3>2, ConcatPositions
  <2>2. \A k \in DOMAIN events' : \/ k \in DOMAIN events /\ events'[k] = events[k]
                                  \/ \E i \in DOMAIN s : events'[k] = s[i]
    BY <2>1
  <2>3. Numbered(cluster', events', pulls')
    BY <1>1, <1>2, <2>2 DEF Analysing, Analysed, Numbered
  <2>4. Truthful(driver', attribution', cluster', events', pulls', stalled')
    BY <1>1, <1>2, <2>2 DEF Analysing, Analysed, Truthful
  <2> QED  BY <1>1, <1>2, <2>3, <2>4 DEF Analysing, Analysed
<1>3. CASE \E q \in pulls : Pull(q)
  <2>1. PICK q \in pulls : PullReports(q) \/ PullFails(q)
    BY <1>3 DEF Pull
  <2>2. q.gen \in Nat /\ q.gen < cluster.nextGen
    BY AnalysisTypes DEF PullOf, Analysing, Analysed, Numbered
  <2>3. CASE PullReports(q)
    <3> DEFINE b == ra.text \in Broken
               s == Report(q, b)
    <3>1. /\ ra.alive /\ ra.inc = q.inc /\ events' = events \o s /\ pulls' \subseteq pulls /\ ra' = ra
      BY <2>3 DEF PullReports
    <3>2. /\ s \in Seq(LspEvent) /\ DOMAIN s = 1..2
          /\ s[1].gen = q.gen /\ s[1].err = b /\ s[2].gen = q.gen /\ s[2].kind = "ended"
      BY <2>2 DEF Report, LspEvent
    <3> HIDE DEF b, s
    <3>3. ASSUME NEW p, p = attribution[driver.current.wt], driver.current # NoTxn, p # None,
                 p \notin stalled, cluster.baseline, cluster.fence # 0, p \in Broken,
                 q.gen = cluster.fence
          PROVE  b
      <4>1. q.inc = cluster.lsp /\ cluster.mux = p
        BY <3>3 DEF Analysing, Analysed, Truthful
      <4>2. ra.text = p
        BY <3>1, <4>1 DEF Analysing, Analysed, InStep, LiveClient
      <4> QED  BY <3>3, <4>2 DEF b
    <3>4. \A k \in DOMAIN s : k = 1 \/ k = 2
      BY <3>2
    <3>5. \A k \in DOMAIN s : s[k].gen < cluster.nextGen
      BY <2>2, <3>2, <3>4
    <3> QED  BY <1>2, <3>1, <3>2, <3>3, <3>4, <3>5
  <2>4. CASE PullFails(q)
    <3> DEFINE e == [gen |-> q.gen, kind |-> "failed", err |-> TRUE]
               s == <<e>>
    <3>1. /\ events' = Append(events, e) /\ pulls' \subseteq pulls /\ ra' = ra
      BY <2>4 DEF PullFails
    <3>2. e \in LspEvent /\ e.gen = q.gen /\ e.kind = "failed"
      BY <2>2 DEF LspEvent
    <3> HIDE DEF e
    <3>3. s \in Seq(LspEvent) /\ DOMAIN s = {1} /\ s[1] = e
      BY <3>2
    <3>4. events' = events \o s
      BY <3>1, <3>2, AnalysisTypes, AppendIsConcat
    <3> HIDE DEF s
    <3> QED  BY <1>2, <2>2, <3>1, <3>2, <3>3, <3>4
  <2> QED  BY <2>1, <2>3, <2>4
<1>4. CASE RaNotifies
  <2>1. PICK k \in {"diagnostics", "ended", "failed", "indexed"} :
          events' = Append(events, Native(k)) /\ ra' = ra /\ pulls' = pulls
    BY <1>4 DEF RaNotifies
  <2> DEFINE e == Native(k)
             s == <<e>>
  <2>2. e \in LspEvent /\ e.gen = 0
    BY DEF Native, LspEvent
  <2> HIDE DEF e
  <2>3. s \in Seq(LspEvent) /\ DOMAIN s = {1} /\ s[1] = e
    BY <2>2
  <2>4. events' = events \o s
    BY <2>1, <2>2, AnalysisTypes, AppendIsConcat DEF e
  <2>5. 0 < cluster.nextGen
    BY AnalysisTypes
  <2> HIDE DEF s
  <2> QED  BY <1>2, <2>1, <2>2, <2>3, <2>4, <2>5
<1>5. CASE RaDies
  <2>1. ra' = [ra EXCEPT !.alive = FALSE] /\ events' = events /\ pulls' = pulls
    BY <1>5 DEF RaDies
  <2>2. ~ra'.alive
    BY <2>1, AnalysisTypes DEF Analyzer
  <2> QED  BY <1>1, <2>1, <2>2 DEF Analysing, Analysed, InStep, LiveClient
<1>6. CASE RaRespawns
  <2>1. /\ events' = events /\ pulls' = pulls
        /\ \E shaken \in BOOLEAN : ra' = [inc |-> spawns + 1, alive |-> shaken, text |-> None]
    BY <1>6 DEF RaRespawns
  <2>2. ra'.text = None /\ ra'.inc = spawns + 1 /\ cluster.lsp # spawns + 1
    BY <2>1, AnalysisTypes
  <2> QED  BY <1>1, <2>1, <2>2 DEF Analysing, Analysed, InStep, LiveClient
<1> QED  BY <1>3, <1>4, <1>5, <1>6

LEMMA AnalysedStep ==
  ASSUME TypeOK, Safe, Analysing, ~PullsOutliveIdle, Next
  PROVE  Analysing'
<1>1. ASSUME UNCHANGED <<driver, attribution, cluster, ra, events, pulls, stalled>>
      PROVE  Analysing'
  BY <1>1 DEF Analysing
<1>2. CASE \E p \in Pushes : Client(p) \/ WitnessStep(p)
  <2>1. UNCHANGED <<attribution, loopVars, raVars>>
    BY <1>2 DEF Client, Admit, Replace, Enqueue, Signal, SendGate, WitnessStep, Acquire,
       WorkerSends, WorkerEnds, Watcher, WatcherHears, WatchdogFires, WatcherPublishes, Settle, apiVars
  <2> QED  BY <1>1, <2>1 DEF loopVars, raVars
<1>3. CASE DispatchGate \/ RequestQuiesce \/ ExitDrained \/ KeysDone \/ RoundEnds
  BY <1>1, <1>3 DEF DispatchGate, RequestQuiesce, ExitDrained, KeysDone, RoundEnds, apiVars,
     loopVars, raVars
<1>4. CASE Round
  BY <1>4, HandshakeAnalysed
<1>5. CASE \E w \in Worktrees : PushKeyRoutes(w) \/ PushKeySpawns(w) \/ PushKeyFails(w)
  BY <1>5, PushKeyAnalysed
<1>6. CASE EventIgnored \/ EventObserved \/ EventIndexed
  BY <1>6, EventAnalysed
<1>7. CASE EventSettles
  BY <1>7, SettlesAnalysed
<1>8. CASE RouteDeferred
  BY <1>8, RouteDeferredAnalysed
<1>9. CASE \E w \in Worktrees : Deactivate(w)
  BY <1>9, DeactivateAnalysed
<1>10. CASE RaRespawns \/ RaNotifies \/ RaDies \/ \E q \in pulls : Pull(q)
  BY <1>10, AnalyzerAnalysed
<1> QED  BY <1>2, <1>3, <1>4, <1>5, <1>6, <1>7, <1>8, <1>9, <1>10 DEF Next, LoopStep, Environment

\* A green summary is of a text that compiles, a vacuous one of a witness.
LEMMA WitnessedStep ==
  ASSUME TypeOK, Witnessed, Next
  PROVE  Witnessed'
<1>0. watcher \in [Pushes -> Watch]
  BY DEF TypeOK
<1>1. ASSUME watcher' = watcher  PROVE Witnessed'
  BY <1>1 DEF Witnessed
<1>2. ASSUME NEW p \in Pushes, NEW c, watcher' = [watcher EXCEPT ![p] = c],
             Earns(p, c.got), p \in Gates \cup Escalated
      PROVE  Witnessed'
  BY <1>0, <1>2 DEF Witnessed
<1>3. ASSUME NEW p \in Gates \cup Escalated, NEW err, Begin(p, err)  PROVE Witnessed'
  <2> DEFINE c == [at |-> "watching", err |-> err, got |-> "nothing"]
  <2>1. watcher' = [watcher EXCEPT ![p] = c] /\ c.got = "nothing" /\ p \in Pushes
    BY <1>3, Constants DEF Begin
  <2> HIDE DEF c
  <2>2. Earns(p, c.got)
    BY <2>1 DEF Earns
  <2> QED  BY <1>2, <1>3, <2>1, <2>2
<1>4. CASE DispatchGate
  <2>1. Begin(Head(gateQ), FALSE) /\ Head(gateQ) \in Gates
    <3>1. gateQ # <<>> /\ gateQ \in Seq(Gates)
      BY <1>4 DEF DispatchGate, TypeOK
    <3> QED  BY <1>4, <3>1, TailPositions DEF DispatchGate
  <2> QED  BY <1>3, <2>1
<1>5. CASE EventSettles
  <2> DEFINE t == Settled(Head(events))
  <2>1. Emit(t)
    BY <1>5 DEF EventSettles
  <2> HIDE DEF t
  <2>2. CASE attribution[t.wt] \in Escalated
    BY <1>3, <2>1, <2>2 DEF Emit
  <2>3. CASE attribution[t.wt] \notin Escalated
    BY <1>1, <2>1, <2>3 DEF Emit, witnessVars
  <2> QED  BY <2>2, <2>3
<1>12. ASSUME NEW p \in Pushes, watcher[p].at # "none",
              \A q \in Pushes : q # p => watcher'[q] = watcher[q], Earns(p, watcher'[p].got)
       PROVE  Witnessed'
  <2>1. p \in Gates \cup Escalated
    BY <1>12 DEF Witnessed, Earns
  <2> SUFFICES ASSUME NEW q \in Pushes
               PROVE  /\ Earns(q, watcher'[q].got)
                      /\ watcher'[q].at # "none" => q \in Gates \cup Escalated
    BY DEF Witnessed, Earns
  <2>2. CASE q = p
    BY <1>12, <2>1, <2>2
  <2>3. CASE q # p
    BY <1>12, <2>3 DEF Witnessed, Earns
  <2> QED  BY <2>2, <2>3
<1>6. ASSUME NEW p \in Pushes, WorkerSends(p)  PROVE Witnessed'
  <2>1. CASE watcher[p].at = "watching"
    <3>1. PICK s \in Summaries(p) : watcher' = [watcher EXCEPT ![p].got = s]
      BY <1>6, <2>1 DEF WorkerSends
    <3>2. Earns(p, s)
      BY <2>1 DEF Summaries, Earns, Witnessed
    <3>3. watcher'[p].got = s /\ \A q \in Pushes : q # p => watcher'[q] = watcher[q]
      BY <1>0, <3>1 DEF Watch
    <3>4. watcher[p].at # "none"
      BY <2>1
    <3> QED  BY <1>12, <3>2, <3>3, <3>4
  <2>2. CASE watcher[p].at # "watching"
    BY <1>1, <1>6, <2>2 DEF WorkerSends
  <2> QED  BY <2>1, <2>2
<1>7. ASSUME NEW p \in Pushes, NEW s, Settle(p, s), Earns(p, s)
      PROVE  Witnessed'
  <2>1. /\ \A q \in Pushes : q # p => watcher'[q] = watcher[q]
        /\ watcher[p].at = "watching"
    BY <1>0, <1>7 DEF Settle
  <2>2. watcher'[p].got = watcher[p].got \/ watcher'[p].got = Composed(watcher[p].err, s)
    BY <1>0, <1>7 DEF Settle, Watch
  <2>3. Earns(p, watcher'[p].got)
    <3>1. Earns(p, Composed(watcher[p].err, s))
      BY <1>7 DEF Composed, Earns
    <3> QED  BY <2>2, <3>1 DEF Witnessed, Earns
  <2>4. watcher[p].at # "none"
    BY <2>1
  <2> QED  BY <1>12, <2>1, <2>3, <2>4
<1>8. ASSUME NEW p \in Pushes, Watcher(p)  PROVE Witnessed'
  <2>1. CASE WatcherHears(p)
    BY <1>7, <2>1 DEF WatcherHears, Witnessed, Earns
  <2>2. CASE WatchdogFires(p)
    BY <1>7, <2>2 DEF WatchdogFires, Earns
  <2>3. CASE WatcherPublishes(p)
    <3>1. watcher' = [watcher EXCEPT ![p].at = "done"] /\ watcher[p].at = "publishing"
      BY <2>3 DEF WatcherPublishes
    <3>2. /\ watcher'[p].got = watcher[p].got
          /\ \A q \in Pushes : q # p => watcher'[q] = watcher[q]
      BY <1>0, <3>1 DEF Watch
    <3>3. watcher[p].at # "none" /\ Earns(p, watcher'[p].got)
      BY <3>1, <3>2 DEF Witnessed, Earns
    <3> QED  BY <1>12, <3>2, <3>3
  <2> QED  BY <1>8, <2>1, <2>2, <2>3 DEF Watcher
<1>9. CASE \E p \in Pushes : Client(p) \/ Acquire(p) \/ WorkerEnds(p)
  BY <1>1, <1>9 DEF Client, Admit, Replace, Enqueue, Signal, SendGate, Acquire, WorkerEnds, witnessVars
<1>10. CASE LoopStep /\ ~EventSettles
  BY <1>1, <1>10 DEF LoopStep, ExitDrained, Round, KeysDone, PushKeyRoutes, PushKeySpawns,
     PushKeyFails, TakeKey, EventIgnored, EventObserved, EventIndexed, RouteDeferred,
     RoundEnds, witnessVars
<1>11. CASE RaRespawns \/ Environment \/ \E q \in pulls : Pull(q)
  BY <1>1, <1>11 DEF RaRespawns, Environment, RaNotifies, RaDies, RequestQuiesce, Deactivate,
     Pull, PullReports, PullFails, witnessVars
<1> QED  BY <1>4, <1>5, <1>6, <1>8, <1>9, <1>10, <1>11 DEF Next, WitnessStep

\* What a step publishes.
Fitting(p, v) == p \in stalled \/ Earns(p, v)
LEMMA EarnedAfter ==
  ASSUME TypeOK, GreenIsEarned, stalled \subseteq stalled',
         \A p \in Pushes : \/ answers'[p] = answers[p]
                           \/ \E v \in Verdicts : /\ answers'[p] = Append(answers[p], v)
                                                  /\ Fitting(p, v)
                                                  /\ v = "vacuous" => p \in Gates \cup Escalated
  PROVE  GreenIsEarned'
<1> SUFFICES ASSUME NEW p \in Pushes, NEW k \in DOMAIN answers'[p]
             PROVE  /\ answers'[p][k] = "green" /\ p \notin stalled => p \notin Broken
                    /\ answers'[p][k] = "vacuous" => p \in Gates \cup Escalated
  <2>1. stalled \subseteq stalled'
    OBVIOUS
  <2> QED  BY <2>1 DEF GreenIsEarned, AnswersTo
<1>1. answers[p] \in Seq(Verdicts)
  BY DEF TypeOK
<1>2. ASSUME NEW i \in DOMAIN answers[p]
      PROVE  /\ answers[p][i] = "green" /\ p \notin stalled => p \notin Broken
             /\ answers[p][i] = "vacuous" => p \in Gates \cup Escalated
  BY <1>2 DEF GreenIsEarned, AnswersTo
<1>3. CASE answers'[p] = answers[p]
  BY <1>2, <1>3
<1>4. CASE \E v \in Verdicts : /\ answers'[p] = Append(answers[p], v)
                               /\ Fitting(p, v)
                               /\ v = "vacuous" => p \in Gates \cup Escalated
  <2>1. PICK v \in Verdicts : /\ answers'[p] = Append(answers[p], v)
                              /\ Fitting(p, v)
                              /\ v = "vacuous" => p \in Gates \cup Escalated
    BY <1>4
  <2>2. /\ Append(answers[p], v)[Len(answers[p]) + 1] = v
        /\ k \in DOMAIN answers[p] \/ k = Len(answers[p]) + 1
        /\ \A i \in DOMAIN answers[p] : Append(answers[p], v)[i] = answers[p][i]
    BY <1>1, <2>1, AppendPositions
  <2>3. CASE k \in DOMAIN answers[p]
    BY <1>2, <2>1, <2>2, <2>3
  <2>4. CASE k = Len(answers[p]) + 1
    BY <2>1, <2>2, <2>4 DEF Fitting, Earns
  <2> QED  BY <2>2, <2>3, <2>4
<1> QED  BY <1>3, <1>4

LEMMA UnknownWithoutProof ==
  ASSUME NEW t \in Transaction, NEW p, ~t.real \/ t.err
  PROVE  NativeVerdict(t, p) # "green"
<1>1. t.pullFailed \in BOOLEAN /\ t.real \in BOOLEAN /\ t.err \in BOOLEAN
  BY DEF Transaction
<1>2. CASE ~t.real
  BY <1>1, <1>2 DEF NativeVerdict
<1>3. CASE t.err
  BY <1>1, <1>3 DEF NativeVerdict
<1> QED  BY <1>2, <1>3

\* The native verdict of what is in flight is green only if its text compiles.
LEMMA NativeIsEarned ==
  ASSUME TypeOK, Analysing, EventSettles, NEW p \in Pushes, p \notin stalled, p \in Broken,
         p = attribution[driver.current.wt]
  PROVE  NativeVerdict(Settled(Head(events)), p) # "green"
<1> DEFINE e == Head(events)
           t == Settled(e)
<1>1. /\ events # <<>> /\ driver.current # NoTxn /\ Terminal(e) /\ Admitted(e)
  BY DEF EventSettles
<1>2. e \in LspEvent
  BY <1>1, AnalysisTypes, TailPositions
<1>3. /\ t.err = (driver.current.err \/ e.kind = "failed")
      /\ t.real = (driver.current.real \/ e.kind = "failed") /\ t \in Transaction
  BY <1>1, <1>2, AnalysisTypes, SettledTypes
<1>4. p # None
  BY Constants
<1> HIDE DEF e, t
<1>5. CASE ~cluster.baseline
  BY <1>4, <1>5 DEF NativeVerdict
<1>6. CASE cluster.baseline
  <2>1. driver.current.real => driver.current.err
    BY <1>1, <1>4, <1>6 DEF Analysing, Analysed, Truthful
  <2>2. ~t.real \/ t.err
    BY <1>3, <2>1
  <2>3. NativeVerdict(t, p) # "green"
    BY <1>3, <2>2, UnknownWithoutProof
  <2> QED  BY <2>3 DEF e, t
<1> QED  BY <1>5, <1>6 DEF e, t

LEMMA EarnedStep ==
  ASSUME TypeOK, Analysing, Witnessed, GreenIsEarned, Next
  PROVE  GreenIsEarned'
<1>0. answers \in [Pushes -> Seq(Verdicts)]
  BY DEF TypeOK
<1>9. stalled \subseteq stalled'
  <2>1. ASSUME NEW w, NEW drv, NEW cl, NEW an, NEW attr, RoutedBatch(w, drv, cl, an, attr)
        PROVE  stalled \subseteq stalled'
    BY <2>1 DEF RoutedBatch, Switch, WriteOk, WriteFails, NoClient
  <2>2. ASSUME NEW w, NEW drv, NEW cl, NEW an, NEW attr, RouteOrDefer(w, drv, cl, an, attr)
        PROVE  stalled \subseteq stalled'
    BY <2>1, <2>2 DEF RouteOrDefer
  <2>3. CASE \E w \in Worktrees : PushKeyRoutes(w) \/ PushKeySpawns(w) \/ PushKeyFails(w)
    BY <2>2, <2>3 DEF PushKeyRoutes, PushKeySpawns, PushKeyFails
  <2>4. CASE RouteDeferred
    BY <2>1, <2>4 DEF RouteDeferred
  <2>5. CASE EventSettles
    BY <2>5 DEF EventSettles, Switch, WriteOk, WriteFails, NoClient
  <2>6. CASE \E p \in Pushes : Client(p) \/ WitnessStep(p)
    BY <2>6 DEF Client, Admit, Replace, Enqueue, Signal, SendGate, WitnessStep, Acquire,
       WorkerSends, WorkerEnds, Watcher, WatcherHears, WatchdogFires, WatcherPublishes, Settle, raVars
  <2>7. CASE \/ DispatchGate \/ ExitDrained \/ Round \/ KeysDone \/ EventIgnored \/ EventObserved
             \/ EventIndexed \/ RoundEnds
             \/ RaRespawns \/ Environment \/ \E q \in pulls : Pull(q)
    BY <2>7 DEF DispatchGate, ExitDrained, Round, KeysDone, EventIgnored, EventObserved, EventIndexed,
       RoundEnds, RaRespawns, Environment, RaNotifies, RaDies, RequestQuiesce, Deactivate, Pull,
       PullReports, PullFails, raVars
  <2> QED  BY <2>3, <2>4, <2>5, <2>6, <2>7 DEF Next, LoopStep
<1>1. ASSUME answers' = answers  PROVE GreenIsEarned'
  BY <1>1, <1>9, EarnedAfter
<1>2. ASSUME PublishStranded  PROVE GreenIsEarned'
  <2>1. \A p \in Pushes : answers'[p] = answers[p] \/ answers'[p] = Append(answers[p], "unknown")
    BY <1>2 DEF PublishStranded
  <2>2. "unknown" \in Verdicts /\ \A p \in Pushes : Fitting(p, "unknown")
    BY DEF Verdicts, Fitting, Earns
  <2> QED  BY <1>9, <2>1, <2>2, EarnedAfter
<1>3. ASSUME NEW p \in Pushes \cup {None}, NEW v \in Verdicts, answers' = Answer(answers, p, v),
             p \in Pushes => /\ Fitting(p, v)
                             /\ v = "vacuous" => p \in Gates \cup Escalated
      PROVE  GreenIsEarned'
  <2>1. \A x \in Pushes : \/ answers'[x] = answers[x]
                          \/ x = p /\ answers'[x] = Append(answers[x], v)
    BY <1>0, <1>3, Constants DEF Answer
  <2> QED  BY <1>3, <1>9, <2>1, EarnedAfter
<1>4. CASE \E p \in Pushes : WatcherPublishes(p)
  <2>1. PICK p \in Pushes : WatcherPublishes(p)
    BY <1>4
  <2>2. answers' = Answer(answers, p, watcher[p].got) /\ watcher[p].at = "publishing"
    BY <2>1 DEF WatcherPublishes, Publish
  <2>3. watcher[p].got \in Verdicts
    BY <2>2 DEF TypeOK, Watch
  <2>4. Earns(p, watcher[p].got)
    BY DEF Witnessed
  <2>5. /\ Fitting(p, watcher[p].got)
        /\ watcher[p].got = "vacuous" => p \in Gates \cup Escalated
    BY <2>4 DEF Fitting, Earns
  <2> QED  BY <1>3, <2>2, <2>3, <2>5
<1>5. CASE EventSettles
  <2> DEFINE t == Settled(Head(events))
             p == attribution[t.wt]
             v == NativeVerdict(t, p)
  <2>1. Emit(t) /\ events # <<>> /\ driver.current # NoTxn
    BY <1>5 DEF EventSettles
  <2>2. t.wt = driver.current.wt /\ t.wt \in Worktrees
    <3>1. Head(events) \in LspEvent
      BY <2>1, AnalysisTypes, TailPositions
    <3> QED  BY <2>1, <3>1, AnalysisTypes, SettledTypes, InTransaction
  <2>3. CASE p \in Escalated
    BY <1>1, <2>1, <2>3 DEF Emit
  <2>4. CASE p \notin Escalated
    <3>1. answers' = Answer(answers, p, v)
      BY <2>1, <2>4 DEF Emit, Publish
    <3>2. v \in Verdicts
      BY DEF NativeVerdict, Verdicts
    <3>3. p \in Pushes \cup {None}
      BY <2>2, AnalysisTypes DEF Attributions
    <3>4. v = "green" /\ p \in Pushes /\ p \notin stalled => p \notin Broken
      BY <1>5, <2>2, NativeIsEarned
    <3>5. v # "vacuous"
      BY DEF NativeVerdict
    <3> HIDE DEF p, v
    <3>6. p \in Pushes => Fitting(p, v) /\ v # "vacuous"
      BY <3>4, <3>5 DEF Fitting, Earns
    <3> QED  BY <1>3, <3>1, <3>2, <3>3, <3>6
  <2> QED  BY <2>3, <2>4
<1>6. CASE \E w \in Worktrees : PushKeyFails(w)
  <2>1. PICK w \in Worktrees : PushKeyFails(w)
    BY <1>6
  <2>2. CASE pushed[w] = <<>>
    BY <1>1, <2>1, <2>2 DEF PushKeyFails
  <2>3. CASE pushed[w] # <<>>
    <3>1. answers' = Answer(answers, NextPush(w), "unknown")
      BY <2>1, <2>3 DEF PushKeyFails, Publish
    <3>2. NextPush(w) \in Pushes /\ "unknown" \in Verdicts
      BY <2>3, PlaceTypes, TailPositions DEF NextPush, Verdicts
    <3>3. Fitting(NextPush(w), "unknown")
      BY DEF Fitting, Earns
    <3> QED  BY <1>3, <3>1, <3>2, <3>3
  <2> QED  BY <2>2, <2>3
<1>7. CASE Round \/ \E w \in Worktrees : PushKeyRoutes(w) \/ PushKeySpawns(w)
  <2>1. answers' = answers \/ PublishStranded
    BY <1>7 DEF Round, PushKeyRoutes, PushKeySpawns
  <2> QED  BY <1>1, <1>2, <2>1
<1>8. CASE \/ \E p \in Pushes : Client(p) \/ (WitnessStep(p) /\ ~WatcherPublishes(p))
           \/ DispatchGate \/ RaRespawns \/ Environment \/ \E q \in pulls : Pull(q)
           \/ ExitDrained \/ KeysDone \/ EventIgnored \/ EventObserved \/ EventIndexed
           \/ RouteDeferred \/ RoundEnds
  BY <1>1, <1>8 DEF Client, Admit, Replace, Enqueue, Signal, SendGate, WitnessStep, Acquire,
     WorkerSends, WorkerEnds, Watcher, WatcherHears, WatchdogFires, Settle, DispatchGate,
     RaRespawns, Environment, RaNotifies, RaDies, RequestQuiesce, Deactivate, Pull, PullReports,
     PullFails, ExitDrained, KeysDone, EventIgnored, EventObserved, EventIndexed, RouteDeferred,
     RoundEnds, apiVars
<1> QED  BY <1>4, <1>5, <1>6, <1>7, <1>8 DEF Next, LoopStep

\* A green verdict a check or the analyzer stands behind is about a text that
\* compiles, whatever dies, stalls, respawns or arrives late meanwhile, provided
\* that no pull outlives the idling of its cluster; a text whose write failed is
\* excepted.  A green without any check is published by a witness only.
THEOREM GreenIsTrue ==
  ASSUME ~PullsOutliveIdle
  PROVE  Spec => []GreenIsEarned
<1>1. Init => GInv
  <2> SUFFICES ASSUME Init  PROVE GInv
    OBVIOUS
  <2>1. /\ driver = FreshDriver /\ cluster = FreshCluster /\ events = <<>> /\ pulls = {}
        /\ ra = [inc |-> 0, alive |-> FALSE, text |-> None] /\ DOMAIN <<>> = {}
        /\ \A p \in Pushes : /\ answers[p] = <<>> /\ watcher[p].got = "nothing"
                             /\ watcher[p].at = "none"
    BY DEF Init
  <2>2. Analysing
    BY <2>1, FreshTypes DEF Analysing, Analysed, InStep, LiveClient, Numbered, Truthful
  <2>3. Witnessed /\ GreenIsEarned
    BY <2>1 DEF Witnessed, Earns, GreenIsEarned, AnswersTo
  <2> QED  BY <2>2, <2>3 DEF GInv, Analysing
<1>2. TypeOK /\ Safe /\ GInv /\ [Next]_vars => GInv'
  <2> SUFFICES ASSUME TypeOK, Safe, GInv, [Next]_vars  PROVE GInv'
    OBVIOUS
  <2>1. Analysing /\ Witnessed /\ GreenIsEarned
    BY DEF GInv, Analysing
  <2>2. CASE Next
    <3>1. Analysing' /\ Witnessed' /\ GreenIsEarned'
      BY <2>1, <2>2, AnalysedStep, WitnessedStep, EarnedStep
    <3> QED  BY <3>1 DEF GInv, Analysing
  <2>3. CASE UNCHANGED vars
    BY <2>3 DEF GInv, Analysed, Witnessed, Earns, GreenIsEarned, AnswersTo, vars, apiVars, loopVars, raVars, witnessVars
  <2> QED  BY <2>2, <2>3
<1>3. GInv => GreenIsEarned
  BY DEF GInv
<1> QED  BY <1>1, <1>2, <1>3, AlwaysSafe, PTL DEF Spec
=============================================================================
