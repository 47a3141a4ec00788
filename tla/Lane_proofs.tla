---------------------------- MODULE Lane_proofs ----------------------------
(***************************************************************************)
(* Facts about the operators of Lane, for every value of the constants:    *)
(* what the roster helpers return, that every handler keeps the type of    *)
(* the lane, and that it moves members without copying or losing them.     *)
(***************************************************************************)
EXTENDS Lane, TLAPS, FiniteSetTheorems, SequenceTheorems

-----------------------------------------------------------------------------
(* Nth: the ranks of a finite set of numbers are 1..Cardinality.           *)

Rank(I, i) == Cardinality({j \in I : j <= i})

LEMMA RankType ==
  ASSUME NEW I \in SUBSET Nat, IsFiniteSet(I), NEW i \in I
  PROVE  Rank(I, i) \in 1..Cardinality(I)
<1> DEFINE J == {j \in I : j <= i}
<1>1. IsFiniteSet(J) /\ Cardinality(J) <= Cardinality(I)
  BY FS_Subset
<1>2. Cardinality(J) \in Nat /\ Cardinality(I) \in Nat
  BY <1>1, FS_CardinalityType
<1>3. J # {}
  OBVIOUS
<1>4. Cardinality(J) # 0
  BY <1>1, <1>3, FS_EmptySet
<1> QED  BY <1>1, <1>2, <1>4 DEF Rank

LEMMA RankIncreases ==
  ASSUME NEW I \in SUBSET Nat, IsFiniteSet(I), NEW i \in I, NEW k \in I, i < k
  PROVE  Rank(I, i) < Rank(I, k)
<1> DEFINE J == {j \in I : j <= i}
           K == {j \in I : j <= k}
<1>1. IsFiniteSet(K) /\ IsFiniteSet(J)
  BY FS_Subset
<1>2. J \in SUBSET K /\ J # K
  <2>1. \A j \in I : j \in Int
    OBVIOUS
  <2>2. \A j \in J : j \in K
    BY <2>1
  <2>3. k \in K /\ k \notin J
    BY <2>1
  <2> QED  BY <2>2, <2>3
<1>3. Cardinality(J) <= Cardinality(K) /\ Cardinality(J) # Cardinality(K)
  BY <1>1, <1>2, FS_Subset
<1>4. Cardinality(J) \in Nat /\ Cardinality(K) \in Nat
  BY <1>1, FS_CardinalityType
<1> QED  BY <1>3, <1>4 DEF Rank

\* Nth(I, k) is the element of rank k.
LEMMA NthElement ==
  ASSUME NEW I \in SUBSET Nat, IsFiniteSet(I), NEW k \in 1..Cardinality(I)
  PROVE  Nth(I, k) \in I /\ Rank(I, Nth(I, k)) = k
<1> DEFINE n == Cardinality(I)
           r == [i \in I |-> Rank(I, i)]
<1>1. n \in Nat
  BY FS_CardinalityType
<1>2. r \in [I -> 1..n]
  BY RankType
<1>3. \A i, j \in I : i # j => r[i] # r[j]
  <2> SUFFICES ASSUME NEW i \in I, NEW j \in I, i # j PROVE r[i] # r[j]
    OBVIOUS
  <2>1. CASE i < j  BY <2>1, RankIncreases, RankType
  <2>2. CASE j < i  BY <2>2, RankIncreases, RankType
  <2> QED  BY <2>1, <2>2
<1>4. r \in Injection(I, 1..n)
  BY <1>2, <1>3 DEF Injection, IsInjective
<1>5. IsFiniteSet(1..n) /\ Cardinality(1..n) = n
  BY <1>1, FS_Interval
<1>6. r \in Surjection(I, 1..n)
  BY <1>4, <1>5, FS_Injection
<1>7. PICK i \in I : Rank(I, i) = k
  BY <1>6 DEF Surjection
<1> QED  BY <1>7 DEF Nth, Rank

LEMMA NthIncreases ==
  ASSUME NEW I \in SUBSET Nat, IsFiniteSet(I),
         NEW j \in 1..Cardinality(I), NEW k \in 1..Cardinality(I), j < k
  PROVE  Nth(I, j) < Nth(I, k)
<1>1. Nth(I, j) \in I /\ Nth(I, k) \in I /\ Rank(I, Nth(I, j)) = j /\ Rank(I, Nth(I, k)) = k
  BY NthElement
<1>2. Nth(I, j) # Nth(I, k)
  BY <1>1
<1>3. ~(Nth(I, k) < Nth(I, j))
  <2> SUFFICES ASSUME Nth(I, k) < Nth(I, j) PROVE FALSE
    OBVIOUS
  <2>1. k < j  BY <1>1, RankIncreases
  <2> QED  BY <2>1
<1>4. \A i \in I : i \in Int
  OBVIOUS
<1>5. Nth(I, j) \in Int /\ Nth(I, k) \in Int
  BY <1>1, <1>4
<1> QED  BY <1>2, <1>3, <1>5

LEMMA NthOnto ==
  ASSUME NEW I \in SUBSET Nat, IsFiniteSet(I), NEW i \in I
  PROVE  \E k \in 1..Cardinality(I) : Nth(I, k) = i
<1> DEFINE k == Rank(I, i)
<1>1. k \in 1..Cardinality(I)
  BY RankType
<1>2. Nth(I, k) \in I /\ Rank(I, Nth(I, k)) = k
  BY <1>1, NthElement
<1>3. ~(Nth(I, k) < i) /\ ~(i < Nth(I, k))
  <2>1. CASE Nth(I, k) < i
    <3>1. k < k  BY <1>2, <2>1, RankIncreases
    <3> QED  BY <1>1, <3>1
  <2>2. CASE i < Nth(I, k)
    <3>1. k < k  BY <1>2, <2>2, RankIncreases
    <3> QED  BY <1>1, <3>1
  <2> QED  BY <2>1, <2>2
<1>4. \A j \in I : j \in Int
  OBVIOUS
<1>5. Nth(I, k) \in Int /\ i \in Int
  BY <1>2, <1>4
<1>6. Nth(I, k) = i
  BY <1>3, <1>5
<1> QED  BY <1>1, <1>6

-----------------------------------------------------------------------------
(* Rosters.                                                                *)

LEMMA MemberFields ==
  ASSUME NEW m \in Member
  PROVE  m.id \in Id /\ m.head \in Commit /\ m = [id |-> m.id, head |-> m.head]
BY DEF Member

LEMMA SeqDomain ==
  ASSUME NEW q \in Seq(Member)
  PROVE  /\ Len(q) \in Nat /\ DOMAIN q = 1..Len(q)
         /\ \A k \in DOMAIN q : q[k] \in Member /\ q[k].id \in Id
         /\ Ids(q) \subseteq Id
<1>1. Len(q) \in Nat /\ DOMAIN q = 1..Len(q)
  BY LenProperties
<1>2. \A k \in DOMAIN q : q[k] \in Member
  BY <1>1, ElementOfSeq
<1>3. \A k \in DOMAIN q : q[k].id \in Id
  BY <1>2, MemberFields
<1> QED  BY <1>1, <1>2, <1>3 DEF Ids

LEMMA PositionsFinite ==
  ASSUME NEW q \in Seq(Member), NEW I \in SUBSET DOMAIN q
  PROVE  /\ I \in SUBSET Nat /\ IsFiniteSet(I)
         /\ Cardinality(I) \in Nat /\ Cardinality(I) <= Len(q)
<1>1. Len(q) \in Nat /\ DOMAIN q = 1..Len(q)
  BY SeqDomain
<1>2. IsFiniteSet(1..Len(q)) /\ Cardinality(1..Len(q)) = Len(q)
  <2>1. /\ IsFiniteSet(1..Len(q))
        /\ Cardinality(1..Len(q)) = IF 1 > Len(q) THEN 0 ELSE Len(q) - 1 + 1
    BY <1>1, FS_Interval
  <2> QED  BY <1>1, <2>1
<1>3. IsFiniteSet(I) /\ Cardinality(I) <= Len(q)
  BY <1>1, <1>2, FS_Subset
<1> QED  BY <1>1, <1>3, FS_CardinalityType

\* Keep(q, I) holds the members at the positions I and no others, once each.
LEMMA KeepRoster ==
  ASSUME NEW q \in Seq(Member), NEW I \in SUBSET DOMAIN q
  PROVE  /\ Keep(q, I) \in Seq(Member)
         /\ Len(Keep(q, I)) = Cardinality(I)
         /\ Ids(Keep(q, I)) = {q[k].id : k \in I}
         /\ Members(Keep(q, I)) = {q[k] : k \in I}
         /\ Distinct(q) => Distinct(Keep(q, I))
<1> DEFINE n == Cardinality(I)
           p == Keep(q, I)
<1>1. I \in SUBSET Nat /\ IsFiniteSet(I) /\ n \in Nat
  BY PositionsFinite
<1>2. \A k \in 1..n : Nth(I, k) \in I
  BY <1>1, NthElement
<1>3. \A k \in 1..n : q[Nth(I, k)] \in Member
  BY <1>2, SeqDomain
<1>4. DOMAIN p = 1..n /\ \A k \in 1..n : p[k] = q[Nth(I, k)]
  BY DEF Keep
<1>5. p \in [1..n -> Member]
  BY <1>3 DEF Keep
<1>6. p \in Seq(Member)
  BY <1>1, <1>5, SeqDef
<1>7. Len(p) = n
  BY <1>1, <1>4, <1>6, LenProperties
<1>8. \A i \in I : \E k \in 1..n : Nth(I, k) = i
  BY <1>1, NthOnto
<1>9. Ids(p) = {q[k].id : k \in I}
  BY <1>2, <1>4, <1>8 DEF Ids
<1>10. Members(p) = {q[k] : k \in I}
  BY <1>2, <1>4, <1>8 DEF Members
<1>11. ASSUME Distinct(q) PROVE Distinct(p)
  <2> SUFFICES ASSUME NEW j \in 1..n, NEW k \in 1..n, p[j].id = p[k].id PROVE j = k
    BY <1>4 DEF Distinct
  <2>1. Nth(I, j) = Nth(I, k)
    BY <1>2, <1>4, <1>11 DEF Distinct
  <2>2. \A i \in I : i \in Int
    BY <1>1
  <2>3. Nth(I, j) \in Int
    BY <1>2, <2>2
  <2>4. CASE j < k
    <3>1. Nth(I, j) < Nth(I, k)  BY <1>1, <2>4, NthIncreases
    <3> QED  BY <2>1, <2>3, <3>1
  <2>5. CASE k < j
    <3>1. Nth(I, k) < Nth(I, j)  BY <1>1, <2>5, NthIncreases
    <3> QED  BY <2>1, <2>3, <3>1
  <2> QED  BY <2>4, <2>5
<1> QED  BY <1>6, <1>7, <1>9, <1>10, <1>11

LEMMA WithoutRoster ==
  ASSUME NEW q \in Seq(Member), NEW id
  PROVE  /\ Without(q, id) \in Seq(Member)
         /\ Len(Without(q, id)) <= Len(q)
         /\ Ids(Without(q, id)) = Ids(q) \ {id}
         /\ Members(Without(q, id)) \subseteq Members(q)
         /\ Distinct(q) => Distinct(Without(q, id))
<1> DEFINE I == {k \in DOMAIN q : q[k].id # id}
<1>1. I \in SUBSET DOMAIN q
  OBVIOUS
<1>2. Cardinality(I) <= Len(q)
  BY <1>1, PositionsFinite
<1>3. Ids(q) \ {id} = {q[k].id : k \in I}
  BY DEF Ids
<1>4. {q[k] : k \in I} \subseteq Members(q)
  BY DEF Members
<1> HIDE DEF I
<1>5. /\ Keep(q, I) \in Seq(Member) /\ Len(Keep(q, I)) = Cardinality(I)
      /\ Ids(Keep(q, I)) = {q[k].id : k \in I} /\ Members(Keep(q, I)) = {q[k] : k \in I}
      /\ Distinct(q) => Distinct(Keep(q, I))
  BY <1>1, KeepRoster
<1>6. Without(q, id) = Keep(q, I)
  BY DEF Without, I
<1> QED  BY <1>2, <1>3, <1>4, <1>5, <1>6

LEMMA ConcatRoster ==
  ASSUME NEW p \in Seq(Member), NEW q \in Seq(Member)
  PROVE  /\ p \o q \in Seq(Member)
         /\ Ids(p \o q) = Ids(p) \cup Ids(q)
         /\ Distinct(p) /\ Distinct(q) /\ Ids(p) \cap Ids(q) = {} => Distinct(p \o q)
<1> DEFINE r == p \o q
           a == Len(p)
           b == Len(q)
<1>1. a \in Nat /\ b \in Nat /\ DOMAIN p = 1..a /\ DOMAIN q = 1..b
  BY SeqDomain
<1>2. r \in Seq(Member) /\ Len(r) = a + b
      /\ \A k \in 1..(a + b) : r[k] = IF k <= a THEN p[k] ELSE q[k - a]
  BY ConcatProperties
<1>3. DOMAIN r = 1..(a + b)
  BY <1>2, SeqDomain
<1>4. \A k \in DOMAIN r : \/ k \in DOMAIN p /\ r[k] = p[k]
                          \/ k > a /\ k - a \in DOMAIN q /\ r[k] = q[k - a]
  BY <1>1, <1>2, <1>3
<1>5. \A k \in DOMAIN p : k \in DOMAIN r /\ r[k] = p[k]
  BY <1>1, <1>2, <1>3
<1>6. \A k \in DOMAIN q : a + k \in DOMAIN r /\ r[a + k] = q[k]
  BY <1>1, <1>2, <1>3
<1> HIDE DEF r, a, b
<1>7. Ids(r) \subseteq Ids(p) \cup Ids(q)
  BY <1>4 DEF Ids
<1>8. Ids(p) \subseteq Ids(r) /\ Ids(q) \subseteq Ids(r)
  BY <1>5, <1>6 DEF Ids
<1>9. ASSUME Distinct(p), Distinct(q), Ids(p) \cap Ids(q) = {} PROVE Distinct(r)
  <2> SUFFICES ASSUME NEW j \in DOMAIN r, NEW k \in DOMAIN r, r[j].id = r[k].id PROVE j = k
    BY DEF Distinct
  <2>1. CASE j \in DOMAIN p /\ r[j] = p[j] /\ k \in DOMAIN p /\ r[k] = p[k]
    BY <1>9, <2>1 DEF Distinct
  <2>2. CASE /\ j > a /\ j - a \in DOMAIN q /\ r[j] = q[j - a]
             /\ k > a /\ k - a \in DOMAIN q /\ r[k] = q[k - a]
    <3>1. j - a = k - a  BY <1>9, <2>2 DEF Distinct
    <3> QED  BY <1>1, <1>2, <1>3, <3>1
  <2>3. CASE j \in DOMAIN p /\ r[j] = p[j] /\ k - a \in DOMAIN q /\ r[k] = q[k - a]
    BY <1>9, <2>3 DEF Ids
  <2>4. CASE k \in DOMAIN p /\ r[k] = p[k] /\ j - a \in DOMAIN q /\ r[j] = q[j - a]
    BY <1>9, <2>4 DEF Ids
  <2> QED  BY <1>4, <2>1, <2>2, <2>3, <2>4
<1>10. r \in Seq(Member)
  BY <1>2
<1> QED  BY <1>7, <1>8, <1>9, <1>10 DEF r

LEMMA SplitRoster ==
  ASSUME NEW q \in Seq(Member), NEW n \in 0..Len(q)
  PROVE  LET a == SubSeq(q, 1, n)
             b == SubSeq(q, n + 1, Len(q))
         IN  /\ a \in Seq(Member) /\ b \in Seq(Member) /\ Len(a) = n
             /\ Ids(a) \cup Ids(b) = Ids(q)
             /\ Distinct(q) => Distinct(a) /\ Distinct(b) /\ Ids(a) \cap Ids(b) = {}
<1> DEFINE a == SubSeq(q, 1, n)
           b == SubSeq(q, n + 1, Len(q))
<1>1. Len(q) \in Nat /\ DOMAIN q = 1..Len(q) /\ n \in Nat /\ n <= Len(q)
  BY SeqDomain
<1>2. \A k \in 1..Len(q) : q[k] \in Member
  BY SeqDomain
<1>3. a \in Seq(Member) /\ Len(a) = n /\ \A k \in 1..n : a[k] = q[k]
  <2>1. \A k \in 1..n : q[k] \in Member
    BY <1>1, <1>2
  <2>2. /\ a \in Seq(Member) /\ Len(a) = IF 1 <= n THEN n - 1 + 1 ELSE 0
        /\ \A k \in 1..(n - 1 + 1) : a[k] = q[1 + k - 1]
    BY <1>1, <2>1, SubSeqProperties
  <2> QED  BY <1>1, <2>2
<1>4. /\ b \in Seq(Member) /\ Len(b) = Len(q) - n
      /\ \A k \in 1..(Len(q) - n) : b[k] = q[n + k]
  <2>1. \A k \in (n + 1)..Len(q) : q[k] \in Member
    BY <1>1, <1>2
  <2>2. /\ b \in Seq(Member)
        /\ Len(b) = IF n + 1 <= Len(q) THEN Len(q) - (n + 1) + 1 ELSE 0
        /\ \A k \in 1..(Len(q) - (n + 1) + 1) : b[k] = q[n + 1 + k - 1]
    BY <1>1, <2>1, SubSeqProperties
  <2> QED  BY <1>1, <2>2
<1>5. DOMAIN a = 1..n /\ DOMAIN b = 1..(Len(q) - n)
  BY <1>3, <1>4, SeqDomain
<1>6. \A k \in DOMAIN a : k \in DOMAIN q /\ a[k] = q[k]
  BY <1>1, <1>3, <1>5
<1>7. \A k \in DOMAIN b : n + k \in DOMAIN q /\ b[k] = q[n + k]
  <2>1. \A k \in 1..(Len(q) - n) : n + k \in 1..Len(q)
    BY <1>1
  <2> QED  BY <1>1, <1>4, <1>5, <2>1
<1>8. \A j \in DOMAIN a, k \in DOMAIN b : j # n + k
  BY <1>1, <1>5
<1>9. \A j, k \in DOMAIN b : n + j = n + k => j = k
  BY <1>1, <1>5
<1>10. a \in Seq(Member) /\ b \in Seq(Member) /\ Len(a) = n
  BY <1>3, <1>4
<1> HIDE DEF a, b
<1>11. Ids(a) \cup Ids(b) = Ids(q)
  <2>1. Ids(a) \cup Ids(b) \subseteq Ids(q)
    BY <1>6, <1>7 DEF Ids
  <2>2. ASSUME NEW i \in DOMAIN q PROVE q[i].id \in Ids(a) \cup Ids(b)
    <3>1. CASE i <= n
      <4>1. i \in DOMAIN a
        BY <1>1, <1>5, <3>1
      <4> QED  BY <1>6, <4>1 DEF Ids
    <3>2. CASE ~(i <= n)
      <4>1. i - n \in DOMAIN b /\ n + (i - n) = i
        BY <1>1, <1>5, <3>2
      <4>2. b[i - n] = q[i]
        BY <1>7, <4>1
      <4> QED  BY <4>1, <4>2 DEF Ids
    <3> QED  BY <3>1, <3>2
  <2> QED  BY <2>1, <2>2 DEF Ids
<1>12. ASSUME Distinct(q) PROVE Distinct(a) /\ Distinct(b) /\ Ids(a) \cap Ids(b) = {}
  <2>1. Distinct(a)
    BY <1>6, <1>12 DEF Distinct
  <2>2. Distinct(b)
    BY <1>7, <1>9, <1>12 DEF Distinct
  <2>3. \A j \in DOMAIN a, k \in DOMAIN b : a[j].id # b[k].id
    BY <1>6, <1>7, <1>8, <1>12 DEF Distinct
  <2> QED  BY <2>1, <2>2, <2>3 DEF Ids
<1> QED  BY <1>10, <1>11, <1>12 DEF a, b

\* Replacing members by members of the same id keeps the ids where they are.
LEMMA ReplaceRoster ==
  ASSUME NEW q \in Seq(Member), NEW r, DOMAIN r = DOMAIN q, r = [k \in DOMAIN q |-> r[k]],
         \A k \in DOMAIN q : r[k] \in Member /\ r[k].id = q[k].id
  PROVE  r \in Seq(Member) /\ Ids(r) = Ids(q) /\ (Distinct(q) => Distinct(r))
<1>1. Len(q) \in Nat /\ DOMAIN q = 1..Len(q)
  BY SeqDomain
<1>2. r \in [1..Len(q) -> Member]
  BY <1>1
<1>3. r \in Seq(Member)
  BY <1>1, <1>2, SeqDef
<1>4. Ids(r) = Ids(q)
  BY DEF Ids
<1>5. Distinct(q) => Distinct(r)
  BY DEF Distinct
<1> QED  BY <1>3, <1>4, <1>5

LEMMA SingleRoster ==
  ASSUME NEW m \in Member
  PROVE  <<m>> \in Seq(Member) /\ Ids(<<m>>) = {m.id} /\ Distinct(<<m>>)
<1>1. <<m>> \in Seq(Member) /\ DOMAIN <<m>> = {1} /\ <<m>>[1] = m
  OBVIOUS
<1> QED  BY <1>1 DEF Ids, Distinct

LEMMA EmptyRoster == <<>> \in Seq(Member) /\ Ids(<<>>) = {} /\ Distinct(<<>>)
<1>1. <<>> \in Seq(Member) /\ DOMAIN <<>> = {}
  BY EmptySeq
<1> QED  BY <1>1 DEF Ids, Distinct

-----------------------------------------------------------------------------
(* Lane states.  Sound is the inductive invariant, as a predicate on one   *)
(* state: its four parts are needed together, since a verdict may put the  *)
(* roster back in the queue only because nothing in the roster is also     *)
(* queued or held.                                                         *)

HeldIds(s) == {e.id : e \in s.ejected}
Where(s) == Ids(s.queue) \cup Ids(s.inFlight) \cup HeldIds(s)

HeldOnce(s) == \A e, f \in s.ejected : e.id = f.id => e = f
Apart(s) == /\ Ids(s.queue) \cap Ids(s.inFlight) = {}
            /\ HeldIds(s) \cap (Ids(s.queue) \cup Ids(s.inFlight)) = {}
OnePlace(s) == Distinct(s.queue) /\ Distinct(s.inFlight) /\ HeldOnce(s) /\ Apart(s)

Deadlines(s) == /\ \A e \in s.ejected : e.expires <= s.now + EjectTtl
                /\ s.infraRetryAfter <= s.now + InfraBackoff
                /\ s.queuedSince <= s.now

Roster(s) == /\ s.phase = "Idle" => s.inFlight = <<>>
             /\ Len(s.inFlight) <= MaxMembers

Sound(s) == s \in LaneState /\ OnePlace(s) /\ Deadlines(s) /\ Roster(s)

LEMMA NewLaneSound == Sound(NewLane) /\ Where(NewLane) = {}
<1>1. <<>> \in Seq(Member) /\ Ids(<<>>) = {} /\ Distinct(<<>>) /\ Len(<<>>) = 0
  BY EmptyRoster, EmptySeq
<1>2. NewLane \in LaneState
  BY <1>1 DEF NewLane, LaneState, MaybeTick, None
<1>3. OnePlace(NewLane) /\ Where(NewLane) = {}
  BY <1>1 DEF NewLane, OnePlace, HeldOnce, Apart, Where, HeldIds
<1>4. Deadlines(NewLane)
  BY ConfigAssumption DEF NewLane, Deadlines, None
<1>5. Roster(NewLane)
  BY <1>1, ConfigAssumption DEF NewLane, Roster
<1> QED  BY <1>2, <1>3, <1>4, <1>5 DEF Sound

\* Lifting an ejection only takes its id out of the lane.
LEMMA LiftSound ==
  ASSUME NEW s, Sound(s), NEW id
  PROVE  /\ Sound(Lift(s, id))
         /\ HeldIds(Lift(s, id)) = HeldIds(s) \ {id}
         /\ Where(Lift(s, id)) \subseteq Where(s)
         /\ Where(s) \subseteq Where(Lift(s, id)) \cup {id}
         /\ Lift(s, id).queue = s.queue /\ Lift(s, id).inFlight = s.inFlight
<1> DEFINE t == Lift(s, id)
<1>1. s \in LaneState
  BY DEF Sound
<1>2. t \in LaneState /\ t.queue = s.queue /\ t.inFlight = s.inFlight /\ t.now = s.now
      /\ t.infraRetryAfter = s.infraRetryAfter /\ t.queuedSince = s.queuedSince
      /\ t.phase = s.phase /\ t.ejected = {e \in s.ejected : e.id # id}
  BY <1>1 DEF Lift, LaneState
<1> HIDE DEF t
<1>3. HeldIds(t) = HeldIds(s) \ {id}
  BY <1>2 DEF HeldIds
<1>4. Where(t) \subseteq Where(s) /\ Where(s) \subseteq Where(t) \cup {id}
  BY <1>2, <1>3 DEF Where
<1>5. OnePlace(t)
  BY <1>2, <1>3 DEF Sound, OnePlace, HeldOnce, Apart
<1>6. Deadlines(t) /\ Roster(t)
  BY <1>2 DEF Sound, Deadlines, Roster
<1> QED  BY <1>2, <1>3, <1>4, <1>5, <1>6 DEF Sound, t

\* Admitting a member that is neither building nor held queues it once.
LEMMA AdmitSound ==
  ASSUME NEW s, Sound(s), NEW m \in Member, m.id \notin Ids(s.inFlight), m.id \notin HeldIds(s)
  PROVE  Sound(Admit(s, m)) /\ Where(Admit(s, m)) = Where(s) \cup {m.id}
<1> DEFINE t == Admit(s, m)
           q == s.queue
           r == [k \in DOMAIN q |-> IF q[k].id = m.id THEN m ELSE q[k]]
<1>1. s \in LaneState /\ q \in Seq(Member) /\ Distinct(q)
  BY DEF Sound, OnePlace, LaneState
<1>2. /\ t.queue \in Seq(Member) /\ Distinct(t.queue)
      /\ Ids(t.queue) = Ids(q) \cup {m.id}
  <2>1. CASE m.id \in Ids(q)
    <3>1. t.queue = r
      BY <1>1, <2>1 DEF Admit, LaneState
    <3>2. \A k \in DOMAIN q : r[k] \in Member /\ r[k].id = q[k].id
      BY <1>1, SeqDomain
    <3>3. r \in Seq(Member) /\ Ids(r) = Ids(q) /\ Distinct(r)
      BY <1>1, <3>2, ReplaceRoster
    <3> QED  BY <2>1, <3>1, <3>3
  <2>2. CASE m.id \notin Ids(q)
    <3>1. t.queue = q \o <<m>>
      <4>1. t.queue = Append(q, m)
        BY <1>1, <2>2 DEF Admit, LaneState
      <4> QED  BY <1>1, <4>1, AppendIsConcat
    <3>2. <<m>> \in Seq(Member) /\ Ids(<<m>>) = {m.id} /\ Distinct(<<m>>)
      BY SingleRoster
    <3>3. q \o <<m>> \in Seq(Member) /\ Ids(q \o <<m>>) = Ids(q) \cup Ids(<<m>>)
          /\ Distinct(q \o <<m>>)
      BY <1>1, <2>2, <3>2, ConcatRoster
    <3> QED  BY <3>1, <3>2, <3>3
  <2> QED  BY <2>1, <2>2
<1>3. t \in LaneState /\ t.inFlight = s.inFlight /\ t.now = s.now /\ t.ejected = s.ejected
      /\ t.infraRetryAfter = s.infraRetryAfter /\ t.queuedSince = s.queuedSince
      /\ t.phase = s.phase
  BY <1>1, <1>2 DEF Admit, LaneState
<1> HIDE DEF t, q
<1>4. HeldIds(t) = HeldIds(s)
  BY <1>3 DEF HeldIds
<1>5. Where(t) = Where(s) \cup {m.id}
  BY <1>2, <1>3, <1>4 DEF Where, q
<1>6. OnePlace(t)
  BY <1>2, <1>3, <1>4 DEF Sound, OnePlace, HeldOnce, Apart, q
<1>7. Deadlines(t) /\ Roster(t)
  BY <1>3 DEF Sound, Deadlines, Roster
<1> QED  BY <1>3, <1>5, <1>6, <1>7 DEF Sound, t

\* What the enqueue, readmission and head-move handlers are made of.
LEMMA AdmitNewSound ==
  ASSUME NEW s, Sound(s), NEW m \in Member, m.id \notin Ids(s.inFlight), m.id \notin HeldIds(s)
  PROVE  Sound(AdmitNew(s, m)) /\ Where(AdmitNew(s, m)) = Where(s) \cup {m.id}
<1> DEFINE since == IF s.phase = "Idle" /\ s.queue = <<>> /\ s.queuedSince = None
                    THEN s.now ELSE s.queuedSince
           u == [s EXCEPT !.queuedSince = since]
<1>1. s \in LaneState
  BY DEF Sound
<1>2. since \in MaybeTick /\ since <= s.now
  BY <1>1 DEF Sound, Deadlines, LaneState, MaybeTick
<1> HIDE DEF since
<1>3. /\ u \in LaneState /\ u.queue = s.queue /\ u.inFlight = s.inFlight /\ u.now = s.now
      /\ u.ejected = s.ejected /\ u.infraRetryAfter = s.infraRetryAfter
      /\ u.queuedSince = since /\ u.phase = s.phase
  BY <1>1, <1>2 DEF LaneState
<1>4. AdmitNew(s, m) = Admit(u, m)
  BY DEF AdmitNew, since
<1> HIDE DEF u
<1>5. HeldIds(u) = HeldIds(s) /\ Where(u) = Where(s)
  BY <1>3 DEF HeldIds, Where
<1>6. OnePlace(u)
  BY <1>3, <1>5 DEF Sound, OnePlace, HeldOnce, Apart
<1>7. Deadlines(u) /\ Roster(u)
  BY <1>2, <1>3 DEF Sound, Deadlines, Roster
<1>8. Sound(u)
  BY <1>3, <1>6, <1>7 DEF Sound
<1>9. Sound(Admit(u, m)) /\ Where(Admit(u, m)) = Where(u) \cup {m.id}
  BY <1>3, <1>5, <1>8, AdmitSound
<1> QED  BY <1>4, <1>5, <1>9

LEMMA EnqueueSound ==
  ASSUME NEW s, Sound(s), NEW m \in Member, m.id \notin Ids(s.inFlight)
  PROVE  Sound(OnEnqueue(s, m)) /\ Where(OnEnqueue(s, m)) = Where(s) \cup {m.id}
<1> DEFINE u == Lift(s, m.id)
<1>1. Sound(u) /\ HeldIds(u) = HeldIds(s) \ {m.id} /\ Where(u) \subseteq Where(s)
      /\ Where(s) \subseteq Where(u) \cup {m.id}
      /\ u.inFlight = s.inFlight
  BY LiftSound
<1> HIDE DEF u
<1>2. Sound(AdmitNew(u, m)) /\ Where(AdmitNew(u, m)) = Where(u) \cup {m.id}
  BY <1>1, AdmitNewSound
<1>3. \/ OnEnqueue(s, m) = s /\ HeldFor(s, m.id) # {}
      \/ OnEnqueue(s, m) = AdmitNew(u, m)
  BY DEF OnEnqueue, u
<1>4. HeldFor(s, m.id) # {} => m.id \in Where(s)
  BY DEF HeldFor, HeldIds, Where
<1> QED  BY <1>1, <1>2, <1>3, <1>4

LEMMA HeadMovedSound ==
  ASSUME NEW s, Sound(s), NEW m \in Member
  PROVE  Sound(OnHeadMoved(s, m)) /\ Where(OnHeadMoved(s, m)) \subseteq Where(s)
<1> DEFINE u == Lift(s, m.id)
<1>1. Sound(u) /\ HeldIds(u) = HeldIds(s) \ {m.id} /\ Where(u) \subseteq Where(s)
      /\ u.inFlight = s.inFlight
  BY LiftSound
<1>2. HeldFor(s, m.id) # {} <=> m.id \in HeldIds(s)
  BY DEF HeldFor, HeldIds
<1>3. CASE OnHeadMoved(s, m) = s
  BY <1>3
<1>4. CASE m.id \in HeldIds(s) /\ OnHeadMoved(s, m) = Admit(u, m)
  <2>1. m.id \notin Ids(s.inFlight) /\ m.id \in Where(s)
    BY <1>4 DEF Sound, OnePlace, Apart, Where
  <2>2. m.id \notin Ids(u.inFlight) /\ m.id \notin HeldIds(u)
    BY <1>1, <2>1
  <2> HIDE DEF u
  <2>3. Sound(Admit(u, m)) /\ Where(Admit(u, m)) \subseteq Where(u) \cup {m.id}
    BY <1>1, <2>2, AdmitSound
  <2> QED  BY <1>1, <1>4, <2>1, <2>3
<1>5. CASE /\ m.id \notin HeldIds(s) /\ m.id \in Ids(s.queue)
           /\ OnHeadMoved(s, m) = Admit(s, m)
  <2>1. m.id \notin Ids(s.inFlight) /\ m.id \in Where(s)
    BY <1>5 DEF Sound, OnePlace, Apart, Where
  <2>2. Sound(Admit(s, m)) /\ Where(Admit(s, m)) \subseteq Where(s) \cup {m.id}
    BY <1>5, <2>1, AdmitSound
  <2> QED  BY <1>5, <2>1, <2>2
<1>6. \/ OnHeadMoved(s, m) = s
      \/ m.id \in HeldIds(s) /\ OnHeadMoved(s, m) = Admit(u, m)
      \/ /\ m.id \notin HeldIds(s) /\ m.id \in Ids(s.queue)
         /\ OnHeadMoved(s, m) = Admit(s, m)
  <2>1. CASE m.id \in HeldIds(s)
    BY <1>2, <2>1 DEF OnHeadMoved
  <2>2. CASE m.id \notin HeldIds(s)
    BY <1>2, <2>2 DEF OnHeadMoved
  <2> QED  BY <2>1, <2>2
<1> QED  BY <1>3, <1>4, <1>5, <1>6

LEMMA ForceReadmitSound ==
  ASSUME NEW s, Sound(s), NEW id \in Id
  PROVE  Sound(OnForceReadmit(s, id)) /\ Where(OnForceReadmit(s, id)) = Where(s)
<1>1. CASE HeldFor(s, id) = {}
  BY <1>1 DEF OnForceReadmit
<1>2. CASE HeldFor(s, id) # {}
  <2> DEFINE e == CHOOSE e \in HeldFor(s, id) : TRUE
             m == [id |-> id, head |-> e.head]
             u == Lift(s, id)
  <2>1. e \in s.ejected /\ e.id = id
    BY <1>2 DEF HeldFor
  <2>2. m \in Member /\ m.id = id
    BY <2>1 DEF Sound, LaneState, Ejection, Member
  <2>3. Sound(u) /\ HeldIds(u) = HeldIds(s) \ {id} /\ Where(u) \subseteq Where(s)
        /\ Where(s) \subseteq Where(u) \cup {id}
        /\ u.inFlight = s.inFlight
    BY LiftSound
  <2>4. id \in HeldIds(s)
    BY <2>1 DEF HeldIds
  <2>5. id \notin Ids(s.inFlight) /\ id \in Where(s)
    BY <2>4 DEF Sound, OnePlace, Apart, Where
  <2>6. OnForceReadmit(s, id) = Admit(u, m)
    BY <1>2 DEF OnForceReadmit
  <2> HIDE DEF u, m, e
  <2>7. Sound(Admit(u, m)) /\ Where(Admit(u, m)) = Where(u) \cup {m.id}
    BY <2>2, <2>3, <2>5, AdmitSound
  <2> QED  BY <2>2, <2>3, <2>5, <2>6, <2>7
<1> QED  BY <1>1, <1>2

\* A withdrawn id is nowhere, and no other id moved.
LEMMA WithdrawSound ==
  ASSUME NEW s, Sound(s), NEW id \in Id
  PROVE  Sound(OnWithdraw(s, id)) /\ Where(OnWithdraw(s, id)) = Where(s) \ {id}
<1> DEFINE t == OnWithdraw(s, id)
           q == Without(s.queue, id)
           f == Without(s.inFlight, id)
<1>1. s \in LaneState /\ s.queue \in Seq(Member) /\ s.inFlight \in Seq(Member)
  BY DEF Sound, LaneState
<1>2. /\ q \in Seq(Member) /\ Ids(q) = Ids(s.queue) \ {id} /\ (Distinct(s.queue) => Distinct(q))
      /\ f \in Seq(Member) /\ Ids(f) = Ids(s.inFlight) \ {id} /\ Len(f) <= Len(s.inFlight)
      /\ (Distinct(s.inFlight) => Distinct(f))
  BY <1>1, WithoutRoster
<1> HIDE DEF q, f
<1>3. t \in LaneState /\ t.queue = q /\ t.inFlight = f /\ t.now = s.now
      /\ t.infraRetryAfter = s.infraRetryAfter /\ t.queuedSince = s.queuedSince
      /\ t.phase = s.phase /\ t.ejected = {e \in s.ejected : e.id # id}
  BY <1>1, <1>2 DEF OnWithdraw, Lift, LaneState, q, f
<1> HIDE DEF t
<1>4. HeldIds(t) = HeldIds(s) \ {id}
  BY <1>3 DEF HeldIds
<1>5. Where(t) = Where(s) \ {id}
  BY <1>2, <1>3, <1>4 DEF Where
<1>6. OnePlace(t)
  BY <1>2, <1>3, <1>4 DEF Sound, OnePlace, HeldOnce, Apart
<1>7. Deadlines(t)
  BY <1>3 DEF Sound, Deadlines
<1>8. Roster(t)
  <2>1. Len(f) \in Nat /\ Len(s.inFlight) \in Nat
    BY <1>1, <1>2, LenProperties
  <2>2. Len(t.inFlight) <= MaxMembers
    BY <1>2, <1>3, <2>1, ConfigAssumption DEF Sound, Roster
  <2>3. s.inFlight = <<>> => f = <<>>
    BY <1>1, <1>2, <2>1, EmptySeq
  <2> QED  BY <1>3, <2>2, <2>3 DEF Sound, Roster
<1> QED  BY <1>3, <1>5, <1>6, <1>7, <1>8 DEF Sound, t

-----------------------------------------------------------------------------
(* Time.                                                                   *)

LEMMA AdvanceSound ==
  ASSUME NEW s, Sound(s), NEW n \in Nat
  PROVE  Sound(AdvanceClock(s, n)) /\ Where(AdvanceClock(s, n)) = Where(s)
<1> DEFINE t == AdvanceClock(s, n)
<1>1. s \in LaneState
  BY DEF Sound
<1>2. t \in LaneState /\ t.queue = s.queue /\ t.inFlight = s.inFlight /\ t.now \in Nat
      /\ s.now <= t.now /\ t.ejected = s.ejected /\ t.infraRetryAfter = s.infraRetryAfter
      /\ t.queuedSince = s.queuedSince /\ t.phase = s.phase
  BY <1>1, SMTT(30) DEF AdvanceClock, LaneState
<1> HIDE DEF t
<1>3. HeldIds(t) = HeldIds(s) /\ Where(t) = Where(s)
  BY <1>2 DEF HeldIds, Where
<1>4. OnePlace(t)
  BY <1>2, <1>3 DEF Sound, OnePlace, HeldOnce, Apart
<1>5. Deadlines(t)
  <2>1. s.now \in Int /\ t.now \in Int /\ s.infraRetryAfter \in Int /\ s.queuedSince \in Int
        /\ \A e \in s.ejected : e.expires \in Int
    BY <1>1, <1>2 DEF LaneState, MaybeTick, None, Ejection
  <2> QED  BY <1>2, <2>1, ConfigAssumption DEF Sound, Deadlines
<1>6. Roster(t)
  BY <1>2 DEF Sound, Roster
<1> QED  BY <1>2, <1>3, <1>4, <1>5, <1>6 DEF Sound, t

\* The lapsed members are those whose ejection is due, once each.
LEMMA LapsedRoster ==
  ASSUME NEW s, s \in LaneState
  PROVE  /\ Lapsed(s) \in Seq(Member) /\ Distinct(Lapsed(s))
         /\ Ids(Lapsed(s)) = {e.id : e \in {f \in s.ejected : s.now >= f.expires}}
<1> DEFINE due == {e \in s.ejected : s.now >= e.expires}
           I == {e.id : e \in due}
           n == Cardinality(I)
           m(k) == [id |-> Nth(I, k), head |-> (CHOOSE e \in due : e.id = Nth(I, k)).head]
           p == Lapsed(s)
<1>1. \A e \in due : e.id \in Id /\ e.head \in Commit
  BY DEF LaneState, Ejection
<1>2. I \in SUBSET Id
  BY <1>1
<1>3. I \in SUBSET Nat /\ IsFiniteSet(I)
  BY <1>2, IdAssumption, FS_Subset
<1>4. n \in Nat
  BY <1>3, FS_CardinalityType
<1>5. \A k \in 1..n : Nth(I, k) \in I
  BY <1>3, NthElement
<1>6. \A k \in 1..n : m(k) \in Member
  <2> SUFFICES ASSUME NEW k \in 1..n PROVE m(k) \in Member
    OBVIOUS
  <2>1. \E e \in due : e.id = Nth(I, k)
    BY <1>5
  <2>2. (CHOOSE e \in due : e.id = Nth(I, k)) \in due
    BY <2>1
  <2>3. Nth(I, k) \in Id
    BY <1>2, <1>5
  <2> QED  BY <1>1, <2>2, <2>3 DEF Member
<1>7. p = [k \in 1..n |-> m(k)]
  BY DEF Lapsed
<1>8. p \in Seq(Member)
  <2>1. p \in [1..n -> Member]
    BY <1>6, <1>7
  <2> QED  BY <1>4, <2>1, SeqDef
<1>9. DOMAIN p = 1..n /\ \A k \in 1..n : p[k].id = Nth(I, k)
  <2>1. \A k \in 1..n : m(k).id = Nth(I, k)
    OBVIOUS
  <2> HIDE DEF m, I, n, p
  <2> QED  BY <1>7, <2>1
<1>10. \A i \in I : \E k \in 1..n : Nth(I, k) = i
  BY <1>3, NthOnto
<1> HIDE DEF p, n, I
<1>11. Ids(p) = I
  BY <1>5, <1>9, <1>10 DEF Ids
<1>12. Distinct(p)
  <2> SUFFICES ASSUME NEW j \in 1..n, NEW k \in 1..n, p[j].id = p[k].id PROVE j = k
    BY <1>9 DEF Distinct
  <2>1. Nth(I, j) = Nth(I, k) /\ Rank(I, Nth(I, j)) = j /\ Rank(I, Nth(I, k)) = k
    BY <1>3, <1>9, NthElement DEF n
  <2> QED  BY <2>1
<1> QED  BY <1>8, <1>11, <1>12 DEF p, I

LEMMA AdmitAllRoster ==
  ASSUME NEW q \in Seq(Member), NEW ms \in Seq(Member)
  PROVE  /\ AdmitAll(q, ms) \in Seq(Member)
         /\ Ids(AdmitAll(q, ms)) = Ids(q) \cup Ids(ms)
         /\ Distinct(q) /\ Distinct(ms) => Distinct(AdmitAll(q, ms))
<1> DEFINE r == [k \in DOMAIN q |-> IF q[k].id \in Ids(ms)
                                    THEN CHOOSE m \in Members(ms) : m.id = q[k].id
                                    ELSE q[k]]
           I == {k \in DOMAIN ms : ms[k].id \notin Ids(q)}
           b == Keep(ms, I)
<1>1. \A k \in DOMAIN q : r[k] \in Member /\ r[k].id = q[k].id
  <2> SUFFICES ASSUME NEW k \in DOMAIN q PROVE r[k] \in Member /\ r[k].id = q[k].id
    OBVIOUS
  <2>1. CASE q[k].id \in Ids(ms)
    <3>1. \E m \in Members(ms) : m.id = q[k].id
      BY <2>1 DEF Ids, Members
    <3>2. r[k] \in Members(ms) /\ r[k].id = q[k].id
      BY <2>1, <3>1
    <3>3. Members(ms) \subseteq Member
      BY SeqDomain DEF Members
    <3> QED  BY <3>2, <3>3
  <2>2. CASE q[k].id \notin Ids(ms)
    BY <2>2, SeqDomain
  <2> QED  BY <2>1, <2>2
<1>2. r \in Seq(Member) /\ Ids(r) = Ids(q) /\ (Distinct(q) => Distinct(r))
  BY <1>1, ReplaceRoster, SMTT(30)
<1>3. I \in SUBSET DOMAIN ms
  OBVIOUS
<1>4. AdmitAll(q, ms) = r \o b
  BY DEF AdmitAll
<1>5. {ms[k].id : k \in I} = Ids(ms) \ Ids(q)
  BY DEF Ids
<1> HIDE DEF I, r
<1>6. /\ b \in Seq(Member) /\ Ids(b) = {ms[k].id : k \in I}
      /\ Distinct(ms) => Distinct(b)
  BY <1>3, KeepRoster
<1> HIDE DEF b
<1>7. /\ r \o b \in Seq(Member) /\ Ids(r \o b) = Ids(r) \cup Ids(b)
      /\ Distinct(r) /\ Distinct(b) /\ Ids(r) \cap Ids(b) = {} => Distinct(r \o b)
  BY <1>2, <1>6, ConcatRoster
<1> QED  BY <1>2, <1>4, <1>5, <1>6, <1>7

LEMMA TickSound ==
  ASSUME NEW s, Sound(s), NEW n \in Nat
  PROVE  Sound(OnTick(s, n)) /\ Where(OnTick(s, n)) = Where(s)
<1> DEFINE a == AdvanceClock(s, n)
           ms == Lapsed(a)
           q == AdmitAll(a.queue, ms)
           kept == {e \in a.ejected : a.now < e.expires}
           t == OnTick(s, n)
<1>1. Sound(a) /\ Where(a) = Where(s)
  BY AdvanceSound
<1>2. t = [a EXCEPT !.queue = q, !.ejected = kept]
  BY DEF OnTick
<1> HIDE DEF a, t
<1>3. a \in LaneState /\ a.queue \in Seq(Member) /\ kept \subseteq a.ejected
  BY <1>1 DEF Sound, LaneState
<1>4. /\ ms \in Seq(Member) /\ Distinct(ms)
      /\ Ids(ms) = {e.id : e \in {f \in a.ejected : a.now >= f.expires}}
  BY <1>3, LapsedRoster
<1>5. \A e \in a.ejected : e.expires \in Int /\ a.now \in Int
  BY <1>3 DEF LaneState, Ejection
<1>6. Ids(ms) \subseteq HeldIds(a)
  BY <1>4 DEF HeldIds
<1>7. {e.id : e \in kept} \cap Ids(ms) = {}
  BY <1>1, <1>4, <1>5 DEF Sound, OnePlace, HeldOnce
<1> HIDE DEF ms
<1>8. /\ q \in Seq(Member) /\ Ids(q) = Ids(a.queue) \cup Ids(ms)
      /\ Distinct(a.queue) /\ Distinct(ms) => Distinct(q)
  BY <1>3, <1>4, AdmitAllRoster
<1> HIDE DEF q, kept
<1>9. /\ t \in LaneState /\ t.queue = q /\ t.ejected = kept /\ t.inFlight = a.inFlight
      /\ t.now = a.now /\ t.infraRetryAfter = a.infraRetryAfter
      /\ t.queuedSince = a.queuedSince /\ t.phase = a.phase
  BY <1>2, <1>3, <1>8 DEF LaneState
<1>10. HeldIds(t) = HeldIds(a) \ Ids(ms)
  <2>1. HeldIds(t) = {e.id : e \in kept} /\ HeldIds(a) = {e.id : e \in a.ejected}
    BY <1>9 DEF HeldIds
  <2>2. \A e \in a.ejected : e \in kept \/ e.id \in Ids(ms)
    BY <1>4, <1>5 DEF kept
  <2> QED  BY <1>3, <1>7, <2>1, <2>2
<1>11. Where(t) = Where(s)
  BY <1>1, <1>6, <1>8, <1>9, <1>10 DEF Where
<1>12. OnePlace(t)
  <2>1. Distinct(t.queue) /\ Distinct(t.inFlight)
    BY <1>1, <1>4, <1>8, <1>9 DEF Sound, OnePlace
  <2>2. HeldOnce(t)
    BY <1>1, <1>3, <1>9 DEF Sound, OnePlace, HeldOnce
  <2>3. Apart(t)
    BY <1>1, <1>6, <1>8, <1>9, <1>10 DEF Sound, OnePlace, Apart
  <2> QED  BY <2>1, <2>2, <2>3 DEF OnePlace
<1>13. Deadlines(t) /\ Roster(t)
  BY <1>1, <1>3, <1>9 DEF Sound, Deadlines, Roster
<1> QED  BY <1>9, <1>11, <1>12, <1>13 DEF Sound, t

\* The two changes of the failure streak leave every member where it is.
LEMMA StreakSound ==
  ASSUME NEW s, Sound(s), NEW f \in Nat, NEW r \in MaybeTick, r <= s.now + InfraBackoff
  PROVE  LET t == [s EXCEPT !.infraFailures = f, !.infraRetryAfter = r]
         IN  Sound(t) /\ Where(t) = Where(s)
<1> DEFINE t == [s EXCEPT !.infraFailures = f, !.infraRetryAfter = r]
<1>1. s \in LaneState
  BY DEF Sound
<1>2. t \in LaneState /\ t.queue = s.queue /\ t.inFlight = s.inFlight /\ t.now = s.now
      /\ t.ejected = s.ejected /\ t.infraRetryAfter = r
      /\ t.queuedSince = s.queuedSince /\ t.phase = s.phase
  BY <1>1 DEF LaneState
<1> HIDE DEF t
<1>3. HeldIds(t) = HeldIds(s) /\ Where(t) = Where(s)
  BY <1>2 DEF HeldIds, Where
<1>4. OnePlace(t)
  BY <1>2, <1>3 DEF Sound, OnePlace, HeldOnce, Apart
<1>5. Deadlines(t) /\ Roster(t)
  BY <1>2 DEF Sound, Deadlines, Roster
<1> QED  BY <1>2, <1>3, <1>4, <1>5 DEF Sound, t

LEMMA LandFailedSound ==
  ASSUME NEW s, Sound(s)
  PROVE  Sound(OnLandFailed(s)) /\ Where(OnLandFailed(s)) = Where(s)
<1>1. /\ s.infraFailures + 1 \in Nat /\ s.now + InfraBackoff \in MaybeTick
      /\ s.now + InfraBackoff <= s.now + InfraBackoff
  BY ConfigAssumption DEF Sound, LaneState, MaybeTick
<1> QED  BY <1>1, StreakSound DEF OnLandFailed

LEMMA ClearStreakSound ==
  ASSUME NEW s, Sound(s)
  PROVE  Sound(ClearStreak(s)) /\ Where(ClearStreak(s)) = Where(s)
<1>1. 0 \in Nat /\ None \in MaybeTick /\ None <= s.now + InfraBackoff
  BY ConfigAssumption DEF Sound, LaneState, MaybeTick, None
<1> QED  BY <1>1, StreakSound DEF ClearStreak

-----------------------------------------------------------------------------
(* The verdict.  Free(s, ms): the members of the roster ms are nowhere in  *)
(* the lane s, so each can be requeued or held.                            *)

Free(s, ms) == /\ Sound(s) /\ ms \in Seq(Member) /\ Distinct(ms)
               /\ Ids(ms) \cap Where(s) = {}

\* u is s with the members of the roster ms in it again, each in one place.
Settles(s, ms, u) == Sound(u) /\ Where(u) = Where(s) \cup Ids(ms)

LEMMA EjectSound ==
  ASSUME NEW s, NEW ms, Free(s, ms), NEW kind \in Kind, NEW files,
         DOMAIN files \subseteq DOMAIN ms, \A k \in DOMAIN files : files[k] \in SUBSET File
  PROVE  LET t == Eject(s, ms, kind, files)
         IN  /\ Sound(t)
             /\ HeldIds(t) = HeldIds(s) \cup {ms[k].id : k \in DOMAIN files}
             /\ t.queue = s.queue /\ t.inFlight = s.inFlight
<1> DEFINE h(k) == [id |-> ms[k].id, head |-> ms[k].head, kind |-> kind,
                    files |-> files[k], expires |-> s.now + EjectTtl]
           held == {h(k) : k \in DOMAIN files}
           kept == {e \in s.ejected : \A x \in held : x.id # e.id}
           t == Eject(s, ms, kind, files)
<1>1. s \in LaneState /\ ms \in Seq(Member)
  BY DEF Free, Sound
<1>2. s.now + EjectTtl \in Nat
  BY <1>1, ConfigAssumption DEF LaneState
<1>3. \A k \in DOMAIN ms : ms[k].id \in Id /\ ms[k].head \in Commit
  BY <1>1, SeqDomain, MemberFields
<1>4. \A k \in DOMAIN files : h(k) \in Ejection
  BY <1>2, <1>3 DEF Ejection
<1>5. held \subseteq Ejection /\ kept \subseteq s.ejected
  BY <1>4
<1>6. \A k \in DOMAIN files : h(k).id = ms[k].id /\ h(k).expires = s.now + EjectTtl
  OBVIOUS
<1>7. {x.id : x \in held} = {ms[k].id : k \in DOMAIN files}
  BY <1>6, ZenonT(60)
<1>8. \A x \in held : x.expires = s.now + EjectTtl
  BY <1>6
<1>9. \A x, y \in held : x.id = y.id => x = y
  <2> SUFFICES ASSUME NEW j \in DOMAIN files, NEW k \in DOMAIN files, h(j).id = h(k).id
               PROVE  h(j) = h(k)
    OBVIOUS
  <2>1. j = k
    BY <1>6 DEF Free, Distinct
  <2> QED  BY <2>1
<1>10. t = [s EXCEPT !.ejected = kept \cup held]
  BY DEF Eject
<1> HIDE DEF t, held
<1>11. /\ t \in LaneState /\ t.queue = s.queue /\ t.inFlight = s.inFlight /\ t.now = s.now
       /\ t.ejected = kept \cup held /\ t.infraRetryAfter = s.infraRetryAfter
       /\ t.queuedSince = s.queuedSince /\ t.phase = s.phase
  BY <1>1, <1>5, <1>10 DEF LaneState
<1>12. {e.id : e \in kept} \cup {x.id : x \in held} = HeldIds(s) \cup {x.id : x \in held}
  BY DEF HeldIds
<1>13. HeldIds(t) = HeldIds(s) \cup {x.id : x \in held}
  BY <1>11, <1>12 DEF HeldIds
<1>14. {x.id : x \in held} \subseteq Ids(ms)
  BY <1>7 DEF Ids
<1>15. HeldOnce(t)
  BY <1>9, <1>11 DEF Free, Sound, OnePlace, HeldOnce
<1>16. Apart(t)
  BY <1>11, <1>13, <1>14 DEF Free, Sound, OnePlace, Apart, Where
<1>17. OnePlace(t)
  BY <1>11, <1>15, <1>16 DEF Free, Sound, OnePlace
<1>18. Deadlines(t)
  BY <1>2, <1>8, <1>11 DEF Free, Sound, Deadlines
<1>19. Roster(t)
  BY <1>11 DEF Free, Sound, Roster
<1> QED  BY <1>7, <1>11, <1>13, <1>17, <1>18, <1>19 DEF Sound, t

\* Members that are nowhere may be put at the front or the back of the queue.
LEMMA RequeueSound ==
  ASSUME NEW s, NEW p, Free(s, p), NEW t,
         \/ t = [s EXCEPT !.queue = p \o s.queue] \/ t = [s EXCEPT !.queue = s.queue \o p]
  PROVE  Settles(s, p, t)
<1>0. PICK q \in {p \o s.queue, s.queue \o p} : t = [s EXCEPT !.queue = q]
  OBVIOUS
<1>1. s \in LaneState /\ p \in Seq(Member) /\ s.queue \in Seq(Member)
  BY DEF Free, Sound, LaneState
<1>2. Distinct(p) /\ Distinct(s.queue) /\ Ids(p) \cap Ids(s.queue) = {}
  BY DEF Free, Sound, OnePlace, Where
<1>3. q \in Seq(Member) /\ Ids(q) = Ids(p) \cup Ids(s.queue) /\ Distinct(q)
  <2>1. CASE q = p \o s.queue
    BY <1>1, <1>2, <2>1, ConcatRoster
  <2>2. CASE q = s.queue \o p
    <3>1. Ids(s.queue) \cap Ids(p) = {}
      BY <1>2
    <3> QED  BY <1>1, <1>2, <2>2, <3>1, ConcatRoster
  <2> QED  BY <2>1, <2>2
<1>4. t \in LaneState /\ t.queue = q /\ t.inFlight = s.inFlight /\ t.now = s.now
      /\ t.ejected = s.ejected /\ t.infraRetryAfter = s.infraRetryAfter
      /\ t.queuedSince = s.queuedSince /\ t.phase = s.phase
  BY <1>0, <1>1, <1>3 DEF LaneState
<1>5. HeldIds(t) = HeldIds(s)
  BY <1>4 DEF HeldIds
<1>6. Where(t) = Where(s) \cup Ids(p)
  BY <1>3, <1>4, <1>5 DEF Where
<1>7. OnePlace(t)
  BY <1>3, <1>4, <1>5 DEF Free, Sound, OnePlace, HeldOnce, Apart, Where
<1>8. Deadlines(t) /\ Roster(t)
  BY <1>4 DEF Free, Sound, Deadlines, Roster
<1> QED  BY <1>4, <1>6, <1>7, <1>8 DEF Sound, Settles

LEMMA EjectAllSound ==
  ASSUME NEW s, NEW ms, Free(s, ms), NEW kind \in Kind
  PROVE  /\ Settles(s, ms, EjectAll(s, ms, kind))
         /\ Ids(ms) \subseteq HeldIds(EjectAll(s, ms, kind))
<1> DEFINE none == [k \in DOMAIN ms |-> {}]
           t == Eject(s, ms, kind, none)
<1>1. DOMAIN none \subseteq DOMAIN ms /\ \A k \in DOMAIN none : none[k] \in SUBSET File
  OBVIOUS
<1> HIDE DEF none
<1>2. /\ Sound(t) /\ HeldIds(t) = HeldIds(s) \cup {ms[k].id : k \in DOMAIN none}
      /\ t.queue = s.queue /\ t.inFlight = s.inFlight
  BY <1>1, EjectSound
<1>3. {ms[k].id : k \in DOMAIN none} = Ids(ms)
  BY DEF none, Ids
<1> HIDE DEF t
<1>4. Where(t) = Where(s) \cup Ids(ms)
  BY <1>2, <1>3 DEF Where
<1> QED  BY <1>2, <1>3, <1>4 DEF EjectAll, Settles, t, none

\* The failed infrastructure either holds the roster or puts it back in front.
LEMMA InfraSound ==
  ASSUME NEW s, NEW ms, Free(s, ms)
  PROVE  /\ Settles(s, ms, OnInfra(s, ms))
         /\ \/ OnInfra(s, ms).infraRetryAfter = s.now + InfraBackoff
            \/ Ids(ms) \subseteq HeldIds(OnInfra(s, ms))
<1>1. CASE s.infraFailures + 1 >= InfraMaxAttempts
  <2> DEFINE u == ClearStreak(s)
  <2>1. Sound(u) /\ Where(u) = Where(s)
    BY ClearStreakSound DEF Free
  <2>2. Free(u, ms)
    BY <2>1 DEF Free
  <2>3. OnInfra(s, ms) = EjectAll(u, ms, "infrastructure")
    BY <1>1 DEF OnInfra
  <2> HIDE DEF u
  <2>4. /\ Settles(u, ms, EjectAll(u, ms, "infrastructure"))
        /\ Ids(ms) \subseteq HeldIds(EjectAll(u, ms, "infrastructure"))
    BY <2>2, EjectAllSound DEF Kind
  <2> QED  BY <2>1, <2>3, <2>4 DEF Settles
<1>2. CASE ~(s.infraFailures + 1 >= InfraMaxAttempts)
  <2> DEFINE u == [s EXCEPT !.infraFailures = s.infraFailures + 1,
                            !.infraRetryAfter = s.now + InfraBackoff]
             t == [u EXCEPT !.queue = ms \o u.queue]
  <2>1. /\ s.infraFailures + 1 \in Nat /\ s.now + InfraBackoff \in MaybeTick
        /\ s.now + InfraBackoff <= s.now + InfraBackoff
    BY ConfigAssumption DEF Free, Sound, LaneState, MaybeTick
  <2>2. Sound(u) /\ Where(u) = Where(s)
    BY <2>1, StreakSound DEF Free
  <2>3. Free(u, ms)
    BY <2>2 DEF Free
  <2>4. OnInfra(s, ms) = t
    BY <1>2 DEF OnInfra, Free, Sound, LaneState
  <2>6. t.infraRetryAfter = s.now + InfraBackoff
    BY DEF Free, Sound, LaneState
  <2> HIDE DEF u
  <2>5. Settles(u, ms, t)
    BY <2>3, RequeueSound
  <2> QED  BY <2>2, <2>4, <2>5, <2>6 DEF Settles
<1> QED  BY <1>1, <1>2

\* files says which members of the roster ms to hold, p has the others.
Splits(ms, files, p) ==
  /\ DOMAIN files \subseteq DOMAIN ms /\ \A k \in DOMAIN files : files[k] \in SUBSET File
  /\ p \in Seq(Member) /\ Distinct(p)
  /\ Ids(p) = Ids(ms) \ {ms[k].id : k \in DOMAIN files}

\* Part of the roster is held, the rest is put back: both disjoint.
LEMMA HoldAndRequeueSound ==
  ASSUME NEW s, NEW ms, Free(s, ms), NEW kind \in Kind, NEW files, NEW p, Splits(ms, files, p),
         NEW u, u = Eject(s, ms, kind, files),
         NEW t, \/ t = [u EXCEPT !.queue = p \o u.queue]
                \/ t = [u EXCEPT !.queue = u.queue \o p]
  PROVE  Settles(s, ms, t)
<1>1. /\ Sound(u) /\ HeldIds(u) = HeldIds(s) \cup {ms[k].id : k \in DOMAIN files}
      /\ u.queue = s.queue /\ u.inFlight = s.inFlight
  BY EjectSound DEF Splits
<1>2. {ms[k].id : k \in DOMAIN files} \subseteq Ids(ms)
  BY DEF Splits, Ids
<1>3. Where(u) \cup Ids(p) = Where(s) \cup Ids(ms)
  BY <1>1, <1>2 DEF Where, Splits
<1>4. Ids(p) \cap Where(u) = {}
  BY <1>1 DEF Free, Where, Splits
<1>5. Free(u, p)
  BY <1>1, <1>4 DEF Free, Splits
<1>6. Settles(u, p, t)
  BY <1>5, RequeueSound
<1> QED  BY <1>3, <1>6 DEF Settles

LEMMA AttributeRedSound ==
  ASSUME NEW s, NEW ms, Free(s, ms), NEW errors \in SUBSET File
  PROVE  Settles(s, ms, AttributeRed(s, ms, errors))
<1> DEFINE owners == {k \in DOMAIN ms : Changes[ms[k]] \cap errors # {}}
           owned == [k \in owners |-> Changes[ms[k]] \cap errors]
           p == Keep(ms, DOMAIN ms \ owners)
           u == Eject(s, ms, "attributed", owned)
           t == [u EXCEPT !.queue = u.queue \o p]
<1>1. CASE owners = {}
  <2>1. AttributeRed(s, ms, errors) = EjectAll(s, ms, "unattributed")
    BY <1>1 DEF AttributeRed
  <2> QED  BY <2>1, EjectAllSound DEF Kind
<1>2. CASE owners # {}
  <2>1. AttributeRed(s, ms, errors) = t
    BY <1>2 DEF AttributeRed
  <2>2. ms \in Seq(Member) /\ Distinct(ms)
    BY DEF Free
  <2>3. DOMAIN owned \subseteq DOMAIN ms /\ \A k \in DOMAIN owned : owned[k] \in SUBSET File
    OBVIOUS
  <2>4. DOMAIN ms \ owners \in SUBSET DOMAIN ms /\ DOMAIN owned = owners
    OBVIOUS
  <2>5. {ms[k].id : k \in DOMAIN ms \ owners} = Ids(ms) \ {ms[k].id : k \in owners}
    BY <2>2 DEF Ids, Distinct
  <2> HIDE DEF owners
  <2>6. p \in Seq(Member) /\ Distinct(p) /\ Ids(p) = {ms[k].id : k \in DOMAIN ms \ owners}
    BY <2>2, <2>4, KeepRoster
  <2> HIDE DEF p, owned, u
  <2>7. Splits(ms, owned, p)
    BY <2>3, <2>4, <2>5, <2>6 DEF Splits
  <2>8. Settles(s, ms, t)
    <3>1. "attributed" \in Kind /\ u = Eject(s, ms, "attributed", owned)
      BY DEF Kind, u
    <3> HIDE DEF t
    <3>2. t = [u EXCEPT !.queue = u.queue \o p]
      BY DEF t
    <3> QED  BY <2>7, <3>1, <3>2, HoldAndRequeueSound
  <2> QED  BY <2>1, <2>8
<1> QED  BY <1>1, <1>2

LEMMA EjectNamedSound ==
  ASSUME NEW s, NEW ms, Free(s, ms), NEW id, NEW fs \in SUBSET File
  PROVE  Settles(s, ms, EjectNamed(s, ms, id, fs))
<1> DEFINE named == {k \in DOMAIN ms : ms[k].id = id}
           kind == IF fs = {} THEN "unattributed" ELSE "attributed"
           files == [k \in named |-> fs]
           p == Without(ms, id)
           u == Eject(s, ms, kind, files)
           t == [u EXCEPT !.queue = p \o u.queue]
<1>1. ms \in Seq(Member) /\ Distinct(ms)
  BY DEF Free
<1>2. EjectNamed(s, ms, id, fs) = t
  BY DEF EjectNamed
<1>3. kind \in Kind
  BY DEF Kind
<1>4. DOMAIN files \subseteq DOMAIN ms /\ \A k \in DOMAIN files : files[k] \in SUBSET File
  OBVIOUS
<1>5. {ms[k].id : k \in DOMAIN files} = Ids(ms) \cap {id}
  BY DEF Ids
<1> HIDE DEF kind, files
<1>6. p \in Seq(Member) /\ Distinct(p) /\ Ids(p) = Ids(ms) \ {id}
  BY <1>1, WithoutRoster
<1> HIDE DEF p, u
<1>7. Splits(ms, files, p)
  BY <1>4, <1>5, <1>6 DEF Splits
<1>8. Settles(s, ms, t)
  <2>1. u = Eject(s, ms, kind, files)
    BY DEF u
  <2> HIDE DEF t
  <2>2. t = [u EXCEPT !.queue = p \o u.queue]
    BY DEF t
  <2> QED  BY <1>3, <1>7, <2>1, <2>2, HoldAndRequeueSound
<1> QED  BY <1>2, <1>8

\* Whatever a build reports, its members end up queued or held, once each.
LEMMA JudgeSound ==
  ASSUME NEW s, NEW ms, Free(s, ms), NEW o \in Outcome
  PROVE  /\ Sound(Judge(s, ms, o)) /\ Where(Judge(s, ms, o)) \subseteq Where(s) \cup Ids(ms)
         /\ Where(s) \subseteq Where(Judge(s, ms, o))
         /\ o.kind # "Green" => Ids(ms) \subseteq Where(Judge(s, ms, o))
                                                 \cup (IF o.kind = "RosterStale" THEN {o.id} ELSE {})
         /\ o.kind = "Green" => Where(Judge(s, ms, o)) = Where(s)
         /\ o.kind = "Infra" => \/ Judge(s, ms, o).infraRetryAfter = s.now + InfraBackoff
                                \/ Ids(ms) \subseteq HeldIds(Judge(s, ms, o))
<1> DEFINE c == ClearStreak(s)
<1>1. Sound(c) /\ Where(c) = Where(s)
  BY ClearStreakSound DEF Free
<1>2. Free(c, ms)
  BY <1>1 DEF Free
<1> HIDE DEF c
<1>3. CASE o.kind = "Green"
  <2>1. Judge(s, ms, o) = c
    BY <1>3 DEF Judge, c
  <2> QED  BY <1>1, <1>3, <2>1
<1>4. CASE o.kind = "Infra"
  <2>1. Judge(s, ms, o) = OnInfra(s, ms)
    BY <1>4 DEF Judge
  <2> QED  BY <1>4, <2>1, InfraSound DEF Settles
<1>5. CASE o.kind = "Red"
  <2>1. o.files \in SUBSET File
    BY <1>5 DEF Outcome
  <2>2. Judge(s, ms, o) = AttributeRed(c, ms, o.files)
    BY <1>5 DEF Judge, c
  <2> QED  BY <1>1, <1>2, <1>5, <2>1, <2>2, AttributeRedSound DEF Settles
<1>6. CASE o.kind = "UnattributedRed"
  <2>1. Judge(s, ms, o) = EjectAll(c, ms, "unattributed")
    BY <1>6 DEF Judge, c
  <2> QED  BY <1>1, <1>2, <1>6, <2>1, EjectAllSound DEF Kind, Settles
<1>7. CASE o.kind = "Conflict"
  <2>1. o.files \in SUBSET File
    BY <1>7 DEF Outcome
  <2>2. Judge(s, ms, o) = EjectNamed(c, ms, o.id, o.files)
    BY <1>7 DEF Judge, c
  <2> QED  BY <1>1, <1>2, <1>7, <2>1, <2>2, EjectNamedSound DEF Settles
<1>8. CASE o.kind = "Stale"
  <2>1. Judge(s, ms, o) = EjectNamed(c, ms, o.id, {})
    BY <1>8 DEF Judge, c
  <2> QED  BY <1>1, <1>2, <1>8, <2>1, EjectNamedSound DEF Settles
<1>9. CASE o.kind = "RosterStale"
  <2> DEFINE p == Without(ms, o.id)
             t == [c EXCEPT !.queue = p \o c.queue]
  <2>1. Judge(s, ms, o) = t
    BY <1>9 DEF Judge, c
  <2>2. p \in Seq(Member) /\ Distinct(p) /\ Ids(p) = Ids(ms) \ {o.id}
    BY WithoutRoster DEF Free
  <2> HIDE DEF p
  <2>3. Free(c, p)
    BY <1>2, <2>2 DEF Free
  <2>4. Settles(c, p, t)
    BY <2>3, RequeueSound
  <2> QED  BY <1>1, <1>9, <2>1, <2>2, <2>4 DEF Settles
<1>10. o.kind \in {"Green", "Infra", "Red", "UnattributedRed", "Conflict", "Stale", "RosterStale"}
  BY DEF Outcome
<1> QED  BY <1>3, <1>4, <1>5, <1>6, <1>7, <1>8, <1>9, <1>10

LEMMA BuildFinishedSound ==
  ASSUME NEW s, Sound(s), NEW g, NEW o \in Outcome
  PROVE  /\ Sound(OnBuildFinished(s, g, o))
         /\ Where(OnBuildFinished(s, g, o)) \subseteq Where(s)
         /\ o.kind # "Green" =>
              Where(s) \subseteq Where(OnBuildFinished(s, g, o))
                                \cup (IF o.kind = "RosterStale" THEN {o.id} ELSE {})
         /\ Current(s, g) =>
              /\ Where(s) \subseteq Where(OnBuildFinished(s, g, o)) \cup Ids(s.inFlight)
              /\ o.kind = "Green" => Where(OnBuildFinished(s, g, o)) \cap Ids(s.inFlight) = {}
              /\ o.kind = "Infra" => \/ OnBuildFinished(s, g, o).infraRetryAfter = s.now + InfraBackoff
                                     \/ Ids(s.inFlight) \subseteq HeldIds(OnBuildFinished(s, g, o))
<1>1. CASE ~Current(s, g)
  BY <1>1 DEF OnBuildFinished
<1>2. CASE Current(s, g)
  <2> DEFINE ms == s.inFlight
             u == [s EXCEPT !.phase = "Idle", !.inFlight = <<>>]
  <2>1. s \in LaneState /\ ms \in Seq(Member) /\ Distinct(ms)
    BY DEF Sound, LaneState, OnePlace
  <2>2. <<>> \in Seq(Member) /\ Ids(<<>>) = {} /\ Distinct(<<>>) /\ Len(<<>>) = 0
    BY EmptyRoster, EmptySeq
  <2>3. /\ u \in LaneState /\ u.queue = s.queue /\ u.inFlight = <<>> /\ u.now = s.now
        /\ u.ejected = s.ejected /\ u.infraRetryAfter = s.infraRetryAfter
        /\ u.queuedSince = s.queuedSince /\ u.phase = "Idle"
    BY <2>1, <2>2 DEF LaneState
  <2>4. OnBuildFinished(s, g, o) = Judge(u, ms, o)
    BY <1>2 DEF OnBuildFinished
  <2> HIDE DEF u
  <2>5. HeldIds(u) = HeldIds(s) /\ Where(u) \cup Ids(ms) = Where(s)
    BY <2>2, <2>3 DEF HeldIds, Where
  <2>6. OnePlace(u)
    BY <2>2, <2>3, <2>5 DEF Sound, OnePlace, HeldOnce, Apart
  <2>7. Deadlines(u)
    BY <2>3 DEF Sound, Deadlines
  <2>8. Roster(u)
    BY <2>2, <2>3, ConfigAssumption DEF Roster
  <2>9. Ids(ms) \cap Where(u) = {}
    BY <2>2, <2>3, <2>5 DEF Sound, OnePlace, Apart, Where
  <2>10. Free(u, ms)
    BY <2>1, <2>3, <2>6, <2>7, <2>8, <2>9 DEF Free, Sound
  <2> DEFINE j == Judge(u, ms, o)
             lost == IF o.kind = "RosterStale" THEN {o.id} ELSE {}
  <2>11. /\ Sound(j) /\ Where(j) \subseteq Where(u) \cup Ids(ms) /\ Where(u) \subseteq Where(j)
         /\ o.kind # "Green" => Ids(ms) \subseteq Where(j) \cup lost
         /\ o.kind = "Green" => Where(j) = Where(u)
         /\ o.kind = "Infra" => \/ j.infraRetryAfter = s.now + InfraBackoff
                                \/ Ids(ms) \subseteq HeldIds(j)
    BY <2>3, <2>10, JudgeSound
  <2> HIDE DEF j, lost
  <2>12. /\ o.kind # "Green" => Where(s) \subseteq Where(j) \cup lost
         /\ Where(s) \subseteq Where(j) \cup Ids(ms) /\ Where(j) \subseteq Where(s)
         /\ o.kind = "Green" => Where(j) \cap Ids(ms) = {}
    BY <2>5, <2>9, <2>11
  <2> QED  BY <2>4, <2>11, <2>12 DEF j, lost
<1> QED  BY <1>1, <1>2

\* Starting a build moves the head of the queue into the roster.
LEMMA StartBuildSound ==
  ASSUME NEW s, Sound(s), s.phase = "Idle"
  PROVE  Sound(StartBuild(s)) /\ Where(StartBuild(s)) = Where(s)
<1> DEFINE n == IF Len(s.queue) < MaxMembers THEN Len(s.queue) ELSE MaxMembers
           f == SubSeq(s.queue, 1, n)
           q == SubSeq(s.queue, n + 1, Len(s.queue))
           t == StartBuild(s)
<1>1. s \in LaneState /\ s.queue \in Seq(Member) /\ Distinct(s.queue) /\ s.inFlight = <<>>
  BY DEF Sound, LaneState, OnePlace, Roster
<1>2. Len(s.queue) \in Nat /\ n \in 0..Len(s.queue) /\ n <= MaxMembers
  <2>1. Len(s.queue) \in Nat
    BY <1>1, SeqDomain
  <2> QED  BY <2>1, ConfigAssumption
<1> HIDE DEF n
<1>3. /\ f \in Seq(Member) /\ q \in Seq(Member) /\ Len(f) = n
      /\ Ids(f) \cup Ids(q) = Ids(s.queue)
      /\ Distinct(f) /\ Distinct(q) /\ Ids(f) \cap Ids(q) = {}
  BY <1>1, <1>2, SplitRoster
<1>4. t = [s EXCEPT !.phase = "Building", !.generation = s.generation + 1, !.inFlight = f,
                    !.queue = q, !.queuedSince = None, !.infraRetryAfter = None]
  BY <1>1 DEF StartBuild, LaneState, n
<1> HIDE DEF f, q, t
<1>5. /\ t \in LaneState /\ t.queue = q /\ t.inFlight = f /\ t.now = s.now
      /\ t.ejected = s.ejected /\ t.infraRetryAfter = None /\ t.queuedSince = None
      /\ t.phase = "Building"
  <2>1. s.generation + 1 \in Nat /\ None \in MaybeTick /\ "Building" \in {"Idle", "Building"}
    BY <1>1 DEF LaneState, MaybeTick
  <2> QED  BY <1>1, <1>3, <1>4, <2>1 DEF LaneState
<1>6. HeldIds(t) = HeldIds(s)
  BY <1>5 DEF HeldIds
<1>7. Where(t) = Where(s)
  BY EmptyRoster, <1>1, <1>3, <1>5, <1>6 DEF Where
<1>8. OnePlace(t)
  BY <1>3, <1>5, <1>6 DEF Sound, OnePlace, HeldOnce, Apart
<1>9. Deadlines(t)
  <2>1. s.now \in Nat
    BY <1>1 DEF LaneState
  <2> QED  BY <1>5, <2>1, ConfigAssumption DEF Sound, Deadlines, None
<1>10. Roster(t)
  BY <1>2, <1>3, <1>5 DEF Roster
<1> QED  BY <1>5, <1>7, <1>8, <1>9, <1>10 DEF Sound, t

LEMMA MaybeStartSound ==
  ASSUME NEW s, Sound(s)
  PROVE  Sound(MaybeStart(s)) /\ Where(MaybeStart(s)) = Where(s)
<1>1. s \in LaneState
  BY DEF Sound
<1>2. None \in MaybeTick /\ None <= s.now /\ None <= s.now + InfraBackoff
  BY <1>1, ConfigAssumption DEF None, MaybeTick, LaneState
<1>3. ASSUME NEW t, t = [s EXCEPT !.queuedSince = None]
      PROVE  Sound(t) /\ Where(t) = Where(s)
  <2>1. /\ t \in LaneState /\ t.queue = s.queue /\ t.inFlight = s.inFlight /\ t.now = s.now
        /\ t.ejected = s.ejected /\ t.infraRetryAfter = s.infraRetryAfter
        /\ t.queuedSince = None /\ t.phase = s.phase
    BY <1>1, <1>2, <1>3 DEF LaneState
  <2>2. HeldIds(t) = HeldIds(s) /\ Where(t) = Where(s)
    BY <2>1 DEF HeldIds, Where
  <2>3. OnePlace(t)
    BY <2>1, <2>2 DEF Sound, OnePlace, HeldOnce, Apart
  <2>4. Deadlines(t) /\ Roster(t)
    BY <1>2, <2>1 DEF Sound, Deadlines, Roster
  <2> QED  BY <2>1, <2>2, <2>3, <2>4 DEF Sound
<1>4. ASSUME NEW t, t = [s EXCEPT !.infraRetryAfter = None]
      PROVE  Sound(t) /\ Where(t) = Where(s)
  <2>1. s.infraFailures \in Nat /\ t = [s EXCEPT !.infraFailures = s.infraFailures,
                                                 !.infraRetryAfter = None]
    BY <1>1, <1>4 DEF LaneState
  <2> QED  BY <1>2, <2>1, StreakSound
<1>5. CASE s.phase = "Idle"
  <2>1. Sound(StartBuild(s)) /\ Where(StartBuild(s)) = Where(s)
    BY <1>5, StartBuildSound
  <2>2. MaybeStart(s) \in {[s EXCEPT !.queuedSince = None], s,
                           [s EXCEPT !.infraRetryAfter = None], StartBuild(s)}
    BY <1>5 DEF MaybeStart
  <2> QED  BY <1>3, <1>4, <2>1, <2>2
<1>6. CASE s.phase = "Building"
  <2>1. MaybeStart(s) \in {[s EXCEPT !.queuedSince = None], s}
    BY <1>6 DEF MaybeStart
  <2> QED  BY <1>3, <2>1
<1> QED  BY <1>1, <1>5, <1>6 DEF LaneState
-----------------------------------------------------------------------------
(* What the handlers leave alone.                                          *)

Keeps(s, t) ==
  /\ t.phase = s.phase /\ t.generation = s.generation /\ t.inFlight = s.inFlight
  /\ t.now = s.now /\ t.infraRetryAfter = s.infraRetryAfter

LEMMA AdmitKeeps ==
  ASSUME NEW s \in LaneState, NEW m
  PROVE  Keeps(s, Admit(s, m)) /\ Keeps(s, AdmitNew(s, m))
BY DEF Keeps, Admit, AdmitNew, LaneState

LEMMA LiftKeeps ==
  ASSUME NEW s \in LaneState, NEW id
  PROVE  Lift(s, id) \in LaneState /\ Keeps(s, Lift(s, id))
BY DEF Keeps, Lift, LaneState

LEMMA EnqueueKeeps ==
  ASSUME NEW s \in LaneState, NEW m
  PROVE  Keeps(s, OnEnqueue(s, m))
<1> DEFINE u == Lift(s, m.id)
<1>1. u \in LaneState /\ Keeps(s, u) /\ Keeps(s, s)
  BY LiftKeeps DEF Keeps
<1>2. OnEnqueue(s, m) = s \/ OnEnqueue(s, m) = AdmitNew(u, m)
  BY DEF OnEnqueue
<1> HIDE DEF u
<1>3. Keeps(u, AdmitNew(u, m))
  BY <1>1, AdmitKeeps
<1>4. Keeps(s, AdmitNew(u, m))
  BY <1>1, <1>3 DEF Keeps
<1> QED  BY <1>1, <1>2, <1>4

LEMMA ForceReadmitKeeps ==
  ASSUME NEW s \in LaneState, NEW id
  PROVE  Keeps(s, OnForceReadmit(s, id))
<1> DEFINE u == Lift(s, id)
           m == [id |-> id, head |-> (CHOOSE e \in HeldFor(s, id) : TRUE).head]
<1>1. u \in LaneState /\ Keeps(s, u) /\ Keeps(s, s)
  BY LiftKeeps DEF Keeps
<1>2. OnForceReadmit(s, id) = s \/ OnForceReadmit(s, id) = Admit(u, m)
  BY DEF OnForceReadmit
<1> HIDE DEF u, m
<1>3. Keeps(u, Admit(u, m))
  BY <1>1, AdmitKeeps
<1>4. Keeps(s, Admit(u, m))
  BY <1>1, <1>3 DEF Keeps
<1> QED  BY <1>1, <1>2, <1>4

LEMMA WithdrawKeeps ==
  ASSUME NEW s \in LaneState, NEW id
  PROVE  LET t == OnWithdraw(s, id)
         IN  /\ t.phase = s.phase /\ t.generation = s.generation
             /\ t.now = s.now /\ t.infraRetryAfter = s.infraRetryAfter
BY DEF OnWithdraw, Lift, LaneState

LEMMA TimeKeeps ==
  ASSUME NEW s \in LaneState, NEW n
  PROVE  \A t \in {OnTick(s, n), AdvanceClock(s, n)} :
           /\ t.phase = s.phase /\ t.generation = s.generation /\ t.inFlight = s.inFlight
           /\ t.infraRetryAfter = s.infraRetryAfter /\ t.now = (IF n > s.now THEN n ELSE s.now)
<1> DEFINE a == AdvanceClock(s, n)
           q == AdmitAll(a.queue, Lapsed(a))
           x == {e \in a.ejected : a.now < e.expires}
           later == IF n > s.now THEN n ELSE s.now
<1>1. OnTick(s, n) = [a EXCEPT !.queue = q, !.ejected = x]
  BY DEF OnTick
<1>2. a = [s EXCEPT !.now = later]
  BY DEF AdvanceClock, LaneState
<1> HIDE DEF q, x, later
<1>3. ASSUME NEW t, t = a \/ t = OnTick(s, n)
      PROVE  /\ t.phase = s.phase /\ t.generation = s.generation /\ t.inFlight = s.inFlight
             /\ t.infraRetryAfter = s.infraRetryAfter /\ t.now = later
  <2> HIDE DEF a
  <2> QED  BY <1>1, <1>2, <1>3, ZenonT(60) DEF LaneState
<1> QED  BY <1>3 DEF later

LEMMA LandFailedKeeps ==
  ASSUME NEW s \in LaneState
  PROVE  LET t == OnLandFailed(s)
         IN  /\ t.phase = s.phase /\ t.generation = s.generation /\ t.inFlight = s.inFlight
             /\ t.now = s.now /\ t.infraRetryAfter = s.now + InfraBackoff
BY DEF OnLandFailed, LaneState

\* A verdict ends the build; generations and the clock are not its business.
LEMMA BuildFinishedKeeps ==
  ASSUME NEW s \in LaneState, NEW g, NEW o \in Outcome, Current(s, g)
  PROVE  LET t == OnBuildFinished(s, g, o)
         IN  t.phase = "Idle" /\ t.generation = s.generation /\ t.now = s.now
<1> DEFINE u == [s EXCEPT !.phase = "Idle", !.inFlight = <<>>]
           c == ClearStreak(u)
           ms == s.inFlight
           Kept(t) == t.phase = "Idle" /\ t.generation = s.generation /\ t.now = s.now
           Rec(t) == {"phase", "generation", "now"} \subseteq DOMAIN t
<1>1. Rec(u) /\ Kept(u) /\ OnBuildFinished(s, g, o) = Judge(u, ms, o)
  BY DEF LaneState, OnBuildFinished
<1> HIDE DEF u
<1>2. Rec(c) /\ Kept(c)
  BY <1>1 DEF ClearStreak
<1> HIDE DEF c
<1>3. ASSUME NEW v, Rec(v), Kept(v), NEW kind, NEW files
      PROVE  Rec(Eject(v, ms, kind, files)) /\ Kept(Eject(v, ms, kind, files))
  BY <1>3 DEF Eject
<1>4. ASSUME NEW v, Rec(v), Kept(v), NEW q PROVE Kept([v EXCEPT !.queue = q])
  BY <1>4
<1> HIDE DEF Rec, ms
<1>5. ASSUME NEW v, Rec(v), Kept(v), NEW kind PROVE Kept(EjectAll(v, ms, kind))
  BY <1>3, <1>5 DEF EjectAll
<1>6. CASE o.kind = "Green"
  BY <1>1, <1>2, <1>6 DEF Judge, c
<1>7. CASE o.kind = "Infra"
  <2>1. Judge(u, ms, o) = OnInfra(u, ms)
    BY <1>7 DEF Judge
  <2>2. CASE u.infraFailures + 1 >= InfraMaxAttempts
    BY <1>1, <1>2, <1>5, <2>1, <2>2 DEF OnInfra, c
  <2>3. CASE ~(u.infraFailures + 1 >= InfraMaxAttempts)
    BY <1>1, <2>1, <2>3 DEF OnInfra, Rec
  <2> QED  BY <2>2, <2>3
<1>8. CASE o.kind = "Red"
  <2>1. Judge(u, ms, o) = AttributeRed(c, ms, o.files)
    BY <1>8 DEF Judge, c
  <2>2. Kept(AttributeRed(c, ms, o.files))
    BY <1>2, <1>3, <1>4, <1>5 DEF AttributeRed
  <2> QED  BY <1>1, <2>1, <2>2
<1>9. CASE o.kind = "UnattributedRed"
  <2>1. Judge(u, ms, o) = EjectAll(c, ms, "unattributed")
    BY <1>9 DEF Judge, c
  <2> QED  BY <1>1, <1>2, <1>5, <2>1
<1>10. ASSUME NEW id, NEW fs PROVE Kept(EjectNamed(c, ms, id, fs))
  BY <1>2, <1>3, <1>4 DEF EjectNamed
<1>11. CASE o.kind = "Conflict"
  <2>1. Judge(u, ms, o) = EjectNamed(c, ms, o.id, o.files)
    BY <1>11 DEF Judge, c
  <2> QED  BY <1>1, <1>10, <2>1
<1>12. CASE o.kind = "Stale"
  <2>1. Judge(u, ms, o) = EjectNamed(c, ms, o.id, {})
    BY <1>12 DEF Judge, c
  <2> QED  BY <1>1, <1>10, <2>1
<1>13. CASE o.kind = "RosterStale"
  <2>1. Judge(u, ms, o) = [c EXCEPT !.queue = Without(ms, o.id) \o c.queue]
    BY <1>13 DEF Judge, c
  <2> QED  BY <1>1, <1>2, <1>4, <2>1
<1>14. o.kind \in {"Green", "Infra", "Red", "UnattributedRed", "Conflict", "Stale", "RosterStale"}
  BY DEF Outcome
<1> QED  BY <1>6, <1>7, <1>8, <1>9, <1>11, <1>12, <1>13, <1>14

\* Either no build starts, or an idle lane that is not backing off starts the next.
LEMMA MaybeStartKeeps ==
  ASSUME NEW s \in LaneState
  PROVE  LET t == MaybeStart(s)
         IN  /\ t.now = s.now /\ t.ejected = s.ejected
             /\ \/ /\ t.phase = s.phase /\ t.generation = s.generation /\ t.inFlight = s.inFlight
                   /\ \/ t.infraRetryAfter = s.infraRetryAfter
                      \/ s.phase = "Idle" /\ ~BackingOff(s)
                \/ /\ s.phase = "Idle" /\ ~BackingOff(s)
                   /\ t.phase = "Building" /\ t.generation = s.generation + 1
<1>1. CASE s.queue = <<>>
  BY <1>1 DEF MaybeStart, LaneState
<1>2. CASE s.queue # <<>> /\ (s.phase = "Building" \/ BackingOff(s))
  <2>1. MaybeStart(s) = s
    BY <1>2 DEF MaybeStart
  <2> QED  BY <2>1
<1>3. CASE s.queue # <<>> /\ s.phase = "Idle" /\ ~BackingOff(s)
  <2>1. CASE Capturing(s)
    <3>1. MaybeStart(s) = [s EXCEPT !.infraRetryAfter = None]
      BY <1>3, <2>1 DEF MaybeStart
    <3> QED  BY <1>3, <3>1 DEF LaneState
  <2>2. CASE ~Capturing(s)
    <3>1. MaybeStart(s) = StartBuild(s)
      BY <1>3, <2>2 DEF MaybeStart
    <3> QED  BY <1>3, <3>1 DEF StartBuild, LaneState
  <2> QED  BY <2>1, <2>2
<1> QED  BY <1>1, <1>2, <1>3 DEF LaneState

-----------------------------------------------------------------------------
(* Never cancel, only collapse.                                            *)

Runs(s) == s \in LaneState /\ s.phase = "Building"
StillRuns(s, t) == /\ t.phase = "Building" /\ t.generation = s.generation
                   /\ Members(t.inFlight) \subseteq Members(s.inFlight)

LEMMA MaybeStartStillRuns ==
  ASSUME NEW s, Runs(s)
  PROVE  StillRuns(s, MaybeStart(s))
<1>1. MaybeStart(s) \in {s, [s EXCEPT !.queuedSince = None]}
  BY DEF MaybeStart, Runs
<1> QED  BY <1>1 DEF Runs, StillRuns, LaneState

LEMMA AdmitStillRuns ==
  ASSUME NEW s, Runs(s), NEW m \in Member
  PROVE  /\ Runs(Admit(s, m)) /\ StillRuns(s, Admit(s, m))
         /\ Runs(AdmitNew(s, m)) /\ StillRuns(s, AdmitNew(s, m))
<1>1. ASSUME NEW u, Runs(u) PROVE Runs(Admit(u, m)) /\ StillRuns(u, Admit(u, m))
  <2> DEFINE q == Admit(u, m).queue
  <2>1. u \in LaneState /\ u.queue \in Seq(Member)
    BY <1>1 DEF Runs, LaneState
  <2>2. q \in Seq(Member)
    <3>1. CASE m.id \in Ids(u.queue)
      <4> DEFINE r == [k \in DOMAIN u.queue |-> IF u.queue[k].id = m.id THEN m ELSE u.queue[k]]
      <4>1. q = r
        BY <2>1, <3>1 DEF Admit, LaneState
      <4>2. \A k \in DOMAIN u.queue : r[k] \in Member /\ r[k].id = u.queue[k].id
        BY <2>1, SeqDomain
      <4>3. r \in Seq(Member)
        BY <2>1, <4>2, ReplaceRoster
      <4> QED  BY <4>1, <4>3
    <3>2. CASE m.id \notin Ids(u.queue)
      <4>1. q = Append(u.queue, m)
        BY <2>1, <3>2 DEF Admit, LaneState
      <4> QED  BY <2>1, <4>1, AppendProperties
    <3> QED  BY <3>1, <3>2
  <2>3. Admit(u, m) = [u EXCEPT !.queue = q]
    BY <2>1 DEF Admit, LaneState
  <2> HIDE DEF q
  <2> QED  BY <1>1, <2>1, <2>2, <2>3 DEF Runs, StillRuns, LaneState
<1>2. \E u : /\ AdmitNew(s, m) = Admit(u, m) /\ Runs(u) /\ u.inFlight = s.inFlight
             /\ u.generation = s.generation
  <2> DEFINE u == [s EXCEPT !.queuedSince = s.queuedSince]
  <2>1. AdmitNew(s, m) = Admit(u, m)
    BY DEF AdmitNew, Runs, LaneState
  <2>2. Runs(u) /\ u.inFlight = s.inFlight /\ u.generation = s.generation
    BY DEF Runs, LaneState
  <2> QED  BY <2>1, <2>2
<1> QED  BY <1>1, <1>2 DEF StillRuns

LEMMA LiftStillRuns ==
  ASSUME NEW s, Runs(s), NEW id
  PROVE  Runs(Lift(s, id)) /\ StillRuns(s, Lift(s, id))
BY DEF Lift, Runs, StillRuns, LaneState

LEMMA EnqueueStillRuns ==
  ASSUME NEW s, Runs(s), NEW m \in Member
  PROVE  /\ Runs(OnEnqueue(s, m)) /\ StillRuns(s, OnEnqueue(s, m))
         /\ Runs(OnHeadMoved(s, m)) /\ StillRuns(s, OnHeadMoved(s, m))
<1> DEFINE u == Lift(s, m.id)
<1>1. Runs(u) /\ StillRuns(s, u) /\ StillRuns(s, s)
  BY LiftStillRuns DEF StillRuns, Runs
<1> HIDE DEF u
<1>2. /\ Runs(Admit(u, m)) /\ StillRuns(u, Admit(u, m))
      /\ Runs(AdmitNew(u, m)) /\ StillRuns(u, AdmitNew(u, m))
      /\ Runs(Admit(s, m)) /\ StillRuns(s, Admit(s, m))
  BY <1>1, AdmitStillRuns
<1>3. StillRuns(s, Admit(u, m)) /\ StillRuns(s, AdmitNew(u, m))
  BY <1>1, <1>2 DEF StillRuns
<1>4. OnEnqueue(s, m) \in {s, AdmitNew(u, m)}
  BY DEF OnEnqueue, u
<1>5. OnHeadMoved(s, m) \in {s, Admit(u, m), Admit(s, m)}
  <2>1. CASE HeldFor(s, m.id) = {}
    BY <2>1 DEF OnHeadMoved
  <2>2. CASE HeldFor(s, m.id) # {}
    BY <2>2 DEF OnHeadMoved, u
  <2> QED  BY <2>1, <2>2
<1> QED  BY <1>1, <1>2, <1>3, <1>4, <1>5

LEMMA ForceReadmitStillRuns ==
  ASSUME NEW s, Runs(s), NEW id \in Id
  PROVE  Runs(OnForceReadmit(s, id)) /\ StillRuns(s, OnForceReadmit(s, id))
<1>1. CASE HeldFor(s, id) = {}
  BY <1>1 DEF OnForceReadmit, Runs, StillRuns
<1>2. CASE HeldFor(s, id) # {}
  <2> DEFINE e == CHOOSE e \in HeldFor(s, id) : TRUE
             m == [id |-> id, head |-> e.head]
             u == Lift(s, id)
  <2>1. e \in s.ejected
    BY <1>2 DEF HeldFor
  <2>2. m \in Member
    BY <2>1 DEF Runs, LaneState, Ejection, Member
  <2>3. Runs(u) /\ StillRuns(s, u)
    BY LiftStillRuns
  <2>4. OnForceReadmit(s, id) = Admit(u, m)
    BY <1>2 DEF OnForceReadmit
  <2> HIDE DEF m, u, e
  <2>5. Runs(Admit(u, m)) /\ StillRuns(u, Admit(u, m))
    BY <2>2, <2>3, AdmitStillRuns
  <2> QED  BY <2>3, <2>4, <2>5 DEF StillRuns
<1> QED  BY <1>1, <1>2

\* A withdrawal only shrinks the roster.
LEMMA WithdrawStillRuns ==
  ASSUME NEW s, Runs(s), NEW id \in Id
  PROVE  Runs(OnWithdraw(s, id)) /\ StillRuns(s, OnWithdraw(s, id))
<1> DEFINE q == Without(s.queue, id)
           f == Without(s.inFlight, id)
<1>1. s \in LaneState /\ s.queue \in Seq(Member) /\ s.inFlight \in Seq(Member)
  BY DEF Runs, LaneState
<1>2. q \in Seq(Member) /\ f \in Seq(Member) /\ Members(f) \subseteq Members(s.inFlight)
  BY <1>1, WithoutRoster
<1>3. OnWithdraw(s, id) = [s EXCEPT !.ejected = {e \in s.ejected : e.id # id},
                                    !.queue = q, !.inFlight = f]
  BY <1>1 DEF OnWithdraw, Lift, LaneState
<1>4. {e \in s.ejected : e.id # id} \subseteq Ejection
  BY <1>1 DEF LaneState
<1> DEFINE t == OnWithdraw(s, id)
           x == {e \in s.ejected : e.id # id}
<1> HIDE DEF q, f, x
<1>5. t = [s EXCEPT !.ejected = x, !.queue = q, !.inFlight = f]
  BY <1>3 DEF x
<1>6. x \in SUBSET Ejection
  BY <1>4 DEF x
<1> HIDE DEF t
<1>7. t \in LaneState
  BY <1>1, <1>2, <1>5, <1>6 DEF LaneState
<1>8. t.phase = s.phase /\ t.generation = s.generation /\ t.inFlight = f
  BY <1>1, <1>5 DEF LaneState
<1>9. Runs(t) /\ StillRuns(s, t)
  BY <1>2, <1>7, <1>8 DEF Runs, StillRuns
<1> QED  BY <1>9 DEF t

LEMMA TimeStillRuns ==
  ASSUME NEW s, Runs(s), NEW n \in Nat
  PROVE  /\ Runs(OnTick(s, n)) /\ StillRuns(s, OnTick(s, n))
         /\ StillRuns(s, AdvanceClock(s, n))
         /\ Runs(OnLandFailed(s)) /\ StillRuns(s, OnLandFailed(s))
<1> DEFINE a == AdvanceClock(s, n)
           q == AdmitAll(a.queue, Lapsed(a))
           kept == {e \in a.ejected : a.now < e.expires}
<1>1. Runs(a) /\ StillRuns(s, a)
  BY DEF AdvanceClock, Runs, StillRuns, LaneState
<1>2. OnTick(s, n) = [a EXCEPT !.queue = q, !.ejected = kept]
  BY DEF OnTick
<1> HIDE DEF a
<1>3. a \in LaneState /\ a.queue \in Seq(Member)
  BY <1>1 DEF Runs, LaneState
<1>4. q \in Seq(Member)
  BY <1>3, LapsedRoster, AdmitAllRoster
<1>5. kept \in SUBSET a.ejected
  OBVIOUS
<1> HIDE DEF q, kept
<1>6. Runs(OnTick(s, n)) /\ StillRuns(s, OnTick(s, n))
  BY <1>1, <1>2, <1>3, <1>4, <1>5 DEF Runs, StillRuns, LaneState
<1>7. s.infraFailures + 1 \in Nat /\ s.now + InfraBackoff \in MaybeTick
  BY ConfigAssumption DEF Runs, LaneState, MaybeTick
<1>8. Runs(OnLandFailed(s)) /\ StillRuns(s, OnLandFailed(s))
  BY <1>7 DEF OnLandFailed, Runs, StillRuns, LaneState
<1> QED  BY <1>1, <1>6, <1>8 DEF a
=============================================================================
