----------------------------- MODULE Coalescer -----------------------------
(***************************************************************************)
(* The batch coalescer of the serve daemon (serveapi.rs): threads that     *)
(* submit checks under one key share a physical run, one of them leads it, *)
(* and a global gate keeps the runs of all keys at a limit.                *)
(*                                                                         *)
(* A waiter is known by its thread, since a thread waits for one request   *)
(* at a time.  One action is one hold of the state lock, or one step       *)
(* outside it.  All threads wait on one condition variable: asleep is its  *)
(* wait set, and notify_all empties it.                                    *)
(***************************************************************************)
EXTENDS Batch

CONSTANTS Thread, Key,
          Request,        \* Thread -> what it may submit: [key, members, corun]
          Limit,          \* global_inflight_limit
          MaxMembers,     \* max_members
          Cooldown,       \* eject_cooldown_rounds
          MaxSubmits,     \* BOUND: requests submitted in all
          None

ASSUME CoalescerAssumption ==
  /\ Request \in [Thread -> SUBSET [key : Key, members : Seq(Member), corun : BOOLEAN]]
  /\ \A t \in Thread : \A r \in Request[t] : r.members # <<>> /\ r # None
  /\ Limit \in Nat /\ MaxMembers \in Nat \ {0} /\ Cooldown \in Nat /\ MaxSubmits \in Nat
  /\ None \notin Seq(MemberResult)

VARIABLES
  queue,      \* Key -> the threads that wait, oldest first
  open,       \* the keys that have a queue
  led,        \* the keys whose queue has a leader
  inflight,   \* inflight_runs
  runSeq,     \* next_run_seq
  ejected,    \* Worktree -> the run a culprit is held out up to, 0 when none
  asleep,     \* the threads parked on the condition variable
  pc,         \* Thread -> where it is in submit
  req,        \* Thread -> its request
  result,     \* Thread -> its slice of a report, None before
  group,      \* Thread -> the waiters drained for the run it leads
  report,     \* Thread -> the results of that run still to be handed out
  submits,    \* BOUND: requests so far
  lastReds    \* history: the worktrees the latest run found red alone

vars == <<queue, open, led, inflight, runSeq, ejected, asleep, pc, req, result, group,
          report, submits, lastReds>>

queues == <<queue, open, led>>
gate   == <<inflight, runSeq, ejected>>
runs   == <<group, report, lastReds>>

KeyOf(t) == req[t].key
Answered(t) == result[t] # None
Goto(t, label) == pc' = [pc EXCEPT ![t] = label]

Init ==
  /\ queue = [k \in Key |-> <<>>] /\ open = {} /\ led = {}
  /\ inflight = 0 /\ runSeq = 0 /\ ejected = [w \in Worktree |-> 0]
  /\ asleep = {}
  /\ pc = [t \in Thread |-> "idle"]
  /\ req = [t \in Thread |-> None]
  /\ result = [t \in Thread |-> None]
  /\ group = [t \in Thread |-> <<>>]
  /\ report = [t \in Thread |-> <<>>]
  /\ submits = 0 /\ lastReds = {}

-----------------------------------------------------------------------------
Submit(t, r) ==
  /\ pc[t] = "idle" /\ submits < MaxSubmits
  /\ req' = [req EXCEPT ![t] = r]
  /\ result' = [result EXCEPT ![t] = None]
  /\ queue' = [queue EXCEPT ![r.key] = Append(@, t)]
  /\ open' = open \cup {r.key}
  /\ asleep' = {}
  /\ submits' = submits + 1
  /\ Goto(t, "look")
  /\ UNCHANGED <<led, gate, runs>>

Return(t) == /\ Goto(t, "idle")
             /\ req' = [req EXCEPT ![t] = None]
             /\ result' = [result EXCEPT ![t] = None]

\* The fast path: a thread that starts, or was woken, reads its result without
\* the state lock.
Look(t) ==
  /\ pc[t] \in {"look", "waits"} /\ t \notin asleep
  /\ \/ Answered(t) /\ Return(t)
     \/ ~Answered(t) /\ Goto(t, "locked") /\ UNCHANGED <<req, result>>
  /\ UNCHANGED <<queues, gate, runs, asleep, submits>>

Park(t, label) == Goto(t, label) /\ asleep' = asleep \cup {t}

\* Under the lock: the result once more, then lead or wait.  A new leader's
\* coalesce_grace is the time it may spend before its claim.
Elect_bug(t) ==
  /\ pc[t] = "locked"
  /\ \/ /\ KeyOf(t) \in open \ led
        /\ led' = led \cup {KeyOf(t)}
        /\ Goto(t, "gate")
        /\ UNCHANGED asleep
     \/ /\ KeyOf(t) \notin open \ led
        /\ Park(t, "waits")
        /\ UNCHANGED led
  /\ UNCHANGED <<queue, open, gate, runs, req, result, submits>>
Elect(t) ==
  /\ pc[t] = "locked"
  /\ \/ Answered(t) /\ Return(t) /\ UNCHANGED <<asleep, led>>
     \/ /\ ~Answered(t) /\ KeyOf(t) \in open \ led
        /\ led' = led \cup {KeyOf(t)}
        /\ Goto(t, "gate")
        /\ UNCHANGED <<asleep, req, result>>
     \/ /\ ~Answered(t) /\ KeyOf(t) \notin open \ led
        /\ Park(t, "waits")
        /\ UNCHANGED <<led, req, result>>
  /\ UNCHANGED <<queue, open, gate, runs, submits>>

\* The slot is claimed in the hold of the lock that saw it free.
Open == Limit = 0 \/ inflight < Limit
Claim_bug(t) ==
  /\ pc[t] = "gate" /\ t \notin asleep
  /\ inflight' = inflight + 1 /\ runSeq' = runSeq + 1
  /\ Goto(t, "drain")
  /\ UNCHANGED <<queues, ejected, runs, asleep, req, result, submits>>
Claim(t) ==
  /\ pc[t] = "gate" /\ t \notin asleep
  /\ \/ /\ Open
        /\ inflight' = inflight + 1 /\ runSeq' = runSeq + 1
        /\ Goto(t, "drain")
        /\ UNCHANGED asleep
     \/ /\ ~Open
        /\ Park(t, "gate")
        /\ UNCHANGED <<inflight, runSeq>>
  /\ UNCHANGED <<queues, ejected, runs, req, result, submits>>

-----------------------------------------------------------------------------
\* The worktree of a single-member request, which a cooldown may hold out.
Alone(t) == IF Len(req[t].members) = 1 THEN {req[t].members[1].wt} ELSE {}
Held(t) == \E w \in Alone(t) : runSeq <= ejected[w]

\* How many members the first n waiters of s bring.
MembersUpTo(s, n) == FoldFunctionOnSet(+, 0, [i \in DOMAIN s |-> Len(req[s[i]].members)], 1..n)

\* The longest prefix that max_members admits, never less than one waiter.
Fits(s) ==
  LET ok == {n \in 1..Len(s) : n = 1 \/ MembersUpTo(s, n) <= MaxMembers}
  IN  SubSeq(s, 1, CHOOSE n \in ok : \A k \in ok : k <= n)

\* When the cooldown would leave nobody, the oldest runs alone.
Drained(s) ==
  LET free == Pick(s, {i \in DOMAIN s : ~Held(s[i])})
  IN  IF free = <<>> THEN SubSeq(s, 1, 1) ELSE Fits(free)

DrainGroup(t) ==
  LET s == queue[KeyOf(t)]
      g == Drained(s)
  IN
  /\ pc[t] = "drain"
  /\ queue' = [queue EXCEPT ![KeyOf(t)] = Pick(s, {i \in DOMAIN s : s[i] \notin ToSet(g)})]
  /\ group' = [group EXCEPT ![t] = g]
  /\ ejected' = [w \in Worktree |-> IF w \in UNION {Alone(u) : u \in ToSet(g)} THEN 0
                                    ELSE ejected[w]]
  /\ IF g = <<>>
     THEN inflight' = inflight - 1 /\ asleep' = {} /\ Goto(t, "finish")
     ELSE UNCHANGED <<inflight, asleep>> /\ Goto(t, "run")
  /\ UNCHANGED <<open, led, runSeq, req, result, report, submits, lastReds>>

MembersOf(g) == FlattenSeq([i \in DOMAIN g |-> req[g[i]].members])

SoloReds(results) ==
  {results[i].wt : i \in {j \in DOMAIN results : results[j].provenance = "solo_red"}}

\* record_solo_red_ejections
Cooled_bug(reds) == ejected
Cooled(reds) == [w \in Worktree |-> IF w \in reds /\ Cooldown > 0 THEN runSeq + Cooldown
                                    ELSE ejected[w]]

(* The run, and the ejections it records.  It may find nothing out at all: *)
(* the run panicked, the daemon is quiescing, the analysis root did not    *)
(* sync; or one check fails to judge (BOUND: one of a run), check 0 being  *)
(* that of the union.                                                      *)
Outcomes(ms, corun) ==
  {AllUnknown(ms)} \cup
  {RunBatchCheckNow(ms, corun, 0 \in s, s) : s \in {{}} \cup {{i} : i \in 0..Len(ms)}}

Run(t) ==
  /\ pc[t] = "run"
  /\ \E ms \in {MembersOf(group[t])} : \E results \in Outcomes(ms, req[group[t][1]].corun) :
       /\ report' = [report EXCEPT ![t] = results]
       /\ ejected' = Cooled(SoloReds(results))
       /\ lastReds' = SoloReds(results)
  /\ Goto(t, "release")
  /\ UNCHANGED <<queues, inflight, runSeq, asleep, req, result, group, submits>>

\* InflightGuard::drop
Release(t) ==
  /\ pc[t] = "release"
  /\ inflight' = inflight - 1
  /\ asleep' = {}
  /\ Goto(t, "share")
  /\ UNCHANGED <<queues, runSeq, ejected, runs, req, result, submits>>

\* One waiter gets the slice of the report its members take up.
Slice_bug(t) == SubSeq(report[t], 1, 1)
Slice(t) == SubSeq(report[t], 1, Len(req[Head(group[t])].members))

Distribute(t) ==
  LET u == Head(group[t]) IN
  /\ pc[t] = "share"
  /\ result' = [result EXCEPT ![u] = Slice(t)]
  /\ report' = [report EXCEPT ![t] = SubSeq(@, Len(req[u].members) + 1, Len(@))]
  /\ group' = [group EXCEPT ![t] = Tail(@)]
  /\ IF Len(group[t]) = 1 THEN Goto(t, "finish") ELSE UNCHANGED pc
  /\ UNCHANGED <<queues, gate, asleep, req, submits, lastReds>>

FinishLeader(t) ==
  LET k == KeyOf(t) IN
  /\ pc[t] = "finish"
  /\ led' = led \ {k}
  /\ open' = IF queue[k] = <<>> THEN open \ {k} ELSE open
  /\ asleep' = {}
  /\ Goto(t, "look")
  /\ UNCHANGED <<queue, gate, runs, req, result, submits>>

Step(t) == \/ Look(t) \/ Elect(t) \/ Claim(t) \/ DrainGroup(t)
           \/ Run(t) \/ Release(t) \/ Distribute(t) \/ FinishLeader(t)

Next == \E t \in Thread : Step(t) \/ \E r \in Request[t] : Submit(t, r)

\* Every thread runs; nobody has to submit.
Spec == Init /\ [][Next]_vars /\ \A t \in Thread : WF_vars(Step(t))

-----------------------------------------------------------------------------
Leads(t) == pc[t] \in {"gate", "drain", "run", "release", "share", "finish"}
HoldsSlot(t) == pc[t] \in {"drain", "run", "release"}

TypeOK ==
  /\ queue \in [Key -> Seq(Thread)] /\ open \subseteq Key /\ led \subseteq open
  /\ inflight \in 0..Cardinality(Thread) /\ runSeq \in 0..MaxSubmits
  /\ ejected \in [Worktree -> 0..(MaxSubmits + Cooldown)]
  /\ asleep \subseteq {t \in Thread : pc[t] \in {"waits", "gate"}}
  /\ \A t \in Thread : req[t] \in Request[t] \cup {None}

(* The slots are the runs: inflight counts exactly the leaders between     *)
(* their claim and the drop of their guard, never more than the limit, and *)
(* a key has one leader, which has work: itself waiting or in its group.   *)
SlotsAreRuns ==
  /\ inflight = Cardinality({t \in Thread : HoldsSlot(t)})
  /\ Limit > 0 => inflight <= Limit
  /\ \A t, u \in Thread : Leads(t) /\ Leads(u) /\ KeyOf(t) = KeyOf(u) => t = u
  /\ led = {KeyOf(t) : t \in {u \in Thread : Leads(u)}}
  /\ \A t \in Thread : pc[t] = "run" => group[t] # <<>>

(* An answer is about the request it answers, member by member, and its    *)
(* colour is earned: green only on a union that is green and holds the     *)
(* member's patch, never for a truncated push; blame (solo_red) only for a *)
(* patch that is red alone; interaction_red only for a group that is red   *)
(* together and green member by member.                                    *)
AnswersAreEarned ==
  \A t \in Thread : Answered(t) =>
    /\ [i \in DOMAIN result[t] |-> [wt |-> result[t][i].wt, patch |-> result[t][i].patch]]
       = req[t].members
    /\ \A i \in DOMAIN result[t] :
         LET m == result[t][i] IN
         /\ m.verdict = "green" => /\ m.patch \in m.basis \ Truncated
                                   /\ m.basis \notin RedUnions /\ ~Conflicting(m.basis)
         /\ m.provenance = "solo_red" => {m.patch} \in RedUnions
         /\ m.provenance = "interaction_red" =>
              /\ m.basis \in RedUnions \/ Conflicting(m.basis)
              /\ \A p \in m.basis : {p} \notin RedUnions

(* A worktree the latest run found red alone sits out of the next one when *)
(* others wait for it: it cannot force a second fallback on them.          *)
CulpritSitsOut ==
  [][\A t \in Thread : Len(group'[t]) > 1 /\ group[t] = <<>> =>
       \A i \in DOMAIN group'[t] : Alone(group'[t][i]) \cap lastReds = {}]_vars

\* Every request is answered, whatever its batch-mates are and do.
EveryoneIsAnswered == \A t \in Thread : pc[t] # "idle" ~> pc[t] = "idle"
=============================================================================
