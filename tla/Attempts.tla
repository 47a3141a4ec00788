------------------------------ MODULE Attempts ------------------------------
(***************************************************************************)
(* The ledger of v3 attempts of `cargoless serve`.  A client names its     *)
(* attempt, and may submit it again when it heard no answer.  The daemon   *)
(* admits it durably before it dispatches it, keeps its outcome in memory, *)
(* and harvests the conclusion as a bundle of evidence on disk.            *)
(*                                                                         *)
(* Actors: the HTTP threads (push_overlay_with_options with a semantic     *)
(* context), the serve loop, the gate dispatcher and the witness           *)
(* supervisors.  A crash may come between any two steps; the disk stays.   *)
(*                                                                         *)
(* Abstractions: how a verdict comes about is the module Serve; here an    *)
(* execution ends with any verdict.  One worktree.  A drained exit is a    *)
(* Restart like any other.  Batches, which are not admitted, are left out. *)
(***************************************************************************)
EXTENDS Naturals, Sequences, FiniteSets, SequencesExt

CONSTANTS
    Calls,       \* submissions, each by an HTTP thread of its own
    Attempts,
    AttemptOf,   \* the attempt a call submits
    Identities,  \* what else AttemptAdmissionIdentity compares, per call
    Gates,       \* attempts submitted with --gate
    Keys,        \* (worktree, base_sha): what a witness claims
    KeyOf,
    QueueCap,    \* pushed_max_per_wt
    MemoryCap,   \* OUTCOME_V3_MEMORY_CAP
    MaxTroubles, \* crashes, file operations that fail, refusals, bundles that
                 \* expire and pushes that name no attempt, together
    None

\* The records of .admissions/.
Admission == [owner : Calls, identity : UNION {Identities[c] : c \in Calls},
              accepted : BOOLEAN]

Legacy == "legacy"   \* a push of a client that names no attempt

Verdicts == {"passed", "failed", "unknown"}
Conclusion == Verdicts \cup {"superseded", "rejected"}

ASSUME AttemptsConstants ==
    /\ AttemptOf \in [Calls -> Attempts] /\ KeyOf \in [Attempts -> Keys]
    /\ Gates \subseteq Attempts
    /\ {QueueCap, MemoryCap} \subseteq Nat \ {0}
    /\ MaxTroubles \in Nat
    /\ None \notin Calls \cup Attempts \cup Admission
    /\ None \notin Conclusion \cup {"pending", Legacy} /\ Legacy \notin Calls

VARIABLES
    \* on disk
    admission,  \* .admissions/: who reserved an attempt, as whom, accepted?
    evidence,   \* the conclusion in the bundle of an attempt
    \* in memory
    lock,       \* attempt_admission_lock_v3
    call,       \* how far each HTTP thread has come, and what it answered
    outcome,    \* outcomes_v3
    order,      \* outcome_order_v3: terminal outcomes, oldest first
    queue,      \* pushed: overlays waiting for the serve loop
    gateQ,      \* requests sent to the gate dispatcher
    claims,     \* hard_witness_generation: the latest claimant of a key
    job,        \* the execution each call dispatched
    troubles,   \* how many have happened
    \* history
    sent,       \* calls that dispatched an execution
    acked,      \* attempts acknowledged by the process that runs
    pruned,     \* attempts whose evidence expired
    unsaved,    \* attempts whose evidence could not be written
    orphaned    \* attempts whose claim a nameless gate push took over

disk    == <<admission, evidence>>
memory  == <<outcome, order>>
work    == <<queue, gateQ, claims, job>>
history == <<sent, acked, pruned, unsaved, orphaned>>
vars    == <<disk, memory, work, lock, call, troubles, history>>

-----------------------------------------------------------------------------
NoJob == [at |-> "none", target |-> None, val |-> None, bundle |-> None]

Init ==
    /\ lock = None
    /\ outcome = [a \in Attempts |-> None] /\ order = <<>>
    /\ queue = <<>> /\ gateQ = <<>>
    /\ claims = [k \in Keys |-> None]
    /\ job = [c \in Calls |-> NoJob]
    /\ acked = {} /\ orphaned = {}
    /\ admission = [a \in Attempts |-> None]
    /\ evidence = [a \in Attempts |-> None]
    /\ call = [c \in Calls |-> "new"]
    /\ troubles = 0
    /\ sent = {} /\ pruned = {} /\ unsaved = {}

Trouble == troubles < MaxTroubles /\ troubles' = troubles + 1

At(c, stage) == call' = [call EXCEPT ![c] = stage]
Return(c, answer) == At(c, answer) /\ lock' = None

-----------------------------------------------------------------------------
(* Outcomes in memory.                                                     *)

\* remember_outcome_v3: only terminal outcomes age, the oldest is evicted.
\* The order names an attempt once, so retain drops one entry.
Remember(a, val) ==
    LET others == RemoveFirst(order, a)
        aged == IF val = "pending" THEN others ELSE Append(others, a)
        kept == IF Len(aged) > MemoryCap THEN Tail(aged) ELSE aged
        gone == ToSet(aged) \ ToSet(kept)
    IN  /\ order' = kept
        /\ outcome' = [b \in Attempts |-> IF b \in gone THEN None
                                          ELSE IF b = a THEN val
                                          ELSE outcome[b]]

Forget(a) ==
    /\ outcome' = [outcome EXCEPT ![a] = None]
    /\ order' = RemoveFirst(order, a)

\* get_outcome_v3: what a client that asks is told.
Readable(a) == IF outcome[a] # None THEN outcome[a] ELSE evidence[a]

-----------------------------------------------------------------------------
(* HTTP threads: everything from the reservation to the dispatch happens   *)
(* under one lock.                                                         *)

Reservation(c, i) == [owner |-> c, identity |-> i, accepted |-> FALSE]

\* reserve_attempt_admission: a hard link either creates the record or finds
\* the one that is there.  A file operation that fails, after the link or
\* before it, refuses the call and leaves what it made.
Reserve(c) ==
    LET a == AttemptOf[c]
        found == admission[a]
    IN  /\ call[c] = "new" /\ lock = None
        /\ \E i \in Identities[c] :
              LET made == [admission EXCEPT ![a] = Reservation(c, i)] IN
              \/ /\ found = None /\ admission' = made
                 /\ lock' = c /\ At(c, "reserved") /\ UNCHANGED troubles
              \/ /\ found = None /\ Trouble
                 /\ admission' \in {admission, made}
                 /\ At(c, "refused") /\ UNCHANGED lock
              \/ /\ found # None /\ found.identity # i
                 /\ At(c, "refused") /\ UNCHANGED <<admission, lock, troubles>>
              \/ /\ found # None /\ found.identity = i /\ ~found.accepted
                 /\ At(c, "abandoned")
                 /\ UNCHANGED <<admission, lock, troubles>>
              \/ /\ found # None /\ found.identity = i /\ found.accepted
                 /\ lock' = c /\ At(c, "found")
                 /\ UNCHANGED <<admission, troubles>>
        /\ UNCHANGED <<evidence, memory, work, history>>

\* An accepted attempt is replayed from its evidence.
ReadEvidence(c) ==
    LET a == AttemptOf[c]
    IN  /\ call[c] = "found"
        /\ IF evidence[a] # None
           THEN /\ Remember(a, evidence[a])
                /\ acked' = acked \cup {a}
                /\ Return(c, "acked")
           ELSE /\ At(c, "missing")
                /\ UNCHANGED <<memory, lock, acked>>
        /\ UNCHANGED <<disk, work, troubles, sent, pruned, unsaved, orphaned>>

\* A retry that has found no evidence yet gives the attempt up.
ReadMemory_bug(c) ==
    /\ call[c] = "missing"
    /\ Return(c, "abandoned")
    /\ UNCHANGED <<disk, memory, work, troubles, history>>

\* The retry of a lost attempt takes the record over and dispatches again.
ReadMemory_redo(c) ==
    LET a == AttemptOf[c]
    IN  /\ call[c] = "missing"
        /\ IF outcome[a] # None
           THEN /\ acked' = acked \cup {a} /\ Return(c, "acked")
                /\ UNCHANGED admission
           ELSE /\ admission' = [admission EXCEPT ![a] =
                                    Reservation(c, @.identity)]
                /\ At(c, "reserved") /\ UNCHANGED <<acked, lock>>
        /\ UNCHANGED <<evidence, memory, work, troubles, sent, pruned, unsaved,
                       orphaned>>

\* Or from memory; if neither knows it, it was lost on the way to dispatch.
ReadMemory(c) ==
    LET a == AttemptOf[c]
    IN  /\ call[c] = "missing"
        /\ IF outcome[a] # None
           THEN acked' = acked \cup {a} /\ Return(c, "acked")
           ELSE Return(c, "abandoned") /\ UNCHANGED acked
        /\ UNCHANGED <<disk, memory, work, troubles, sent, pruned, unsaved,
                       orphaned>>

\* The daemon is quiescing, a fetch fails, or no dispatcher is attached.
Refuse(c) ==
    /\ call[c] = "reserved" /\ Trouble
    /\ At(c, "undo")
    /\ UNCHANGED <<disk, memory, work, lock, history>>

\* begin_outcome_v3.
Begin(c) ==
    /\ call[c] = "reserved"
    /\ Remember(AttemptOf[c], "pending")
    /\ At(c, "begun")
    /\ UNCHANGED <<disk, work, lock, troubles, history>>

\* accept_attempt_admission: the accepted record is renamed over the reserved
\* one, if that is still the caller's.  A write that fails before or after
\* the rename is rolled back.
Owns(c) == LET found == admission[AttemptOf[c]]
           IN  found # None /\ found.owner = c

Accept(c) ==
    LET a == AttemptOf[c]
        accepted == [admission EXCEPT ![a] = [@ EXCEPT !.accepted = TRUE]]
    IN  /\ call[c] = "begun"
        /\ \/ /\ Owns(c) /\ admission' = accepted
              /\ At(c, "accepted")
              /\ UNCHANGED <<memory, troubles>>
           \/ /\ IF Owns(c)
                 THEN Trouble /\ admission' \in {admission, accepted}
                 ELSE UNCHANGED <<admission, troubles>>
              /\ Forget(a) /\ At(c, "undo")
        /\ UNCHANGED <<evidence, work, lock, history>>

Queued(c) == [NoJob EXCEPT !.at = "queued"]
Same(c) == {i \in DOMAIN queue :
               queue[i] # Legacy /\ AttemptOf[queue[i]] = AttemptOf[c]}

\* The direct gate handoff.  A dispatcher that is gone fails it.
SendGate(c) ==
    LET a == AttemptOf[c]
    IN  /\ call[c] = "accepted" /\ a \in Gates
        /\ \/ /\ gateQ' = Append(gateQ, c)
              /\ job' = [job EXCEPT ![c] = Queued(c)]
              /\ sent' = sent \cup {c} /\ At(c, "sent")
              /\ UNCHANGED <<memory, troubles>>
           \/ /\ Trouble /\ Forget(a) /\ At(c, "undo")
              /\ UNCHANGED <<gateQ, job, sent>>
        /\ UNCHANGED <<disk, queue, claims, lock, acked, pruned, unsaved,
                       orphaned>>

\* The overlay queue: the same attempt is replaced in place, a new one is
\* appended, or refused at the cap.
Enqueue(c) ==
    LET a == AttemptOf[c]
    IN  /\ call[c] = "accepted" /\ a \notin Gates
        /\ \/ /\ Same(c) # {} \/ Len(queue) < QueueCap
              /\ queue' = IF Same(c) = {} THEN Append(queue, c)
                          ELSE [i \in DOMAIN queue |->
                                   IF i \in Same(c) THEN c ELSE queue[i]]
              /\ job' = [job EXCEPT ![c] = Queued(c)]
              /\ sent' = sent \cup {c} /\ At(c, "sent")
              /\ UNCHANGED memory
           \/ /\ Same(c) = {} /\ Len(queue) >= QueueCap
              /\ Forget(a) /\ At(c, "undo")
              /\ UNCHANGED <<queue, job, sent>>
        /\ UNCHANGED <<disk, gateQ, claims, lock, troubles, acked, pruned,
                       unsaved, orphaned>>

Ack(c) ==
    /\ call[c] = "sent"
    /\ acked' = acked \cup {AttemptOf[c]}
    /\ Return(c, "acked")
    /\ UNCHANGED <<disk, memory, work, troubles, sent, pruned, unsaved,
                   orphaned>>

\* rollback_attempt_admission; a record that cannot be removed stays.
Rollback(c) ==
    LET a == AttemptOf[c]
    IN  /\ call[c] = "undo"
        /\ \/ /\ admission' = [admission EXCEPT ![a] =
                     IF Owns(c) THEN None ELSE @]
              /\ UNCHANGED troubles
           \/ Trouble /\ UNCHANGED admission
        /\ Return(c, "refused")
        /\ UNCHANGED <<evidence, memory, work, history>>

Http(c) == \/ Reserve(c) \/ ReadEvidence(c) \/ ReadMemory(c)
           \/ Refuse(c) \/ Begin(c) \/ Accept(c)
           \/ SendGate(c) \/ Enqueue(c) \/ Ack(c) \/ Rollback(c)

-----------------------------------------------------------------------------
(* Executions: the serve loop, the gate dispatcher, the witnesses.         *)

Step(c, stage) == job' = [job EXCEPT ![c].at = stage]

\* A push that names no attempt takes a place in the same queue.
LegacyPush ==
    /\ Trouble
    /\ Len(queue) < QueueCap /\ queue' = Append(queue, Legacy)
    /\ UNCHANGED <<disk, memory, gateQ, claims, job, lock, call, history>>

\* take_overlay_for: the analyzer works on one overlay of a worktree.
Take ==
    /\ queue # <<>> /\ \A c \in Calls : job[c].at # "analysed"
    /\ queue' = Tail(queue)
    /\ IF Head(queue) = Legacy THEN UNCHANGED job
       ELSE Step(Head(queue), "analysed")
    /\ UNCHANGED <<disk, memory, gateQ, claims, lock, call, troubles,
                   history>>

\* A verdict of the analyzer, or the unknown of a cluster that cannot start.
Emit(c) ==
    /\ job[c].at = "analysed"
    /\ \E v \in Verdicts : job' = [job EXCEPT ![c].at = "published",
                                              ![c].val = v]
    /\ UNCHANGED <<disk, memory, queue, gateQ, claims, lock, call,
                   troubles, history>>

\* begin_hard_witness: the newest claimant takes the key over, and has to
\* conclude the attempt it took it from.
Claim(c) ==
    LET k == KeyOf[AttemptOf[c]]
        prev == claims[k]
        named == prev \in Calls /\ AttemptOf[prev] # AttemptOf[c]
    IN  /\ claims' = [claims EXCEPT ![k] = c]
        /\ job' = [job EXCEPT ![c] =
               IF named THEN [NoJob EXCEPT !.at = "superseding",
                                           !.target = AttemptOf[prev]]
               ELSE [NoJob EXCEPT !.at = "witness"]]

DispatchGate ==
    /\ gateQ # <<>>
    /\ Claim(Head(gateQ)) /\ gateQ' = Tail(gateQ)
    /\ UNCHANGED <<disk, memory, queue, lock, call, troubles, history>>

\* An overlay the analyzer is blind to is promoted to a witness.
Escalate(c) ==
    /\ job[c].at = "analysed"
    /\ Claim(c)
    /\ UNCHANGED <<disk, memory, queue, gateQ, lock, call, troubles, history>>

\* A gate push that names no attempt takes a key over and concludes nobody.
LegacyGate(k) ==
    /\ Trouble
    /\ claims' = [claims EXCEPT ![k] = Legacy]
    /\ orphaned' = orphaned \cup (IF claims[k] \in Calls
                                  THEN {AttemptOf[claims[k]]} ELSE {})
    /\ UNCHANGED <<disk, memory, queue, gateQ, job, lock, call, sent, acked,
                   pruned, unsaved>>

LegacyEnds(k) ==
    /\ claims[k] = Legacy
    /\ claims' = [claims EXCEPT ![k] = None]
    /\ UNCHANGED <<disk, memory, queue, gateQ, job, lock, call, troubles,
                   history>>

\* The claim is not used up.
Witness_bug(c) ==
    LET k == KeyOf[AttemptOf[c]]
    IN  /\ job[c].at = "witness"
        /\ IF claims[k] = c
           THEN \E v \in Verdicts : job' = [job EXCEPT ![c].at = "published",
                                                       ![c].val = v]
           ELSE Step(c, "ended")
        /\ UNCHANGED <<disk, memory, queue, gateQ, claims, lock, call,
                       troubles, history>>

\* finish_hard_witness: only the claimant publishes, and uses the claim up.
Witness(c) ==
    LET k == KeyOf[AttemptOf[c]]
    IN  /\ job[c].at = "witness"
        /\ IF claims[k] = c
           THEN /\ claims' = [claims EXCEPT ![k] = None]
                /\ \E v \in Verdicts : job' = [job EXCEPT
                                         ![c].at = "published", ![c].val = v]
           ELSE Step(c, "ended") /\ UNCHANGED claims
        /\ UNCHANGED <<disk, memory, queue, gateQ, lock, call, troubles,
                       history>>

-----------------------------------------------------------------------------
(* Concluding an attempt: finish_outcome_v3 for one's own, after the       *)
(* verdict is published, and supersede_outcome_v3 for another's.           *)

\* The outcome is copied; an execution without one ends in an error.
Finish(c) ==
    LET a == AttemptOf[c]
    IN  /\ job[c].at = "published"
        /\ job' = [job EXCEPT
               ![c].at = IF outcome[a] = None THEN "ended" ELSE "concluded",
               ![c].target = a]
        /\ UNCHANGED <<disk, memory, queue, gateQ, claims, lock, call,
                       troubles, history>>

\* The outcome it takes over is left alone.
Supersede_bug(c) ==
    /\ job[c].at = "superseding"
    /\ Step(c, "witness")
    /\ UNCHANGED <<disk, memory, queue, gateQ, claims, lock, call,
                   troubles, history>>

\* Only a pending outcome is superseded.
Supersede(c) ==
    /\ job[c].at = "superseding"
    /\ job' = [job EXCEPT ![c] =
           IF outcome[@.target] = "pending"
           THEN [@ EXCEPT !.at = "concluded", !.val = "superseded"]
           ELSE [NoJob EXCEPT !.at = "witness"]]
    /\ UNCHANGED <<disk, memory, queue, gateQ, claims, lock, call,
                   troubles, history>>

\* mark_evidence_unavailable_v3: only a failure survives a lost bundle.
Degraded(val) == IF val = "failed" THEN val ELSE "rejected"

\* EvidenceStore::persist renames a complete directory into place, or fails.
Persist(c) ==
    LET a == job[c].target
    IN  /\ job[c].at = "concluded"
        /\ \/ /\ evidence' = [evidence EXCEPT ![a] = job[c].val]
              /\ Step(c, "pruning")
              /\ UNCHANGED <<troubles, unsaved>>
           \/ /\ Trouble
              /\ job' = [job EXCEPT ![c].at = "remembering",
                                    ![c].val = Degraded(@)]
              /\ unsaved' = unsaved \cup {a}
              /\ UNCHANGED evidence
        /\ UNCHANGED <<admission, memory, queue, gateQ, claims, lock, call,
                       sent, acked, pruned, orphaned>>

\* prune: the bundle of an expired attempt is removed, then its admission.
\* An error ends the pruning, and is ignored.
Prune(c) ==
    /\ job[c].at = "pruning" /\ Trouble
    /\ \E a \in Attempts :
          /\ evidence[a] # None
          /\ evidence' = [evidence EXCEPT ![a] = None]
          /\ pruned' = pruned \cup {a}
          /\ job' = [job EXCEPT ![c].at = "unlinking", ![c].bundle = a]
    /\ UNCHANGED <<admission, memory, queue, gateQ, claims, lock, call, sent,
                   acked, unsaved, orphaned>>

Unlink(c) ==
    /\ job[c].at = "unlinking"
    /\ \/ /\ admission' = [admission EXCEPT ![job[c].bundle] = None]
          /\ Step(c, "pruning") /\ UNCHANGED troubles
       \/ /\ Trouble
          /\ Step(c, "remembering") /\ UNCHANGED admission
    /\ UNCHANGED <<evidence, memory, queue, gateQ, claims, lock, call,
                   history>>

PruneEnds(c) ==
    /\ job[c].at = "pruning"
    /\ Step(c, "remembering")
    /\ UNCHANGED <<disk, memory, queue, gateQ, claims, lock, call,
                   troubles, history>>

\* The conclusion is remembered; a successor goes on to its own witness.
Conclude(c) ==
    LET a == job[c].target
    IN  /\ job[c].at = "remembering"
        /\ Remember(a, job[c].val)
        /\ job' = [job EXCEPT ![c] = [NoJob EXCEPT
               !.at = IF a = AttemptOf[c] THEN "ended" ELSE "witness"]]
        /\ UNCHANGED <<disk, queue, gateQ, claims, lock, call, troubles,
                       history>>

Job(c) == \/ Emit(c) \/ Escalate(c) \/ Witness(c)
          \/ Finish(c) \/ Supersede(c) \/ Persist(c)
          \/ Prune(c) \/ Unlink(c) \/ PruneEnds(c) \/ Conclude(c)

-----------------------------------------------------------------------------
\* The process dies, or exits drained: threads and memory are gone, a client
\* whose call was under way hears nothing.
Restart ==
    /\ Trouble
    /\ lock' = None
    /\ outcome' = [a \in Attempts |-> None] /\ order' = <<>>
    /\ queue' = <<>> /\ gateQ' = <<>>
    /\ claims' = [k \in Keys |-> None]
    /\ job' = [c \in Calls |-> NoJob]
    /\ acked' = {} /\ orphaned' = {}
    /\ call' = [c \in Calls |->
                   IF call[c] \in {"new", "acked", "refused", "abandoned"}
                   THEN call[c] ELSE "cut"]
    /\ UNCHANGED <<disk, sent, pruned, unsaved>>

Next == \/ \E c \in Calls : Http(c) \/ Job(c)
        \/ LegacyPush \/ Take \/ DispatchGate
        \/ \E k \in Keys : LegacyGate(k) \/ LegacyEnds(k)
        \/ Restart

Spec == Init /\ [][Next]_vars

-----------------------------------------------------------------------------
(* Properties.                                                             *)

Sent(a) == {c \in sent : AttemptOf[c] = a}

\* A witness that lost its claim compiles on, but will not be heard.
Outdated(c) ==
    /\ claims[KeyOf[AttemptOf[c]]] # c
    /\ job[c].at = "witness" \/ job[c].target \notin {None, AttemptOf[c]}

\* An execution, or a call on the way to one, that can still conclude a.
Live(a) ==
    \E c \in Calls :
        \/ /\ AttemptOf[c] = a
           /\ job[c].at \notin {"none", "ended"} /\ ~Outdated(c)
        \/ AttemptOf[c] = a /\ call[c] \in {"reserved", "begun", "accepted"}
        \/ job[c].target = a

\* However often a client repeats itself, whatever was refused, rolled back
\* or cut by a crash, an attempt is handed to an executor at most once as
\* long as its evidence has not expired (serveapi.rs, the admission lock and
\* attempt.dispatch_lost).
AtMostOnce ==
    \A a \in Attempts \ pruned : Cardinality(Sent(a)) <= 1

\* A client told that its attempt was lost or never completed goes on with a
\* successor; at that moment nothing may be left that executes the old one,
\* unless the evidence of the old one has expired.
AbandonedIsDead ==
    [][\A c \in Calls :
          call[c] # "abandoned" /\ call'[c] = "abandoned"
              => ~Live(AttemptOf[c]) \/ AttemptOf[c] \in pruned]_vars

\* Whoever holds an ack of the running process can read an outcome, unless
\* its evidence expired or could never be written; and a pending one has
\* somebody who will conclude it, unless a nameless gate push took its
\* witness over (supersede_outcome_v3: never pending forever).
AckedIsKnown ==
    /\ \A a \in acked \ (pruned \cup unsaved) : Readable(a) # None
    /\ \A a \in Attempts \ orphaned : outcome[a] = "pending" => Live(a)

Terminal(val) == val \notin {None, "pending"}

\* What a client once read as the conclusion of its attempt never becomes
\* another one: neither a late witness, a successor, an eviction nor a
\* restart changes it.  A conclusion that could not be written may be
\* forgotten, unless it is a pass: a pass is not told before it is durable.
TerminalIsFinal ==
    [][\A a \in Attempts \ pruned' :
          Terminal(Readable(a)) =>
              \/ Readable(a)' = Readable(a)
              \/ /\ a \in unsaved /\ Readable(a) # "passed"
                 /\ Readable(a)' = None]_vars

=============================================================================
