--------------------------- MODULE Attempts_proofs ---------------------------
(***************************************************************************)
(* An attempt is executed at most once, known to whoever holds an ack of   *)
(* it, dead when a client gives it up, and concluded once, for every       *)
(* number of calls, attempts, crashes and failing file operations.         *)
(*                                                                         *)
(* The first follows from who owns the admission record: a call on its     *)
(* way to the dispatch and a call that dispatched own the record of their  *)
(* attempt, and a record has one owner. Only a call that never dispatched  *)
(* takes its record back, and only the pruning of an expired bundle        *)
(* removes the record of another. The others follow from the story of an   *)
(* attempt: who will still conclude it, what is pending until then, and    *)
(* what is durable after.                                                  *)
(***************************************************************************)
EXTENDS Attempts, FiniteSetTheorems, SequenceTheorems, TLAPS

CallStage == {"new", "found", "missing", "reserved", "begun", "accepted",
              "sent", "undo", "acked", "refused", "abandoned", "cut"}

JobStage == {"none", "queued", "analysed", "published", "witness", "superseding",
             "concluded", "pruning", "unlinking", "remembering", "ended"}

Execution == [at : JobStage, target : Attempts \cup {None},
              val : Verdicts \cup {"superseded", "rejected", None},
              bundle : Attempts \cup {None}]

Types ==
    /\ admission \in [Attempts -> Admission \cup {None}]
    /\ call \in [Calls -> CallStage]
    /\ job \in [Calls -> Execution]
    /\ sent \subseteq Calls /\ pruned \subseteq Attempts

Expired(c) == AttemptOf[c] \in pruned

\* A call under the admission lock, between its reservation and its dispatch.
Admitting(c) == call[c] \in {"reserved", "begun", "accepted"}

Owned == \A c \in Calls : (Admitting(c) \/ c \in sent) /\ ~Expired(c) => Owns(c)

Through == \A c \in sent : call[c] \in {"sent", "acked", "cut"}

UnlinksExpired == \A c \in Calls : job[c].at = "unlinking" => job[c].bundle \in pruned

IInv == Types /\ Owned /\ Through /\ UnlinksExpired

-----------------------------------------------------------------------------
(* The initial state, and what an action that takes no part leaves alone.  *)

LEMMA Constants ==
    /\ AttemptOf \in [Calls -> Attempts]
    /\ None \notin Calls /\ None \notin Attempts /\ None \notin Admission
BY AttemptsConstants

LEMMA InitIInv == Init => IInv
BY Constants DEF Init, IInv, Types, Owned, Through, UnlinksExpired, Admitting,
   Expired, Owns, CallStage, JobStage, Execution, NoJob

\* Ownership depends on the records and the calls alone.
LEMMA OwnershipKept ==
    ASSUME IInv, UNCHANGED <<admission, call, sent>>, pruned \subseteq pruned'
    PROVE  Owned' /\ Through'
BY Constants DEF IInv, Owned, Through, Admitting, Expired, Owns

\* An execution that goes on, not into the removal of an admission.
LEMMA JobsMoveOn ==
    ASSUME IInv, NEW c \in Calls, NEW j \in Execution, j.at # "unlinking",
           job' = [job EXCEPT ![c] = j], UNCHANGED pruned
    PROVE  job' \in [Calls -> Execution] /\ UnlinksExpired'
BY DEF IInv, Types, UnlinksExpired

LEMMA JobSteps ==
    ASSUME IInv, NEW c, NEW stage \in JobStage, stage # "unlinking",
           Step(c, stage), UNCHANGED pruned
    PROVE  job' \in [Calls -> Execution] /\ UnlinksExpired'
<1>1. CASE c \in Calls
    <2>1. [job[c] EXCEPT !.at = stage] \in Execution
        BY <1>1 DEF IInv, Types, Execution
    <2>2. job' = [job EXCEPT ![c] = [job[c] EXCEPT !.at = stage]]
        BY <1>1 DEF Step, IInv, Types
    <2> QED  BY <1>1, <2>1, <2>2, JobsMoveOn DEF Execution
<1>2. CASE c \notin Calls
    <2>1. job' = job
        BY <1>2 DEF Step, IInv, Types
    <2> QED  BY <2>1 DEF IInv, Types, UnlinksExpired
<1> QED  BY <1>1, <1>2

-----------------------------------------------------------------------------
(* HTTP threads.                                                           *)

LEMMA ReserveKeeps ==
    ASSUME IInv, NEW c \in Calls, Reserve(c)
    PROVE  IInv'
<1> DEFINE a == AttemptOf[c]
<1>1. a \in Attempts
    BY Constants
<1>2. PICK i \in Identities[c] :
          \/ /\ admission[a] = None
             /\ admission' = [admission EXCEPT ![a] = Reservation(c, i)]
             /\ call' = [call EXCEPT ![c] = "reserved"]
          \/ /\ admission[a] = None
             /\ admission' \in {admission, [admission EXCEPT ![a] = Reservation(c, i)]}
             /\ call' = [call EXCEPT ![c] = "refused"]
          \/ /\ admission' = admission
             /\ \E stage \in {"refused", "abandoned", "found"} :
                   call' = [call EXCEPT ![c] = stage]
    BY DEF Reserve, At
<1>3. Reservation(c, i) \in Admission /\ Reservation(c, i) # None
    <2>1. i \in UNION {Identities[d] : d \in Calls}
        OBVIOUS
    <2>2. Reservation(c, i) \in Admission
        BY <2>1, Zenon DEF Reservation, Admission
    <2> QED  BY <2>2, Constants
<1>4. call[c] = "new" /\ c \notin sent
    BY DEF Reserve, IInv, Through
<1>5. UNCHANGED <<job, sent, pruned>>
    BY DEF Reserve, work, history
<1>6. Types'
    BY <1>1, <1>2, <1>3, <1>5 DEF IInv, Types, CallStage
<1>7. Owned'
    <2> SUFFICES ASSUME NEW d \in Calls, Admitting(d)' \/ d \in sent, ~Expired(d)
                 PROVE  Owns(d)'
        BY <1>5 DEF Owned, Expired
    <2>1. CASE d = c
        BY <1>1, <1>2, <1>3, <1>4, <2>1 DEF IInv, Types, Admitting, Owns, Reservation
    <2>2. CASE d # c
        <3>1. Owns(d)
            BY <1>2, <2>2 DEF IInv, Types, Owned, Admitting
        <3>2. admission'[AttemptOf[d]] = admission[AttemptOf[d]]
            BY <1>1, <1>2, <3>1, Constants DEF IInv, Types, Owns
        <3> QED  BY <3>1, <3>2 DEF Owns
    <2> QED  BY <2>1, <2>2
<1>8. Through'
    BY <1>2, <1>4, <1>5 DEF IInv, Types, Through
<1> QED  BY <1>5, <1>6, <1>7, <1>8 DEF IInv, UnlinksExpired

\* A call that reserves nothing new and dispatches nothing.
LEMMA CallMoves ==
    ASSUME IInv, NEW c \in Calls, NEW stage \in CallStage,
           At(c, stage), UNCHANGED <<admission, job, sent, pruned>>,
           stage \in {"reserved", "begun", "accepted"} => Admitting(c),
           c \notin sent \/ stage \in {"sent", "acked", "cut"}
    PROVE  IInv'
BY Constants DEF IInv, Types, Owned, Through, UnlinksExpired, Admitting, Expired,
   Owns, At

LEMMA AcceptKeeps ==
    ASSUME IInv, NEW c \in Calls, Accept(c)
    PROVE  IInv'
<1> DEFINE a == AttemptOf[c]
           accepted == [admission EXCEPT ![a] = [@ EXCEPT !.accepted = TRUE]]
<1>1. a \in Attempts
    BY Constants
<1>2. /\ call[c] = "begun" /\ c \notin sent
      /\ \E stage \in {"accepted", "undo"} : call' = [call EXCEPT ![c] = stage]
      /\ UNCHANGED <<job, sent, pruned>>
    BY DEF Accept, At, work, history, IInv, Through
<1>3. admission' = admission \/ (Owns(c) /\ admission' = accepted)
    BY DEF Accept
<1>4. Types' /\ \A d \in Calls : Owns(d) => Owns(d)'
    <2>1. CASE admission' = admission
        BY <1>2, <2>1 DEF IInv, Types, CallStage, Owns
    <2>2. CASE Owns(c) /\ admission' = accepted
        <3>1. admission[a] \in Admission
            BY <1>1, <2>2 DEF IInv, Types, Owns
        <3>2. [admission[a] EXCEPT !.accepted = TRUE] \in Admission
            BY <3>1 DEF Admission
        <3>3. [admission[a] EXCEPT !.accepted = TRUE] # None
            BY <3>2, Constants
        <3>4. [admission[a] EXCEPT !.accepted = TRUE].owner = admission[a].owner
            BY <3>1 DEF Admission
        <3>5. admission' = [admission EXCEPT ![a] = [admission[a] EXCEPT !.accepted = TRUE]]
            BY <2>2
        <3>6. Types'
            BY <1>1, <1>2, <3>2, <3>5 DEF IInv, Types, CallStage
        <3>7. ASSUME NEW d \in Calls, Owns(d) PROVE Owns(d)'
            BY <1>1, <3>3, <3>4, <3>5, <3>7, Constants DEF IInv, Types, Owns
        <3> QED  BY <3>6, <3>7
    <2> QED  BY <1>3, <2>1, <2>2
<1>5. Owned' /\ Through'
    BY <1>2, <1>4 DEF IInv, Types, Owned, Through, Admitting, Expired
<1> QED  BY <1>2, <1>4, <1>5 DEF IInv, UnlinksExpired

\* A dispatch hands the record of the attempt on to the call that is sent.
LEMMA DispatchKeeps ==
    ASSUME IInv, NEW c \in Calls, call[c] = "accepted", At(c, "sent"),
           job' = [job EXCEPT ![c] = Queued(c)], sent' = sent \cup {c},
           UNCHANGED <<admission, pruned>>
    PROVE  IInv'
<1>1. Queued(c) \in Execution /\ Queued(c).at # "unlinking"
    BY DEF Queued, NoJob, Execution, JobStage
<1>2. job' \in [Calls -> Execution] /\ UnlinksExpired'
    BY <1>1, JobsMoveOn
<1>3. Types'
    BY <1>2 DEF IInv, Types, At, CallStage
<1>4. Owned' /\ Through'
    BY Constants DEF IInv, Types, Owned, Through, Admitting, Expired, Owns, At
<1> QED  BY <1>2, <1>3, <1>4 DEF IInv

LEMMA RollbackKeeps ==
    ASSUME IInv, NEW c \in Calls, Rollback(c)
    PROVE  IInv'
<1> DEFINE a == AttemptOf[c]
<1>1. /\ a \in Attempts
      /\ call[c] = "undo" /\ c \notin sent
      /\ call' = [call EXCEPT ![c] = "refused"]
      /\ UNCHANGED <<job, sent, pruned>>
    BY Constants DEF Rollback, Return, At, work, history, IInv, Through
<1>2. \/ admission' = admission
      \/ ~Owns(c) /\ admission' = [admission EXCEPT ![a] = @]
      \/ Owns(c) /\ admission' = [admission EXCEPT ![a] = None]
    BY DEF Rollback
<1>3. Types'
    BY <1>1, <1>2 DEF IInv, Types, CallStage
<1>4. ASSUME NEW d \in Calls, d # c, Owns(d) PROVE Owns(d)'
    BY <1>1, <1>2, <1>4, Constants DEF IInv, Types, Owns
<1>5. Owned' /\ Through'
    BY <1>1, <1>4 DEF IInv, Types, Owned, Through, Admitting, Expired
<1> QED  BY <1>1, <1>3, <1>5 DEF IInv, UnlinksExpired

LEMMA HttpKeeps ==
    ASSUME IInv, NEW c \in Calls, Http(c)
    PROVE  IInv'
<1>1. CASE Reserve(c)
    BY <1>1, ReserveKeeps
<1>2. CASE ReadEvidence(c)
    <2>1. \E stage \in {"acked", "missing"} : At(c, stage)
        BY <1>2 DEF ReadEvidence, Return
    <2>2. c \notin sent /\ UNCHANGED <<admission, job, sent, pruned>>
        BY <1>2 DEF ReadEvidence, disk, work, IInv, Through
    <2> QED  BY <2>1, <2>2, CallMoves DEF CallStage
<1>3. CASE ReadMemory(c)
    <2>1. \E stage \in {"acked", "abandoned"} : At(c, stage)
        BY <1>3 DEF ReadMemory, Return
    <2>2. c \notin sent /\ UNCHANGED <<admission, job, sent, pruned>>
        BY <1>3 DEF ReadMemory, disk, work, IInv, Through
    <2> QED  BY <2>1, <2>2, CallMoves DEF CallStage
<1>4. CASE Refuse(c)
    <2>1. At(c, "undo") /\ c \notin sent /\ UNCHANGED <<admission, job, sent, pruned>>
        BY <1>4 DEF Refuse, disk, work, history, IInv, Through
    <2> QED  BY <2>1, CallMoves DEF CallStage
<1>5. CASE Begin(c)
    <2>1. /\ At(c, "begun") /\ c \notin sent /\ Admitting(c)
          /\ UNCHANGED <<admission, job, sent, pruned>>
        BY <1>5 DEF Begin, disk, work, history, IInv, Through, Admitting
    <2> QED  BY <2>1, CallMoves DEF CallStage
<1>6. CASE Accept(c)
    BY <1>6, AcceptKeeps
<1>7. CASE SendGate(c)
    <2>1. /\ call[c] = "accepted" /\ c \notin sent /\ UNCHANGED <<admission, pruned>>
          /\ \/ /\ job' = [job EXCEPT ![c] = Queued(c)] /\ sent' = sent \cup {c}
                /\ At(c, "sent")
             \/ At(c, "undo") /\ UNCHANGED <<job, sent>>
        BY <1>7 DEF SendGate, disk, IInv, Through
    <2> QED  BY <2>1, DispatchKeeps, CallMoves DEF CallStage
<1>8. CASE Enqueue(c)
    <2>1. /\ call[c] = "accepted" /\ c \notin sent /\ UNCHANGED <<admission, pruned>>
          /\ \/ /\ job' = [job EXCEPT ![c] = Queued(c)] /\ sent' = sent \cup {c}
                /\ At(c, "sent")
             \/ At(c, "undo") /\ UNCHANGED <<job, sent>>
        BY <1>8 DEF Enqueue, disk, IInv, Through
    <2> QED  BY <2>1, DispatchKeeps, CallMoves DEF CallStage
<1>9. CASE Ack(c)
    <2>1. At(c, "acked") /\ UNCHANGED <<admission, job, sent, pruned>>
        BY <1>9 DEF Ack, Return, disk, work
    <2> QED  BY <2>1, CallMoves DEF CallStage
<1>10. CASE Rollback(c)
    BY <1>10, RollbackKeeps
<1> QED  BY <1>1, <1>2, <1>3, <1>4, <1>5, <1>6, <1>7, <1>8, <1>9, <1>10 DEF Http

-----------------------------------------------------------------------------
(* Executions.                                                             *)

LEMMA ClaimMoves ==
    ASSUME IInv, NEW c, Claim(c), UNCHANGED pruned
    PROVE  job' \in [Calls -> Execution] /\ UnlinksExpired'
<1>1. PICK j : /\ job' = [job EXCEPT ![c] = j]
               /\ \/ j = [NoJob EXCEPT !.at = "witness"]
                  \/ \E p \in Calls : j = [NoJob EXCEPT !.at = "superseding",
                                                       !.target = AttemptOf[p]]
    BY DEF Claim
<1>2. j \in Execution /\ j.at # "unlinking"
    BY <1>1, Constants DEF NoJob, Execution, JobStage
<1>3. CASE c \in Calls
    BY <1>1, <1>2, <1>3, JobsMoveOn
<1>4. CASE c \notin Calls
    <2>1. job' = job
        BY <1>1, <1>4 DEF IInv, Types
    <2> QED  BY <2>1 DEF IInv, Types, UnlinksExpired
<1> QED  BY <1>3, <1>4

\* An action that touches neither calls nor records, and expires nothing.
LEMMA ExecutionKeeps ==
    ASSUME IInv, UNCHANGED <<admission, call, sent, pruned>>,
           job' \in [Calls -> Execution], UnlinksExpired'
    PROVE  IInv'
<1>1. Owned' /\ Through'
    BY OwnershipKept
<1>2. Types'
    BY DEF IInv, Types
<1> QED  BY <1>1, <1>2 DEF IInv

LEMMA PruneKeeps ==
    ASSUME IInv, NEW c \in Calls, Prune(c)
    PROVE  IInv'
<1>1. PICK a \in Attempts :
          /\ pruned' = pruned \cup {a}
          /\ job' = [job EXCEPT ![c].at = "unlinking", ![c].bundle = a]
    BY DEF Prune
<1>2. UNCHANGED <<admission, call, sent>>
    BY DEF Prune
<1>3. Owned' /\ Through'
    BY <1>1, <1>2, OwnershipKept
<1>4. Types' /\ UnlinksExpired'
    <2> DEFINE j == [[job[c] EXCEPT !.at = "unlinking"] EXCEPT !.bundle = a]
    <2>1. j \in Execution /\ j.bundle = a
        BY DEF IInv, Types, Execution, JobStage
    <2>2. job' = [job EXCEPT ![c] = j]
        BY <1>1 DEF IInv, Types
    <2> QED  BY <1>1, <1>2, <2>1, <2>2 DEF IInv, Types, UnlinksExpired
<1> QED  BY <1>3, <1>4 DEF IInv

LEMMA UnlinkKeeps ==
    ASSUME IInv, NEW c \in Calls, Unlink(c)
    PROVE  IInv'
<1> DEFINE b == job[c].bundle
<1>1. /\ b \in pruned /\ UNCHANGED <<call, sent, pruned>>
      /\ \E stage \in {"pruning", "remembering"} : Step(c, stage)
      /\ admission' \in {admission, [admission EXCEPT ![b] = None]}
    BY DEF Unlink, history, IInv, UnlinksExpired
<1>2. job' \in [Calls -> Execution] /\ UnlinksExpired'
    BY <1>1, JobSteps DEF JobStage
<1>3. Types'
    BY <1>1, <1>2 DEF IInv, Types
<1>4. ASSUME NEW d \in Calls, ~Expired(d), Owns(d) PROVE Owns(d)'
    BY <1>1, <1>4, Constants DEF IInv, Types, Owns, Expired
<1>5. Owned' /\ Through'
    BY <1>1, <1>4 DEF IInv, Types, Owned, Through, Admitting, Expired
<1> QED  BY <1>2, <1>3, <1>5 DEF IInv

LEMMA JobKeeps ==
    ASSUME IInv, NEW c \in Calls, Job(c)
    PROVE  IInv'
<1>1. CASE Prune(c)
    BY <1>1, PruneKeeps
<1>2. CASE Unlink(c)
    BY <1>2, UnlinkKeeps
<1>3. ASSUME NEW j \in Execution, j.at # "unlinking", job' = [job EXCEPT ![c] = j],
             UNCHANGED <<admission, call, sent, pruned>>
      PROVE  IInv'
    BY <1>3, JobsMoveOn, ExecutionKeeps
<1>4. job[c] \in Execution
    BY DEF IInv, Types
<1>5. CASE Emit(c)
    <2>1. PICK v \in Verdicts : job' = [job EXCEPT ![c].at = "published", ![c].val = v]
        BY <1>5 DEF Emit
    <2> DEFINE j == [[job[c] EXCEPT !.at = "published"] EXCEPT !.val = v]
    <2>2. j \in Execution /\ j.at # "unlinking"
        BY <1>4 DEF Execution, JobStage
    <2>3. job' = [job EXCEPT ![c] = j]
        BY <2>1 DEF IInv, Types
    <2>4. UNCHANGED <<admission, call, sent, pruned>>
        BY <1>5 DEF Emit, disk, history
    <2> QED  BY <1>3, <2>2, <2>3, <2>4
<1>6. CASE Escalate(c)
    <2>1. Claim(c) /\ UNCHANGED <<admission, call, sent, pruned>>
        BY <1>6 DEF Escalate, disk, history
    <2> QED  BY <2>1, ClaimMoves, ExecutionKeeps
<1>7. CASE Witness(c)
    <2>1. UNCHANGED <<admission, call, sent, pruned>>
        BY <1>7 DEF Witness, disk, history
    <2>2. CASE Step(c, "ended")
        BY <2>1, <2>2, JobSteps, ExecutionKeeps DEF JobStage
    <2>3. CASE \E v \in Verdicts : job' = [job EXCEPT ![c].at = "published", ![c].val = v]
        <3>1. PICK v \in Verdicts : job' = [job EXCEPT ![c].at = "published", ![c].val = v]
            BY <2>3
        <3> DEFINE j == [[job[c] EXCEPT !.at = "published"] EXCEPT !.val = v]
        <3>2. j \in Execution /\ j.at # "unlinking"
            BY <1>4 DEF Execution, JobStage
        <3>3. job' = [job EXCEPT ![c] = j]
            BY <3>1 DEF IInv, Types
        <3> QED  BY <1>3, <2>1, <3>2, <3>3
    <2> QED  BY <1>7, <2>2, <2>3 DEF Witness
<1>8. CASE Finish(c)
    <2>1. PICK stage \in {"ended", "concluded"} :
              job' = [job EXCEPT ![c].at = stage, ![c].target = AttemptOf[c]]
        BY <1>8 DEF Finish
    <2> DEFINE j == [[job[c] EXCEPT !.at = stage] EXCEPT !.target = AttemptOf[c]]
    <2>2. j \in Execution /\ j.at # "unlinking"
        BY <1>4, Constants DEF Execution, JobStage
    <2>3. job' = [job EXCEPT ![c] = j]
        BY <2>1 DEF IInv, Types
    <2>4. UNCHANGED <<admission, call, sent, pruned>>
        BY <1>8 DEF Finish, disk, history
    <2> QED  BY <1>3, <2>2, <2>3, <2>4
<1>9. CASE Supersede(c)
    <2>1. PICK j : /\ job' = [job EXCEPT ![c] = j]
                   /\ \/ j = [[job[c] EXCEPT !.at = "concluded"] EXCEPT !.val = "superseded"]
                      \/ j = [NoJob EXCEPT !.at = "witness"]
        BY <1>9 DEF Supersede, IInv, Types
    <2>2. j \in Execution /\ j.at # "unlinking"
        BY <1>4, <2>1 DEF Execution, JobStage, NoJob
    <2>3. UNCHANGED <<admission, call, sent, pruned>>
        BY <1>9 DEF Supersede, disk, history
    <2> QED  BY <1>3, <2>1, <2>2, <2>3
<1>10. CASE Persist(c)
    <2>1. UNCHANGED <<admission, call, sent, pruned>>
        BY <1>10 DEF Persist
    <2>2. CASE Step(c, "pruning")
        BY <2>1, <2>2, JobSteps, ExecutionKeeps DEF JobStage
    <2>3. CASE job' = [job EXCEPT ![c].at = "remembering", ![c].val = Degraded(@)]
        <3> DEFINE j == [[job[c] EXCEPT !.at = "remembering"] EXCEPT !.val = Degraded(@)]
        <3>1. j \in Execution /\ j.at # "unlinking"
            BY <1>4 DEF Execution, JobStage, Degraded, Verdicts
        <3>2. job' = [job EXCEPT ![c] = j]
            BY <2>3 DEF IInv, Types
        <3> QED  BY <1>3, <2>1, <3>1, <3>2
    <2> QED  BY <1>10, <2>2, <2>3 DEF Persist
<1>11. CASE PruneEnds(c)
    <2>1. Step(c, "remembering") /\ UNCHANGED <<admission, call, sent, pruned>>
        BY <1>11 DEF PruneEnds, disk, history
    <2> QED  BY <2>1, JobSteps, ExecutionKeeps DEF JobStage
<1>12. CASE Conclude(c)
    <2>1. PICK stage \in {"ended", "witness"} :
              job' = [job EXCEPT ![c] = [NoJob EXCEPT !.at = stage]]
        BY <1>12 DEF Conclude
    <2>2. [NoJob EXCEPT !.at = stage] \in Execution /\ [NoJob EXCEPT !.at = stage].at # "unlinking"
        BY DEF NoJob, Execution, JobStage
    <2>3. UNCHANGED <<admission, call, sent, pruned>>
        BY <1>12 DEF Conclude, disk, history
    <2> QED  BY <1>3, <2>1, <2>2, <2>3
<1> QED  BY <1>1, <1>2, <1>5, <1>6, <1>7, <1>8, <1>9, <1>10, <1>11, <1>12 DEF Job

LEMMA RestartKeeps ==
    ASSUME IInv, Restart
    PROVE  IInv'
<1>1. UNCHANGED <<admission, sent, pruned>>
    BY DEF Restart, disk
<1>2. Types'
    BY <1>1 DEF Restart, IInv, Types, CallStage, NoJob, Execution, JobStage
<1>3. Owned' /\ Through'
    BY <1>1 DEF Restart, IInv, Types, Owned, Through, Admitting, Expired, Owns
<1>4. UnlinksExpired'
    BY DEF Restart, UnlinksExpired, NoJob
<1> QED  BY <1>2, <1>3, <1>4 DEF IInv

-----------------------------------------------------------------------------
(* The theorem.                                                            *)

LEMMA NextKeeps == IInv /\ [Next]_vars => IInv'
<1> SUFFICES ASSUME IInv, [Next]_vars PROVE IInv'
    OBVIOUS
<1>1. ASSUME NEW c \in Calls, Http(c) PROVE IInv'
    BY <1>1, HttpKeeps
<1>2. ASSUME NEW c \in Calls, Job(c) PROVE IInv'
    BY <1>2, JobKeeps
<1>3. CASE LegacyPush \/ (\E k \in Keys : LegacyGate(k) \/ LegacyEnds(k)) \/ UNCHANGED vars
    <2>1. UNCHANGED <<admission, call, sent, pruned, job>>
        BY <1>3 DEF LegacyPush, LegacyGate, LegacyEnds, vars, disk, work, history
    <2> QED  BY <2>1, ExecutionKeeps DEF IInv, Types, UnlinksExpired
<1>4. CASE Take
    <2>1. UNCHANGED <<admission, call, sent, pruned>>
        BY <1>4 DEF Take, disk, history
    <2>2. job' = job \/ Step(Head(queue), "analysed")
        BY <1>4 DEF Take
    <2>3. job' \in [Calls -> Execution] /\ UnlinksExpired'
        BY <2>1, <2>2, JobSteps DEF JobStage, IInv, Types, UnlinksExpired
    <2> QED  BY <2>1, <2>3, ExecutionKeeps
<1>5. CASE DispatchGate
    <2>1. Claim(Head(gateQ)) /\ UNCHANGED <<admission, call, sent, pruned>>
        BY <1>5 DEF DispatchGate, disk, history
    <2> QED  BY <2>1, ClaimMoves, ExecutionKeeps
<1>6. CASE Restart
    BY <1>6, RestartKeeps
<1> QED  BY <1>1, <1>2, <1>3, <1>4, <1>5, <1>6 DEF Next

\* A record has one owner, so an attempt was dispatched by one call at most.
LEMMA OneOwner == IInv => AtMostOnce
<1> SUFFICES ASSUME IInv, NEW a \in Attempts \ pruned
             PROVE  Cardinality(Sent(a)) <= 1
    BY DEF AtMostOnce
<1>1. ASSUME NEW c \in Sent(a), NEW d \in Sent(a) PROVE c = d
    <2>1. /\ c \in Calls /\ c \in sent /\ AttemptOf[c] = a
          /\ d \in Calls /\ d \in sent /\ AttemptOf[d] = a
        BY <1>1 DEF Sent, IInv, Types
    <2> QED  BY <2>1 DEF IInv, Owned, Expired, Owns
<1>2. CASE Sent(a) = {}
    BY <1>2, FS_EmptySet
<1>3. CASE Sent(a) # {}
    <2>1. PICK c : Sent(a) = {c}
        BY <1>1, <1>3
    <2> QED  BY <2>1, FS_Singleton
<1> QED  BY <1>2, <1>3

\* AtMostOnce holds in every state of the ledger, whatever the calls, the
\* crashes and the file operations that fail: the admission record is what
\* keeps an attempt from a second execution.
THEOREM ExecutedAtMostOnce == Spec => []AtMostOnce
<1>1. Spec => []IInv
    BY InitIInv, NextKeeps, PTL DEF Spec
<1> QED  BY <1>1, OneOwner, PTL

-----------------------------------------------------------------------------
(* Sequences.                                                              *)

LEMMA Positions ==
  ASSUME NEW S, NEW q \in Seq(S)
  PROVE  /\ Len(q) \in Nat /\ DOMAIN q = 1..Len(q)
         /\ \A k \in DOMAIN q : k \in Nat /\ k >= 1 /\ k <= Len(q) /\ q[k] \in S
         /\ q = <<>> <=> Len(q) = 0
         /\ q # <<>> <=> 1 \in DOMAIN q
<1>1. Len(q) \in Nat /\ DOMAIN q = 1..Len(q)
  BY LenProperties
<1>2. q = <<>> <=> Len(q) = 0
  BY EmptySeq
<1> QED  BY <1>1, <1>2, ElementOfSeq

LEMMA TailPositions ==
  ASSUME NEW S, NEW q \in Seq(S), q # <<>>
  PROVE  /\ Tail(q) \in Seq(S) /\ Len(Tail(q)) = Len(q) - 1 /\ Head(q) = q[1] /\ q[1] \in S
         /\ 1 \in DOMAIN q
         /\ \A k \in DOMAIN Tail(q) : k \in Nat /\ k + 1 \in DOMAIN q /\ Tail(q)[k] = q[k + 1]
         /\ \A k \in DOMAIN q : k # 1 => k - 1 \in DOMAIN Tail(q) /\ Tail(q)[k - 1] = q[k]
<1>1. /\ Tail(q) \in Seq(S) /\ Len(Tail(q)) = Len(q) - 1
      /\ \A k \in 1..Len(Tail(q)) : Tail(q)[k] = q[k + 1]
  BY HeadTailProperties
<1>2. /\ Len(q) \in Nat /\ DOMAIN q = 1..Len(q) /\ 1 \in DOMAIN q /\ q[1] \in S
      /\ DOMAIN Tail(q) = 1..Len(Tail(q)) /\ Len(Tail(q)) \in Nat
  BY <1>1, Positions
<1>3. Head(q) = q[1]
  OBVIOUS
<1>4. \A k \in DOMAIN Tail(q) : k \in Nat /\ k + 1 \in DOMAIN q /\ Tail(q)[k] = q[k + 1]
  BY <1>1, <1>2
<1>5. \A k \in DOMAIN q : k # 1 => k - 1 \in DOMAIN Tail(q) /\ (k - 1) + 1 = k
  BY <1>1, <1>2
<1>6. \A k \in DOMAIN q : k # 1 => Tail(q)[k - 1] = q[k]
  BY <1>4, <1>5
<1> QED  BY <1>1, <1>2, <1>3, <1>4, <1>5, <1>6

LEMMA AppendPositions ==
  ASSUME NEW S, NEW q \in Seq(S), NEW e \in S
  PROVE  /\ Append(q, e) \in Seq(S) /\ Append(q, e) # <<>>
         /\ Len(q) + 1 \in DOMAIN Append(q, e) /\ Append(q, e)[Len(q) + 1] = e
         /\ \A k \in DOMAIN q : /\ k \in Nat /\ k < Len(q) + 1 /\ k \in DOMAIN Append(q, e)
                                /\ Append(q, e)[k] = q[k]
         /\ \A k \in DOMAIN Append(q, e) : /\ k \in Nat /\ k <= Len(q) + 1
                                           /\ k \in DOMAIN q \/ k = Len(q) + 1
<1>1. /\ Append(q, e) \in Seq(S) /\ Append(q, e) # <<>> /\ Len(Append(q, e)) = Len(q) + 1
      /\ \A i \in 1..Len(q) : Append(q, e)[i] = q[i]
      /\ Append(q, e)[Len(q) + 1] = e
  BY AppendProperties
<1>2. Len(q) \in Nat /\ DOMAIN q = 1..Len(q) /\ DOMAIN Append(q, e) = 1..Len(q) + 1
  BY <1>1, LenProperties
<1> QED  BY <1>1, <1>2

\* An order that names each attempt once loses one entry.
LEMMA RemoveOnce ==
  ASSUME NEW S, NEW q \in Seq(S), NEW e, IsInjective(q)
  PROVE  /\ RemoveFirst(q, e) \in Seq(S) /\ IsInjective(RemoveFirst(q, e))
         /\ ToSet(RemoveFirst(q, e)) \subseteq ToSet(q) \ {e}
<1>1. CASE ~\E i \in 1..Len(q) : q[i] = e
  <2>1. e \notin ToSet(q)
    BY <1>1, LenProperties DEF ToSet
  <2> QED  BY <1>1, <2>1 DEF RemoveFirst
<1>2. ASSUME \E i \in 1..Len(q) : q[i] = e
      PROVE  /\ RemoveFirst(q, e) \in Seq(S) /\ IsInjective(RemoveFirst(q, e))
             /\ ToSet(RemoveFirst(q, e)) \subseteq ToSet(q) \ {e}
  <2> DEFINE I == {i \in 1..Len(q) : q[i] = e}
             n == SelectInSeq(q, LAMBDA v : v = e)
  <2>1. PICK k \in 1..Len(q) : I = {k}
    BY <1>2, Positions DEF IsInjective
  <2>2. n = Min(I)
    BY <2>1 DEF SelectInSeq
  <2>3. n = k
    <3>1. k \in {k} /\ \A y \in {k} : k <= y
      OBVIOUS
    <3>2. Min({k}) \in {k}
      BY <3>1 DEF Min
    <3> QED  BY <2>1, <2>2, <3>2
  <2> HIDE DEF n
  <2>4. RemoveFirst(q, e) = SubSeq(q, 1, k - 1) \o SubSeq(q, k + 1, Len(q))
    BY <1>2, <2>3 DEF RemoveFirst, RemoveAt, n
  <2> DEFINE a == SubSeq(q, 1, k - 1)
             b == SubSeq(q, k + 1, Len(q))
             r == a \o b
  <2>5. /\ Len(q) \in Nat /\ DOMAIN q = 1..Len(q) /\ \A i \in 1..Len(q) : q[i] \in S
        /\ k \in Nat /\ 1 <= k /\ k <= Len(q)
    BY Positions
  <2>6. /\ a \in Seq(S) /\ Len(a) = k - 1 /\ \A i \in 1..k - 1 : a[i] = q[i]
    <3>1. \A i \in 1..k - 1 : q[i] \in S
      BY <2>5
    <3>2. /\ a \in Seq(S) /\ Len(a) = IF 1 <= k - 1 THEN (k - 1) - 1 + 1 ELSE 0
          /\ \A i \in 1..(k - 1) - 1 + 1 : a[i] = q[1 + i - 1]
      BY <2>5, <3>1, SubSeqProperties
    <3> HIDE DEF a
    <3>3. /\ (k - 1) - 1 + 1 = k - 1 /\ \A i \in 1..k - 1 : 1 + i - 1 = i
          /\ Len(a) = k - 1
      BY <2>5, <3>2
    <3> QED  BY <3>2, <3>3
  <2>7. /\ b \in Seq(S) /\ Len(b) = Len(q) - k /\ \A i \in 1..Len(q) - k : b[i] = q[k + i]
    <3>1. \A i \in k + 1..Len(q) : q[i] \in S
      BY <2>5
    <3>2. /\ b \in Seq(S)
          /\ Len(b) = IF k + 1 <= Len(q) THEN Len(q) - (k + 1) + 1 ELSE 0
          /\ \A i \in 1..Len(q) - (k + 1) + 1 : b[i] = q[(k + 1) + i - 1]
      BY <2>5, <3>1, SubSeqProperties
    <3> HIDE DEF b
    <3>3. /\ Len(q) - (k + 1) + 1 = Len(q) - k
          /\ \A i \in 1..Len(q) - k : (k + 1) + i - 1 = k + i
      BY <2>5
    <3>4. Len(b) = Len(q) - k
      <4>1. Len(b) = IF k + 1 <= Len(q) THEN Len(q) - k ELSE 0
        BY <3>2, <3>3
      <4>2. CASE k + 1 <= Len(q)
        BY <4>1, <4>2
      <4>3. CASE ~(k + 1 <= Len(q))
        <5>1. \A i, j \in Nat : i <= j /\ ~(i + 1 <= j) => j - i = 0
          OBVIOUS
        <5>2. Len(q) - k = 0
          BY <2>5, <4>3, <5>1
        <5> QED  BY <4>1, <4>3, <5>2
      <4> QED  BY <4>2, <4>3
    <3> QED  BY <3>2, <3>3, <3>4
  <2> HIDE DEF a, b
  <2>8. /\ r \in Seq(S) /\ Len(r) = Len(q) - 1
        /\ \A i \in 1..Len(q) - 1 : r[i] = IF i <= k - 1 THEN a[i] ELSE b[i - (k - 1)]
    <3>1. /\ r \in Seq(S) /\ Len(r) = Len(a) + Len(b)
          /\ \A i \in 1..Len(a) + Len(b) : r[i] = IF i <= Len(a) THEN a[i] ELSE b[i - Len(a)]
      BY <2>6, <2>7, ConcatProperties
    <3> HIDE DEF r
    <3>2. Len(a) + Len(b) = Len(q) - 1
      BY <2>5, <2>6, <2>7
    <3> QED  BY <2>6, <3>1, <3>2
  <2> HIDE DEF r
  <2> DEFINE pos(i) == IF i <= k - 1 THEN i ELSE i + 1
  <2>9. /\ \A i \in 1..Len(q) - 1 : pos(i) \in 1..Len(q) /\ pos(i) # k
        /\ \A i, j \in 1..Len(q) - 1 : pos(i) = pos(j) => i = j
    BY <2>5
  <2>10. DOMAIN r = 1..Len(q) - 1 /\ \A i \in DOMAIN r : r[i] = q[pos(i)]
    <3>1. DOMAIN r = 1..Len(q) - 1
      BY <2>8, LenProperties
    <3>2. \A i \in 1..Len(q) - 1 : r[i] = q[pos(i)]
      BY <2>5, <2>6, <2>7, <2>8
    <3> QED  BY <3>1, <3>2
  <2> HIDE DEF pos
  <2>11. IsInjective(r)
    <3>1. \A i, j \in DOMAIN r : r[i] = r[j] => pos(i) = pos(j)
      BY <2>5, <2>9, <2>10 DEF IsInjective
    <3> QED  BY <2>9, <2>10, <3>1 DEF IsInjective
  <2>12. ToSet(r) \subseteq ToSet(q) \ {e}
    <3>1. \A j \in 1..Len(q) : j # k => q[j] # e
      BY <2>1
    <3>2. \A i \in DOMAIN r : \E j \in DOMAIN q : r[i] = q[j] /\ q[j] # e
      BY <2>5, <2>9, <2>10, <3>1
    <3> QED  BY <3>2 DEF ToSet
  <2> QED  BY <2>4, <2>8, <2>11, <2>12 DEF r, a, b
<1> QED  BY <1>1, <1>2

-----------------------------------------------------------------------------
(* The invariant behind the other properties: the threads at the ledger,   *)
(* the executions, the memory, and the story of every attempt.             *)

Own(c) == AttemptOf[c]

\* From the reservation to the answer a call holds the lock; the record of an
\* attempt that is being admitted or was dispatched is the call's, and accepted
\* before the dispatch.
Locking == {"found", "missing", "reserved", "begun", "accepted", "sent", "undo"}
Clerks ==
    /\ lock \in Calls \cup {None}
    /\ \A c \in Calls :
          /\ call[c] \in Locking => lock = c
          /\ call[c] = "sent" => c \in sent
          /\ ~Expired(c) =>
                /\ call[c] \in {"reserved", "begun", "accepted", "undo"} \/ c \in sent
                      => Owns(c)
                /\ call[c] = "accepted" \/ c \in sent => admission[Own(c)].accepted

\* An execution, by its stage; a claimant is on its way to its own verdict.
Told == {"pruning", "unlinking", "remembering"}
Concluding == Told \cup {"concluded"}
Shape(c, j) ==
    /\ j.at \in {"none", "queued", "analysed", "published", "witness"} => j.target = None
    /\ j.at = "superseding" => j.target \in Attempts \ {Own(c)}
    /\ j.at \in Concluding => j.target \in Attempts
    /\ j.at \in Concluding \cup {"published"} => j.val # None
Claiming(c, j) == \/ j.at = "witness"
                  \/ j.at \in Concluding \cup {"superseding"} /\ j.target # Own(c)
Executions ==
    /\ queue \in Seq(Calls \cup {Legacy}) /\ gateQ \in Seq(Calls)
    /\ claims \in [Keys -> Calls \cup {Legacy, None}]
    /\ \A c \in Calls : Shape(c, job[c]) /\ (c \notin sent => job[c] = NoJob)
    /\ \A k \in Keys : claims[k] \in Calls =>
          KeyOf[Own(claims[k])] = k /\ Claiming(claims[k], job[claims[k]])
    /\ \A i \in DOMAIN queue : queue[i] # Legacy =>
          job[queue[i]].at = "queued" /\ Own(queue[i]) \notin Gates
    /\ \A i, j \in DOMAIN queue : queue[i] # Legacy /\ queue[j] # Legacy =>
          (Own(queue[i]) = Own(queue[j]) => i = j)
    /\ \A i \in DOMAIN gateQ : job[gateQ[i]].at = "queued" /\ Own(gateQ[i]) \in Gates
    /\ \A i, j \in DOMAIN gateQ : gateQ[i] = gateQ[j] => i = j

\* What is in the order of ageing is terminal.
Memory ==
    /\ evidence \in [Attempts -> Conclusion \cup {None}]
    /\ outcome \in [Attempts -> Conclusion \cup {"pending", None}]
    /\ order \in Seq(Attempts) /\ IsInjective(order)
    /\ \A b \in ToSet(order) : Terminal(outcome[b])

Base == IInv /\ Clerks /\ Executions /\ Memory

\* Who will still conclude an attempt: the executions of Live.
Due(c, a) == \/ Own(c) = a /\ job[c].at \notin {"none", "ended"} /\ ~Outdated(c)
             \/ job[c].target = a
Settled(c, a) == job[c].target = a /\ job[c].at \in Told
Begun(c) == call[c] \in {"begun", "accepted"}
Begins(a) == \E c \in Calls : Own(c) = a /\ Begun(c)
Dispatched(a) == \E c \in Calls : Own(c) = a /\ c \in sent

\* An attempt that was not dispatched left no trace but its pending outcome.
Untold(a) ==
    ~Dispatched(a) =>
        /\ evidence[a] = None /\ a \notin acked
        /\ \A c \in Calls : ~Due(c, a)
        /\ outcome[a] = IF Begins(a) THEN "pending" ELSE None

\* One execution concludes it; until it has, the outcome is pending.
OneExecutor(a) == \A c, d \in Calls : Due(c, a) /\ Due(d, a) => c = d
Pending(a) ==
    \A c \in Calls : Due(c, a) =>
        IF Settled(c, a)
        THEN \/ evidence[a] = job[c].val /\ outcome[a] \in {"pending", None, job[c].val}
             \/ /\ evidence[a] = None /\ outcome[a] = "pending" /\ a \in unsaved
                /\ job[c].at = "remembering" /\ job[c].val # "passed"
        ELSE evidence[a] = None /\ outcome[a] = "pending"

\* A conclusion in memory is the one on disk, or could not be written there.
Durable(a) ==
    Terminal(outcome[a]) =>
        \/ evidence[a] = outcome[a]
        \/ evidence[a] = None /\ a \in unsaved /\ outcome[a] # "passed"

\* A retry that found no evidence will find the outcome of what still runs.
LookedUp(a) ==
    \A c, d \in Calls : Own(c) = a /\ call[c] = "missing" /\ Due(d, a) => outcome[a] = "pending"

Known(a) ==
    a \notin unsaved /\ (a \in acked \/ \E c \in Calls : Own(c) = a /\ call[c] = "sent")
        => Readable(a) # None

Story(a) == /\ Untold(a) /\ OneExecutor(a) /\ Pending(a)
            /\ Durable(a) /\ LookedUp(a) /\ Known(a)

\* Somebody concludes what is pending, unless its claim went to a nameless push.
Awaited(a) ==
    a \notin orphaned /\ outcome[a] = "pending" => Begins(a) \/ \E c \in Calls : Due(c, a)

Account(a) == Awaited(a) /\ (a \notin pruned => Story(a))

AInv == Base /\ \A a \in Attempts : Account(a)

\* What a step may do to what a client can read.
Final(a) ==
    Terminal(Readable(a)) =>
        \/ Readable(a)' = Readable(a)
        \/ a \in unsaved /\ Readable(a) # "passed" /\ Readable(a)' = None

Continues(a) == Account(a)' /\ (a \notin pruned' => Final(a))

-----------------------------------------------------------------------------
(* The memory: what is remembered, aged and forgotten.                     *)

LEMMA Values ==
    /\ None \notin Conclusion /\ None # "pending" /\ None # Legacy /\ Legacy \notin Calls
    /\ "pending" \notin Conclusion /\ Verdicts \subseteq Conclusion
    /\ \A c \in Calls : Own(c) \in Attempts
BY AttemptsConstants DEF Conclusion, Verdicts, Own

LEMMA RememberIs ==
    ASSUME Memory, NEW a \in Attempts, NEW val \in Conclusion \cup {"pending"},
           Remember(a, val), UNCHANGED evidence
    PROVE  /\ Memory' /\ outcome'[a] = val
           /\ \A b \in Attempts \ {a} : \/ outcome'[b] = outcome[b]
                                        \/ outcome'[b] = None /\ Terminal(outcome[b])
<1> DEFINE others == RemoveFirst(order, a)
           aged == IF val = "pending" THEN others ELSE Append(others, a)
           kept == IF Len(aged) > MemoryCap THEN Tail(aged) ELSE aged
           gone == ToSet(aged) \ ToSet(kept)
<1>1. /\ others \in Seq(Attempts) /\ IsInjective(others)
      /\ ToSet(others) \subseteq ToSet(order) \ {a}
    BY RemoveOnce DEF Memory
<1>2. /\ order' = kept
      /\ outcome' = [b \in Attempts |-> IF b \in gone THEN None
                                        ELSE IF b = a THEN val ELSE outcome[b]]
    BY DEF Remember
<1> HIDE DEF others
<1>3. /\ aged \in Seq(Attempts) /\ IsInjective(aged)
      /\ ToSet(aged) \subseteq ToSet(others) \cup {a}
      /\ val = "pending" => a \notin ToSet(aged)
      /\ val # "pending" => Len(aged) \in DOMAIN aged /\ aged[Len(aged)] = a
    <2>1. CASE val = "pending"
        BY <1>1, <2>1
    <2>2. CASE val # "pending"
        <3>1. aged = Append(others, a)
            BY <2>2
        <3> HIDE DEF aged
        <3>2. /\ aged \in Seq(Attempts) /\ Len(others) + 1 \in DOMAIN aged
              /\ aged[Len(others) + 1] = a
              /\ \A k \in DOMAIN others : k \in DOMAIN aged /\ aged[k] = others[k]
              /\ \A k \in DOMAIN aged : k \in DOMAIN others \/ k = Len(others) + 1
            BY <1>1, <3>1, AppendPositions
        <3>3. Len(aged) = Len(others) + 1
            BY <1>1, <3>1, AppendProperties
        <3>4. \A k \in DOMAIN others : others[k] # a
            BY <1>1 DEF ToSet
        <3>5. IsInjective(aged)
            BY <1>1, <3>2, <3>4 DEF IsInjective
        <3> QED  BY <2>2, <3>2, <3>3, <3>5 DEF ToSet
    <2> QED  BY <2>1, <2>2
<1> HIDE DEF aged
<1>4. /\ kept \in Seq(Attempts) /\ IsInjective(kept) /\ ToSet(kept) \subseteq ToSet(aged)
      /\ val # "pending" => a \in ToSet(kept)
    <2>1. CASE Len(aged) > MemoryCap
        <3>1. kept = Tail(aged) /\ Len(aged) \in Nat /\ Len(aged) > 1 /\ aged # <<>>
            BY <1>3, <2>1, AttemptsConstants, Positions
        <3>2. /\ kept \in Seq(Attempts)
              /\ \A k \in DOMAIN kept : k \in Nat /\ k + 1 \in DOMAIN aged /\ kept[k] = aged[k + 1]
              /\ \A k \in DOMAIN aged : k # 1 => k - 1 \in DOMAIN kept /\ kept[k - 1] = aged[k]
            BY <1>3, <3>1, TailPositions
        <3> HIDE DEF kept
        <3>3. IsInjective(kept)
            <4>1. \A i, j \in DOMAIN kept : kept[i] = kept[j] => i + 1 = j + 1
                BY <1>3, <3>2 DEF IsInjective
            <4> QED  BY <3>2, <4>1 DEF IsInjective
        <3>4. ToSet(kept) \subseteq ToSet(aged)
            BY <3>2 DEF ToSet
        <3>5. val # "pending" => a \in ToSet(kept)
            BY <1>3, <3>1, <3>2 DEF ToSet
        <3> QED  BY <3>2, <3>3, <3>4, <3>5
    <2>2. CASE ~(Len(aged) > MemoryCap)
        BY <1>3, <2>2 DEF ToSet
    <2> QED  BY <2>1, <2>2
<1> HIDE DEF kept
<1>5. a \notin gone /\ \A b \in gone : b \in ToSet(order)
    BY <1>1, <1>3, <1>4
<1> HIDE DEF gone
<1>6. outcome'[a] = val
    BY <1>2, <1>5
<1>7. \A b \in Attempts \ {a} : outcome'[b] = IF b \in gone THEN None ELSE outcome[b]
    BY <1>2
<1>8. \A b \in gone : Terminal(outcome[b])
    BY <1>5 DEF Memory
<1>9. \A b \in ToSet(order') : Terminal(outcome'[b])
    <2> SUFFICES ASSUME NEW b \in ToSet(kept)  PROVE Terminal(outcome'[b])
        BY <1>2
    <2>1. b \in Attempts
        BY <1>4, Positions DEF ToSet
    <2>2. CASE b = a
        BY <1>3, <1>4, <1>6, <2>2, Values DEF Terminal
    <2>3. CASE b # a
        <3>1. b \in ToSet(order) /\ b \notin gone
            BY <1>1, <1>3, <1>4, <2>3 DEF gone
        <3> QED  BY <1>7, <2>1, <2>3, <3>1 DEF Memory
    <2> QED  BY <2>2, <2>3
<1>10. outcome' \in [Attempts -> Conclusion \cup {"pending", None}]
    BY <1>2 DEF Memory
<1> QED  BY <1>2, <1>4, <1>6, <1>7, <1>8, <1>9, <1>10 DEF Memory

LEMMA ForgetIs ==
    ASSUME Memory, NEW a \in Attempts, Forget(a), UNCHANGED evidence
    PROVE  /\ Memory' /\ outcome'[a] = None
           /\ \A b \in Attempts \ {a} : outcome'[b] = outcome[b]
<1>1. /\ order' \in Seq(Attempts) /\ IsInjective(order')
      /\ ToSet(order') \subseteq ToSet(order) \ {a}
    BY RemoveOnce DEF Memory, Forget
<1>2. /\ outcome' \in [Attempts -> Conclusion \cup {"pending", None}]
      /\ outcome'[a] = None /\ \A b \in Attempts \ {a} : outcome'[b] = outcome[b]
    BY DEF Memory, Forget
<1>3. \A b \in ToSet(order') : b \in Attempts \ {a} /\ Terminal(outcome[b])
    <2>1. \A b \in ToSet(order) : Terminal(outcome[b])
        BY DEF Memory
    <2>2. \A b \in ToSet(order') : b \in Attempts
        BY <1>1, Positions DEF ToSet
    <2> QED  BY <1>1, <2>1, <2>2
<1> QED  BY <1>1, <1>2, <1>3 DEF Memory

-----------------------------------------------------------------------------
(* The threads at the ledger.                                              *)

\* The caller goes on, and no record changes; only a call that holds the lock
\* or takes it free goes where it is needed.
LEMMA ClerkMoves ==
    ASSUME IInv, Clerks, NEW c \in Calls, NEW stage,
           At(c, stage), UNCHANGED <<admission, sent>>, pruned \subseteq pruned',
           \/ lock' = c
           \/ stage \notin Locking /\ lock \in {None, c} /\ lock' \in {lock, None},
           lock \in {None, c},
           stage = "sent" => c \in sent,
           stage \in {"reserved", "begun", "accepted", "undo"} /\ ~Expired(c) => Owns(c),
           stage = "accepted" /\ ~Expired(c) => admission[Own(c)].accepted
    PROVE  Clerks'
<1>1. /\ call'[c] = stage /\ \A d \in Calls \ {c} : call'[d] = call[d]
    BY DEF At, IInv, Types
<1>2. \A d \in Calls \ {c} : call[d] \notin Locking
    BY Constants DEF Clerks
<1>3. lock' \in Calls \cup {None} /\ \A d \in Calls : call'[d] \in Locking => lock' = d
    BY <1>1, <1>2 DEF Clerks
<1>4. \A d \in Calls : call'[d] = "sent" => d \in sent'
    BY <1>1 DEF Clerks
<1>5. ASSUME NEW d \in Calls, ~Expired(d)'
      PROVE  /\ call'[d] \in {"reserved", "begun", "accepted", "undo"} \/ d \in sent' => Owns(d)'
             /\ call'[d] = "accepted" \/ d \in sent' => admission'[Own(d)].accepted
    <2>1. ~Expired(d)
        BY <1>5 DEF Expired
    <2> QED  BY <1>1, <2>1 DEF Clerks, Owns
<1> QED  BY <1>3, <1>4, <1>5 DEF Clerks, Own

LEMMA ReserveClerks ==
    ASSUME IInv, Clerks, NEW c \in Calls, Reserve(c)
    PROVE  Clerks'
<1> DEFINE a == AttemptOf[c]
<1>1. a \in Attempts /\ call[c] = "new" /\ lock = None /\ UNCHANGED <<sent, pruned>>
    BY Constants DEF Reserve, history
<1>2. c \notin sent /\ \A d \in Calls : call[d] \notin Locking
    BY <1>1, Constants DEF IInv, Through, Clerks
<1>3. PICK i \in Identities[c] :
          LET made == [admission EXCEPT ![a] = Reservation(c, i)] IN
          \/ /\ admission[a] = None /\ admission' = made
             /\ lock' = c /\ At(c, "reserved")
          \/ /\ admission[a] = None
             /\ admission' \in {admission, made}
             /\ At(c, "refused") /\ lock' = lock
          \/ /\ admission' = admission
             /\ \/ lock' = lock /\ \E stage \in {"refused", "abandoned"} : At(c, stage)
                \/ lock' = c /\ At(c, "found")
    BY DEF Reserve
<1> DEFINE Finds == /\ admission' = admission
                    /\ \/ lock' = lock /\ \E stage \in {"refused", "abandoned"} : At(c, stage)
                       \/ lock' = c /\ At(c, "found")
           Makes == /\ admission[a] = None
                    /\ admission' \in {admission, [admission EXCEPT ![a] = Reservation(c, i)]}
                    /\ \/ /\ lock' = c /\ At(c, "reserved")
                          /\ admission' = [admission EXCEPT ![a] = Reservation(c, i)]
                       \/ lock' = lock /\ At(c, "refused")
<1>4. CASE Finds
    BY <1>1, <1>2, <1>4, ClerkMoves DEF Locking
<1>5. CASE Makes
    <2>1. Makes
        BY <1>5
    <2>2. \A d \in Calls \ {c} : call'[d] = call[d] /\ call[d] \notin Locking
        BY <1>2, <2>1 DEF At, IInv, Types
    <2>3. call'[c] \in {"reserved", "refused"} /\ (call'[c] = "reserved" => lock' = c /\ Owns(c)')
        <3>1. Reservation(c, i).owner = c
            BY DEF Reservation
        <3>2. Reservation(c, i) # None
            <4>1. i \in UNION {Identities[d] : d \in Calls}
                OBVIOUS
            <4>2. Reservation(c, i) \in Admission
                BY <4>1, Zenon DEF Reservation, Admission
            <4> QED  BY <4>2, Constants
        <3> QED  BY <1>1, <2>1, <3>1, <3>2 DEF At, IInv, Types, Owns
    <2>4. ASSUME NEW d \in sent, ~Expired(d)
          PROVE  Owns(d)' /\ admission'[Own(d)].accepted
        <3>1. d \in Calls /\ Owns(d) /\ admission[Own(d)].accepted
            BY <2>4 DEF IInv, Types, Clerks
        <3>2. AttemptOf[d] # a /\ AttemptOf[d] \in Attempts
            BY <2>1, <3>1, Constants DEF Owns
        <3>3. admission'[AttemptOf[d]] = admission[AttemptOf[d]]
            BY <1>1, <2>1, <3>2 DEF IInv, Types
        <3> QED  BY <3>1, <3>3 DEF Owns, Own
    <2>5. \A d \in Calls : call'[d] \in {"reserved", "begun", "accepted", "undo"} => d = c
        BY <2>2 DEF Locking
    <2>6. \A d \in Calls : call'[d] # "sent" /\ call'[d] # "accepted"
        BY <2>2, <2>3 DEF Locking
    <2>7. lock' \in Calls \cup {None} /\ \A d \in Calls : call'[d] \in Locking => lock' = d
        BY <1>1, <2>1, <2>2, <2>3 DEF Locking
    <2>8. \A d \in Calls : ~Expired(d)' =>
              /\ call'[d] \in {"reserved", "begun", "accepted", "undo"} \/ d \in sent' => Owns(d)'
              /\ call'[d] = "accepted" \/ d \in sent' => admission'[Own(d)].accepted
        BY <1>1, <2>3, <2>4, <2>5, <2>6 DEF Expired
    <2> QED  BY <2>6, <2>7, <2>8 DEF Clerks, Own
<1> QED  BY <1>3, <1>4, <1>5

\* Whoever changes its own record holds the lock, and no unexpired attempt has
\* another owner.
LEMMA RecordMoves ==
    ASSUME IInv, Clerks, NEW c \in Calls, NEW r, NEW stage,
           admission' = [admission EXCEPT ![Own(c)] = r], At(c, stage),
           Owns(c), lock = c, c \notin sent, UNCHANGED <<sent, pruned>>,
           \/ stage \in {"accepted", "undo"} /\ lock' = c /\ r # None /\ r.owner = c
           \/ stage = "refused" /\ lock' = None,
           stage = "accepted" => r.accepted
    PROVE  Clerks'
<1>1. call'[c] = stage /\ \A d \in Calls \ {c} : call'[d] = call[d] /\ call[d] \notin Locking
    BY DEF At, IInv, Types, Clerks
<1>2. /\ Own(c) \in Attempts /\ admission'[Own(c)] = r
      /\ \A b \in Attempts \ {Own(c)} : admission'[b] = admission[b]
    BY Constants DEF IInv, Types, Own
<1>3. lock' \in Calls \cup {None} /\ \A d \in Calls : call'[d] \in Locking => lock' = d
    BY <1>1 DEF Locking
<1>4. \A d \in Calls : call'[d] # "sent"
    BY <1>1 DEF Locking
<1>5. ASSUME NEW d \in Calls, ~Expired(d)'
      PROVE  /\ call'[d] \in {"reserved", "begun", "accepted", "undo"} \/ d \in sent' => Owns(d)'
             /\ call'[d] = "accepted" \/ d \in sent' => admission'[Own(d)].accepted
    <2>1. ~Expired(d)
        BY <1>5 DEF Expired
    <2>2. CASE d = c
        BY <1>1, <1>2, <2>2 DEF Owns, Own
    <2>3. CASE d # c
        <3>1. call'[d] \notin {"reserved", "begun", "accepted", "undo"}
            BY <1>1, <2>3 DEF Locking
        <3>2. ASSUME d \in sent  PROVE Owns(d)' /\ admission'[Own(d)].accepted
            <4>1. Owns(d) /\ admission[Own(d)].accepted
                BY <2>1, <3>2 DEF Clerks
            <4>2. Own(d) # Own(c) /\ Own(d) \in Attempts
                BY <2>3, <4>1, Constants DEF Owns, Own
            <4> QED  BY <1>2, <4>1, <4>2 DEF Owns, Own
        <3> QED  BY <3>1, <3>2
    <2> QED  BY <2>2, <2>3
<1> QED  BY <1>3, <1>4, <1>5 DEF Clerks, Own

LEMMA AcceptClerks ==
    ASSUME IInv, Clerks, NEW c \in Calls, Accept(c)
    PROVE  Clerks'
<1> DEFINE r == [admission[Own(c)] EXCEPT !.accepted = TRUE]
<1>1. /\ call[c] = "begun" /\ lock = c /\ lock' = c /\ c \notin sent
      /\ UNCHANGED <<sent, pruned>>
    BY DEF Accept, history, Clerks, Locking, IInv, Through
<1>2. /\ ~Expired(c) => Owns(c)
      /\ \/ Owns(c) /\ admission' = [admission EXCEPT ![Own(c)] = r] /\ At(c, "accepted")
         \/ Owns(c) /\ admission' = [admission EXCEPT ![Own(c)] = r] /\ At(c, "undo")
         \/ admission' = admission /\ At(c, "undo")
    BY <1>1 DEF Accept, Clerks, Own
<1>3. CASE admission' = admission /\ At(c, "undo")
    BY <1>1, <1>2, <1>3, ClerkMoves
<1>4. CASE Owns(c) /\ admission' = [admission EXCEPT ![Own(c)] = r] /\ (At(c, "accepted") \/ At(c, "undo"))
    <2>1. admission[Own(c)] \in Admission /\ admission[Own(c)].owner = c
        BY <1>4, Constants DEF Owns, Own, IInv, Types
    <2>2. r \in Admission /\ r.owner = c /\ r.accepted
        BY <2>1 DEF Admission
    <2> HIDE DEF r
    <2>3. r # None
        BY <2>2, Constants
    <2> QED  BY <1>1, <1>4, <2>2, <2>3, RecordMoves
<1> QED  BY <1>2, <1>3, <1>4

LEMMA DispatchClerks ==
    ASSUME IInv, Clerks, NEW c \in Calls, call[c] = "accepted", At(c, "sent"),
           sent' = sent \cup {c}, UNCHANGED <<admission, lock, pruned>>
    PROVE  Clerks'
<1>1. call'[c] = "sent" /\ \A d \in Calls \ {c} : call'[d] = call[d]
    BY DEF At, IInv, Types
<1>2. lock = c
    BY DEF Clerks, Locking
<1>3. \A d \in Calls : /\ call'[d] \in Locking => lock' = d
                       /\ call'[d] = "sent" => d \in sent'
    BY <1>1, <1>2 DEF Clerks
<1>4. ASSUME NEW d \in Calls, ~Expired(d)'
      PROVE  /\ call'[d] \in {"reserved", "begun", "accepted", "undo"} \/ d \in sent' => Owns(d)'
             /\ call'[d] = "accepted" \/ d \in sent' => admission'[Own(d)].accepted
    <2>1. ~Expired(d)
        BY <1>4 DEF Expired
    <2>2. CASE d = c
        BY <2>1, <2>2 DEF Clerks, Owns
    <2>3. CASE d # c
        BY <1>1, <2>1, <2>3 DEF Clerks, Owns
    <2> QED  BY <2>2, <2>3
<1> QED  BY <1>3, <1>4 DEF Clerks, Own

LEMMA HttpClerks ==
    ASSUME IInv, Clerks, NEW c \in Calls, Http(c)
    PROVE  Clerks'
<1>0. /\ call[c] \in Locking => lock = c
      /\ call[c] \in {"reserved", "begun", "accepted", "undo"} /\ ~Expired(c) => Owns(c)
      /\ call[c] = "accepted" /\ ~Expired(c) => admission[Own(c)].accepted
      /\ c \in sent => call[c] \in {"sent", "acked", "cut"}
    BY DEF Clerks, IInv, Through
<1>1. CASE Reserve(c)
    BY <1>1, ReserveClerks
<1>2. CASE ReadEvidence(c)
    <2>1. /\ lock = c /\ UNCHANGED <<admission, sent, pruned>>
          /\ \/ At(c, "acked") /\ lock' = None
             \/ At(c, "missing") /\ lock' = lock
        BY <1>0, <1>2 DEF ReadEvidence, Return, disk, Locking
    <2> QED  BY <2>1, ClerkMoves DEF Locking
<1>3. CASE ReadMemory(c)
    <2>1. /\ lock = c /\ UNCHANGED <<admission, sent, pruned>> /\ lock' = None
          /\ \E stage \in {"acked", "abandoned"} : At(c, stage)
        BY <1>0, <1>3 DEF ReadMemory, Return, disk, Locking
    <2> QED  BY <2>1, ClerkMoves DEF Locking
<1>4. CASE Refuse(c)
    <2>1. /\ lock = c /\ UNCHANGED <<admission, sent, pruned, lock>> /\ At(c, "undo")
          /\ ~Expired(c) => Owns(c)
        BY <1>0, <1>4 DEF Refuse, disk, history, Locking
    <2> QED  BY <2>1, ClerkMoves DEF Locking
<1>5. CASE Begin(c)
    <2>1. /\ lock = c /\ UNCHANGED <<admission, sent, pruned, lock>> /\ At(c, "begun")
          /\ ~Expired(c) => Owns(c)
        BY <1>0, <1>5 DEF Begin, disk, history, Locking
    <2> QED  BY <2>1, ClerkMoves DEF Locking
<1>6. CASE Accept(c)
    BY <1>6, AcceptClerks
<1>7. CASE SendGate(c) \/ Enqueue(c)
    <2>1. /\ call[c] = "accepted" /\ lock = c /\ UNCHANGED <<admission, pruned, lock>>
          /\ ~Expired(c) => Owns(c)
          /\ \/ sent' = sent \cup {c} /\ At(c, "sent")
             \/ sent' = sent /\ At(c, "undo")
        BY <1>0, <1>7 DEF SendGate, Enqueue, disk, Locking
    <2> QED  BY <2>1, ClerkMoves, DispatchClerks DEF Locking
<1>8. CASE Ack(c)
    <2>1. /\ lock = c /\ UNCHANGED <<admission, sent, pruned>> /\ lock' = None /\ At(c, "acked")
        BY <1>0, <1>8 DEF Ack, Return, disk, Locking
    <2> QED  BY <2>1, ClerkMoves DEF Locking
<1>9. CASE Rollback(c)
    <2>1. /\ call[c] = "undo" /\ lock = c /\ c \notin sent /\ UNCHANGED <<sent, pruned>>
          /\ lock' = None /\ At(c, "refused")
          /\ \/ admission' = admission
             \/ Owns(c) /\ admission' = [admission EXCEPT ![Own(c)] = None]
        <3>1. [admission EXCEPT ![Own(c)] = admission[Own(c)]] = admission
            BY DEF IInv, Types
        <3> QED  BY <1>0, <1>9, <3>1 DEF Rollback, Return, history, Locking, Own
    <2>2. CASE admission' = admission
        BY <2>1, <2>2, ClerkMoves DEF Locking
    <2>3. CASE Owns(c) /\ admission' = [admission EXCEPT ![Own(c)] = None]
        BY <2>1, <2>3, RecordMoves
    <2> QED  BY <2>1, <2>2, <2>3
<1> QED  BY <1>1, <1>2, <1>3, <1>4, <1>5, <1>6, <1>7, <1>8, <1>9 DEF Http

\* Executions leave the ledger alone, but for the records of what expired.
LEMMA JobClerks ==
    ASSUME IInv, Clerks, UNCHANGED <<call, lock, sent>>, pruned \subseteq pruned',
           \A b \in Attempts \ pruned : admission'[b] = admission[b]
    PROVE  Clerks'
<1>1. ASSUME NEW d \in Calls, ~Expired(d)'
      PROVE  /\ call'[d] \in {"reserved", "begun", "accepted", "undo"} \/ d \in sent' => Owns(d)'
             /\ call'[d] = "accepted" \/ d \in sent' => admission'[Own(d)].accepted
    <2>1. ~Expired(d) /\ admission'[AttemptOf[d]] = admission[AttemptOf[d]]
        BY <1>1, Constants DEF Expired
    <2> QED  BY <2>1 DEF Clerks, Owns, Own
<1> QED  BY <1>1 DEF Clerks, Own

LEMMA ClerksStep ==
    ASSUME IInv, Clerks, [Next]_vars
    PROVE  Clerks'
<1>1. ASSUME NEW c \in Calls, Http(c) PROVE Clerks'
    BY <1>1, HttpClerks
<1>2. ASSUME NEW c \in Calls, Job(c) PROVE Clerks'
    <2>1. CASE Unlink(c)
        <3>1. /\ job[c].bundle \in pruned /\ UNCHANGED <<call, lock, sent, pruned>>
              /\ admission' \in {admission, [admission EXCEPT ![job[c].bundle] = None]}
            BY <2>1 DEF Unlink, history, IInv, UnlinksExpired
        <3>2. \A b \in Attempts \ pruned : admission'[b] = admission[b]
            BY <3>1 DEF IInv, Types
        <3> QED  BY <3>1, <3>2, JobClerks
    <2>2. CASE Prune(c)
        BY <2>2, JobClerks DEF Prune
    <2>3. CASE Emit(c) \/ Escalate(c) \/ Witness(c) \/ Finish(c) \/ Supersede(c)
               \/ Persist(c) \/ PruneEnds(c) \/ Conclude(c)
        <3>1. UNCHANGED <<call, lock, sent, pruned, admission>>
            BY <2>3 DEF Emit, Escalate, Witness, Finish, Supersede, Persist, PruneEnds,
               Conclude, disk, history
        <3> QED  BY <3>1, JobClerks
    <2> QED  BY <1>2, <2>1, <2>2, <2>3 DEF Job
<1>3. CASE \/ LegacyPush \/ Take \/ DispatchGate \/ UNCHANGED vars
           \/ \E k \in Keys : LegacyGate(k) \/ LegacyEnds(k)
    <2>1. UNCHANGED <<call, lock, sent, pruned, admission>>
        BY <1>3 DEF LegacyPush, Take, DispatchGate, LegacyGate, LegacyEnds, vars, disk, history
    <2> QED  BY <2>1, JobClerks
<1>4. CASE Restart
    <2>1. /\ lock' = None /\ UNCHANGED <<admission, sent, pruned>>
          /\ \A c \in Calls : call'[c] \notin Locking
        BY <1>4 DEF Restart, disk, Locking
    <2>2. \A d \in Calls : call'[d] \notin {"reserved", "begun", "accepted", "undo", "sent"}
        BY <2>1 DEF Locking
    <2>3. \A d \in Calls : ~Expired(d)' =>
              (d \in sent' => Owns(d)' /\ admission'[Own(d)].accepted)
        BY <2>1 DEF Clerks, Expired, Owns, Own
    <2> QED  BY <2>1, <2>2, <2>3 DEF Clerks, Own
<1> QED  BY <1>1, <1>2, <1>3, <1>4 DEF Next

-----------------------------------------------------------------------------
(* The executions.                                                         *)

\* An execution that is out of the queues goes on.
LEMMA JobMoves ==
    ASSUME IInv, Executions, NEW c \in Calls, NEW j,
           job' = [job EXCEPT ![c] = j], job[c].at \notin {"none", "queued"}, Shape(c, j),
           UNCHANGED <<queue, gateQ, sent>>,
           claims' \in [Keys -> Calls \cup {Legacy, None}],
           \A k \in Keys : claims'[k] \in Calls =>
               IF claims'[k] = c THEN KeyOf[Own(c)] = k /\ Claiming(c, j)
                                 ELSE claims'[k] = claims[k]
    PROVE  Executions'
<1>1. job'[c] = j /\ \A d \in Calls \ {c} : job'[d] = job[d]
    BY DEF IInv, Types
<1>2. c \in sent
    BY DEF Executions, NoJob
<1>3. \A d \in Calls : Shape(d, job'[d]) /\ (d \notin sent' => job'[d] = NoJob)
    BY <1>1, <1>2 DEF Executions
<1>4. \A k \in Keys : claims'[k] \in Calls =>
          KeyOf[Own(claims'[k])] = k /\ Claiming(claims'[k], job'[claims'[k]])
    BY <1>1 DEF Executions
<1>5. \A i \in DOMAIN queue : queue[i] # Legacy => queue[i] \in Calls \ {c}
    BY Positions DEF Executions
<1>6. \A i \in DOMAIN gateQ : gateQ[i] \in Calls \ {c}
    BY Positions DEF Executions
<1> QED  BY <1>1, <1>3, <1>4, <1>5, <1>6 DEF Executions

\* The same for one that takes part in no claim, or keeps its own.
LEMMA JobGoesOn ==
    ASSUME IInv, Executions, NEW c \in Calls, NEW j,
           job' = [job EXCEPT ![c] = j], job[c].at \notin {"none", "queued"}, Shape(c, j),
           UNCHANGED <<queue, gateQ, sent, claims>>,
           Claiming(c, job[c]) => Claiming(c, j)
    PROVE  Executions'
<1>1. /\ claims' \in [Keys -> Calls \cup {Legacy, None}]
      /\ \A k \in Keys : claims'[k] = c => KeyOf[Own(c)] = k /\ Claiming(c, j)
    BY DEF Executions
<1> QED  BY <1>1, JobMoves

\* The newest claimant takes over.
LEMMA ClaimIs ==
    ASSUME IInv, Executions, NEW c \in Calls, Claim(c)
    PROVE  \E j : /\ job' = [job EXCEPT ![c] = j] /\ Shape(c, j) /\ Claiming(c, j)
                  /\ claims' = [claims EXCEPT ![KeyOf[Own(c)]] = c]
                  /\ \/ j = [NoJob EXCEPT !.at = "witness"]
                        /\ \/ claims[KeyOf[Own(c)]] \notin Calls
                           \/ Own(claims[KeyOf[Own(c)]]) = Own(c)
                     \/ /\ claims[KeyOf[Own(c)]] \in Calls
                        /\ Own(claims[KeyOf[Own(c)]]) # Own(c)
                        /\ j = [NoJob EXCEPT !.at = "superseding",
                                             !.target = Own(claims[KeyOf[Own(c)]])]
<1> DEFINE prev == claims[KeyOf[Own(c)]]
<1>1. CASE prev \in Calls /\ Own(prev) # Own(c)
    <2> DEFINE j == [NoJob EXCEPT !.at = "superseding", !.target = Own(prev)]
    <2>1. job' = [job EXCEPT ![c] = j] /\ claims' = [claims EXCEPT ![KeyOf[Own(c)]] = c]
        BY <1>1 DEF Claim, Own
    <2>2. j.at = "superseding" /\ j.target = Own(prev) /\ Own(prev) \in Attempts
        BY <1>1, Values DEF NoJob
    <2> HIDE DEF j
    <2>3. Shape(c, j) /\ Claiming(c, j)
        BY <1>1, <2>2 DEF Shape, Claiming, Concluding, Told
    <2> QED  BY <1>1, <2>1, <2>3 DEF j
<1>2. CASE ~(prev \in Calls /\ Own(prev) # Own(c))
    <2> DEFINE j == [NoJob EXCEPT !.at = "witness"]
    <2>1. job' = [job EXCEPT ![c] = j] /\ claims' = [claims EXCEPT ![KeyOf[Own(c)]] = c]
        BY <1>2 DEF Claim, Own
    <2>2. j.at = "witness" /\ j.target = None
        BY DEF NoJob
    <2> HIDE DEF j
    <2>3. Shape(c, j) /\ Claiming(c, j)
        BY <2>2 DEF Shape, Claiming, Concluding, Told
    <2> QED  BY <1>2, <2>1, <2>3 DEF j
<1> QED  BY <1>1, <1>2

LEMMA EscalateExecutions ==
    ASSUME IInv, Executions, NEW c \in Calls, Escalate(c)
    PROVE  Executions'
<1>1. /\ job[c].at = "analysed" /\ Claim(c) /\ UNCHANGED <<queue, gateQ, sent>>
    BY DEF Escalate, history
<1>2. PICK j : /\ job' = [job EXCEPT ![c] = j] /\ Shape(c, j) /\ Claiming(c, j)
               /\ claims' = [claims EXCEPT ![KeyOf[Own(c)]] = c]
    BY <1>1, ClaimIs
<1>3. /\ claims' \in [Keys -> Calls \cup {Legacy, None}]
      /\ \A k \in Keys : claims'[k] = IF k = KeyOf[Own(c)] THEN c ELSE claims[k]
    BY <1>2 DEF Executions
<1>4. ~Claiming(c, job[c])
    BY <1>1 DEF Claiming, Concluding, Told
<1>5. \A k \in Keys : claims[k] # c
    BY <1>4 DEF Executions
<1> QED  BY <1>1, <1>2, <1>3, <1>5, JobMoves

LEMMA WitnessExecutions ==
    ASSUME IInv, Executions, NEW c \in Calls, Witness(c)
    PROVE  Executions'
<1> DEFINE k == KeyOf[Own(c)]
<1>1. /\ job[c].at = "witness" /\ UNCHANGED <<queue, gateQ, sent>>
      /\ job[c] \in Execution /\ job[c].target = None
    BY DEF Witness, history, IInv, Types, Executions, Shape
<1>2. CASE claims[k] = c
    <2>1. PICK v \in Verdicts : job' = [job EXCEPT ![c].at = "published", ![c].val = v]
        BY <1>2 DEF Witness, Own
    <2> DEFINE j == [[job[c] EXCEPT !.at = "published"] EXCEPT !.val = v]
    <2>2. job' = [job EXCEPT ![c] = j]
        BY <2>1 DEF IInv, Types
    <2>3. Shape(c, j)
        BY <1>1, Values DEF Shape, Execution, Concluding, Told
    <2>4. claims' = [claims EXCEPT ![k] = None]
        BY <1>2 DEF Witness, Own
    <2>5. \A l \in Keys : claims[l] = c => l = k
        BY DEF Executions
    <2>6. /\ claims' \in [Keys -> Calls \cup {Legacy, None}]
          /\ \A l \in Keys : claims'[l] \in Calls => claims'[l] = claims[l] /\ claims'[l] # c
        BY <2>4, <2>5, Constants DEF Executions
    <2> QED  BY <1>1, <2>2, <2>3, <2>6, JobMoves
<1>3. CASE claims[k] # c
    <2> DEFINE j == [job[c] EXCEPT !.at = "ended"]
    <2>1. job' = [job EXCEPT ![c] = j] /\ claims' = claims
        BY <1>3 DEF Witness, Own, Step, IInv, Types
    <2>2. Shape(c, j)
        BY <1>1 DEF Shape, Execution, Concluding, Told
    <2>3. \A l \in Keys : claims[l] # c
        BY <1>3 DEF Executions
    <2>4. claims' \in [Keys -> Calls \cup {Legacy, None}]
        BY <2>1 DEF Executions
    <2> QED  BY <1>1, <2>1, <2>2, <2>3, <2>4, JobMoves
<1> QED  BY <1>2, <1>3

LEMMA JobExecutions ==
    ASSUME IInv, Executions, NEW c \in Calls, Job(c)
    PROVE  Executions'
<1>0. /\ job[c] \in Execution /\ Shape(c, job[c]) /\ Own(c) \in Attempts
      /\ Conclusion \subseteq {"passed", "failed", "unknown", "superseded", "rejected"}
      /\ None \notin Conclusion
    BY Values DEF IInv, Types, Executions, Conclusion, Verdicts
<1>1. CASE Emit(c)
    <2>1. /\ job[c].at = "analysed" /\ UNCHANGED <<queue, gateQ, sent, claims>>
          /\ \E v \in Verdicts : job' = [job EXCEPT ![c].at = "published", ![c].val = v]
        BY <1>1 DEF Emit, history
    <2>2. PICK v \in Verdicts : job' = [job EXCEPT ![c].at = "published", ![c].val = v]
        BY <2>1
    <2> DEFINE j == [[job[c] EXCEPT !.at = "published"] EXCEPT !.val = v]
    <2>3. job' = [job EXCEPT ![c] = j]
        BY <2>2 DEF IInv, Types
    <2>4. Shape(c, j) /\ ~Claiming(c, job[c])
        BY <1>0, <2>1, Values DEF Shape, Execution, Claiming, Concluding, Told
    <2> QED  BY <2>1, <2>3, <2>4, JobGoesOn
<1>2. CASE Escalate(c)
    BY <1>2, EscalateExecutions
<1>3. CASE Witness(c)
    BY <1>3, WitnessExecutions
<1>4. CASE Finish(c)
    <2>1. /\ job[c].at = "published" /\ UNCHANGED <<queue, gateQ, sent, claims>>
          /\ \E stage \in {"ended", "concluded"} :
                job' = [job EXCEPT ![c].at = stage, ![c].target = Own(c)]
        BY <1>4 DEF Finish, history, Own
    <2>2. PICK stage \in {"ended", "concluded"} :
                job' = [job EXCEPT ![c].at = stage, ![c].target = Own(c)]
        BY <2>1
    <2> DEFINE j == [[job[c] EXCEPT !.at = stage] EXCEPT !.target = Own(c)]
    <2>3. job' = [job EXCEPT ![c] = j]
        BY <2>2 DEF IInv, Types
    <2>4. Shape(c, j) /\ ~Claiming(c, job[c])
        BY <1>0, <2>1 DEF Shape, Execution, Claiming, Concluding, Told
    <2> QED  BY <2>1, <2>3, <2>4, JobGoesOn
<1>5. CASE Supersede(c)
    <2>1. /\ job[c].at = "superseding" /\ UNCHANGED <<queue, gateQ, sent, claims>>
          /\ job[c].target \in Attempts \ {Own(c)}
        BY <1>0, <1>5 DEF Supersede, history, Shape
    <2>2. PICK j : /\ job' = [job EXCEPT ![c] = j]
                   /\ \/ j = [[job[c] EXCEPT !.at = "concluded"] EXCEPT !.val = "superseded"]
                      \/ j = [NoJob EXCEPT !.at = "witness"]
        BY <1>5 DEF Supersede, IInv, Types
    <2>3. Shape(c, j) /\ Claiming(c, j)
        BY <1>0, <2>1, <2>2, Values
           DEF Shape, Execution, Claiming, Concluding, Told, NoJob, Conclusion
    <2> QED  BY <2>1, <2>2, <2>3, JobGoesOn
\* The target stays; at the concluding stages nothing else is asked.
<1>6. ASSUME NEW j \in Execution, job' = [job EXCEPT ![c] = j],
             job[c].at \in Concluding, j.at \in Concluding,
             j.target = job[c].target, j.val # None,
             UNCHANGED <<queue, gateQ, sent, claims>>
      PROVE  Executions'
    <2>1. Shape(c, j) /\ (Claiming(c, job[c]) => Claiming(c, j))
        BY <1>0, <1>6 DEF Shape, Claiming, Concluding, Told
    <2> QED  BY <1>6, <2>1, JobGoesOn DEF Concluding, Told
<1>7. job[c].at \in Concluding => job[c].val # None
    BY <1>0 DEF Shape
<1>8. ASSUME NEW stage \in Concluding, Step(c, stage), job[c].at \in Concluding,
             UNCHANGED <<queue, gateQ, sent, claims>>
      PROVE  Executions'
    <2> DEFINE j == [job[c] EXCEPT !.at = stage]
    <2>1. job' = [job EXCEPT ![c] = j]
        BY <1>8 DEF Step, IInv, Types
    <2>2. j \in Execution /\ j.at \in Concluding /\ j.target = job[c].target /\ j.val = job[c].val
        BY <1>0, <1>8 DEF Execution, JobStage, Concluding, Told
    <2> QED  BY <1>6, <1>7, <1>8, <2>1, <2>2
<1>9. CASE Persist(c)
    <2>1. job[c].at = "concluded" /\ UNCHANGED <<queue, gateQ, sent, claims>>
        BY <1>9 DEF Persist
    <2>2. CASE Step(c, "pruning")
        BY <1>8, <2>1, <2>2 DEF Concluding, Told
    <2>3. CASE job' = [job EXCEPT ![c].at = "remembering", ![c].val = Degraded(@)]
        <3> DEFINE j == [[job[c] EXCEPT !.at = "remembering"] EXCEPT !.val = Degraded(@)]
        <3>1. job' = [job EXCEPT ![c] = j]
            BY <2>3 DEF IInv, Types
        <3>2. /\ j \in Execution /\ j.at = "remembering" /\ j.target = job[c].target
              /\ j.val # None
            BY <1>0, Values DEF Execution, JobStage, Degraded, Conclusion, Verdicts
        <3> HIDE DEF j
        <3> QED  BY <1>6, <2>1, <3>1, <3>2 DEF Concluding, Told
    <2> QED  BY <1>9, <2>2, <2>3 DEF Persist
<1>10. CASE Prune(c)
    <2>1. job[c].at = "pruning" /\ UNCHANGED <<queue, gateQ, sent, claims>>
        BY <1>10 DEF Prune
    <2>2. PICK a \in Attempts : job' = [job EXCEPT ![c].at = "unlinking", ![c].bundle = a]
        BY <1>10 DEF Prune
    <2> DEFINE j == [[job[c] EXCEPT !.at = "unlinking"] EXCEPT !.bundle = a]
    <2>3. job' = [job EXCEPT ![c] = j]
        BY <2>2 DEF IInv, Types
    <2>4. /\ j \in Execution /\ j.at = "unlinking" /\ j.target = job[c].target
          /\ j.val = job[c].val
        BY <1>0 DEF Execution, JobStage
    <2> HIDE DEF j
    <2> QED  BY <1>6, <1>7, <2>1, <2>3, <2>4 DEF Concluding, Told
<1>11. CASE Unlink(c)
    <2>1. /\ job[c].at = "unlinking" /\ UNCHANGED <<queue, gateQ, sent, claims>>
          /\ Step(c, "pruning") \/ Step(c, "remembering")
        BY <1>11 DEF Unlink, history
    <2> QED  BY <1>8, <2>1 DEF Concluding, Told
<1>12. CASE PruneEnds(c)
    <2>1. /\ job[c].at = "pruning" /\ UNCHANGED <<queue, gateQ, sent, claims>>
          /\ Step(c, "remembering")
        BY <1>12 DEF PruneEnds, history
    <2> QED  BY <1>8, <2>1 DEF Concluding, Told
<1>13. CASE Conclude(c)
    <2> DEFINE j == [NoJob EXCEPT !.at = IF job[c].target = Own(c) THEN "ended" ELSE "witness"]
    <2>1. /\ job[c].at = "remembering" /\ UNCHANGED <<queue, gateQ, sent, claims>>
          /\ job' = [job EXCEPT ![c] = j]
        BY <1>13 DEF Conclude, history, Own
    <2>2. Shape(c, j) /\ (Claiming(c, job[c]) => Claiming(c, j))
        BY <2>1 DEF Shape, Claiming, Concluding, Told, NoJob
    <2> HIDE DEF j
    <2> QED  BY <2>1, <2>2, JobGoesOn
<1> QED  BY <1>1, <1>2, <1>3, <1>4, <1>5, <1>9, <1>10, <1>11, <1>12, <1>13 DEF Job

\* The overlay taken is the oldest one that waits.
LEMMA TakeExecutions ==
    ASSUME IInv, Executions, Take
    PROVE  Executions'
<1>1. /\ queue # <<>> /\ queue' = Tail(queue) /\ UNCHANGED <<gateQ, claims, sent>>
      /\ queue \in Seq(Calls \cup {Legacy})
    BY DEF Take, history, Executions
<1>2. /\ queue' \in Seq(Calls \cup {Legacy}) /\ Head(queue) = queue[1] /\ 1 \in DOMAIN queue
      /\ queue[1] \in Calls \cup {Legacy}
      /\ \A i \in DOMAIN queue' : i \in Nat /\ i + 1 \in DOMAIN queue /\ queue'[i] = queue[i + 1]
    BY <1>1, TailPositions
<1>3. \A i \in DOMAIN queue' : i + 1 # 1
    BY <1>2, Positions, <1>1, TailPositions
<1>4. /\ \A i \in DOMAIN queue' : queue'[i] # Legacy =>
             /\ job[queue'[i]].at = "queued" /\ Own(queue'[i]) \notin Gates
             /\ Head(queue) # Legacy => queue'[i] # Head(queue)
      /\ \A i, j \in DOMAIN queue' : queue'[i] # Legacy /\ queue'[j] # Legacy =>
             (Own(queue'[i]) = Own(queue'[j]) => i = j)
    <2>1. \A i, j \in DOMAIN queue' : i + 1 = j + 1 => i = j
        BY <1>2
    <2> QED  BY <1>2, <1>3, <2>1 DEF Executions
<1>5. CASE Head(queue) = Legacy
    <2>1. job' = job
        BY <1>5 DEF Take
    <2> QED  BY <1>1, <1>2, <1>4, <2>1 DEF Executions
<1>6. CASE Head(queue) # Legacy
    <2> DEFINE h == Head(queue)
    <2>1. h \in Calls /\ job[h].at = "queued" /\ Own(h) \notin Gates
        BY <1>2, <1>6 DEF Executions
    <2> HIDE DEF h
    <2>2. job' = [job EXCEPT ![h] = [job[h] EXCEPT !.at = "analysed"]]
        BY <1>6, <2>1 DEF Take, Step, IInv, Types, h
    <2>3. /\ job'[h] = [job[h] EXCEPT !.at = "analysed"] /\ job'[h].at = "analysed"
          /\ job'[h].target = job[h].target
          /\ \A d \in Calls \ {h} : job'[d] = job[d]
        BY <2>1, <2>2 DEF IInv, Types, Execution
    <2>4. h \in sent /\ ~Claiming(h, job[h])
        BY <2>1 DEF Executions, NoJob, Claiming, Concluding, Told
    <2>5. Shape(h, job'[h])
        BY <2>1, <2>3 DEF Shape, Executions, Concluding, Told
    <2>6. \A d \in Calls : Shape(d, job'[d]) /\ (d \notin sent' => job'[d] = NoJob)
        BY <1>1, <2>3, <2>4, <2>5 DEF Executions
    <2>7. \A k \in Keys : claims'[k] \in Calls =>
             KeyOf[Own(claims'[k])] = k /\ Claiming(claims'[k], job'[claims'[k]])
        BY <1>1, <2>3, <2>4 DEF Executions
    <2>8. \A i \in DOMAIN queue' : queue'[i] # Legacy => queue'[i] \in Calls \ {h}
        BY <1>2, <1>4, <1>6, Positions DEF h
    <2>9. \A i \in DOMAIN gateQ : gateQ[i] \in Calls \ {h}
        BY <2>1, Positions DEF Executions
    <2>10. /\ \A i \in DOMAIN queue' : queue'[i] # Legacy =>
                 job'[queue'[i]].at = "queued" /\ Own(queue'[i]) \notin Gates
           /\ \A i \in DOMAIN gateQ' : job'[gateQ'[i]].at = "queued" /\ Own(gateQ'[i]) \in Gates
           /\ \A i, j \in DOMAIN gateQ' : gateQ'[i] = gateQ'[j] => i = j
        BY <1>1, <1>4, <2>3, <2>8, <2>9 DEF Executions
    <2>11. gateQ' \in Seq(Calls) /\ claims' \in [Keys -> Calls \cup {Legacy, None}]
        BY <1>1 DEF Executions
    <2> QED  BY <1>2, <1>4, <2>6, <2>7, <2>10, <2>11 DEF Executions
<1> QED  BY <1>5, <1>6

LEMMA DispatchGateExecutions ==
    ASSUME IInv, Executions, DispatchGate
    PROVE  Executions'
<1> DEFINE h == Head(gateQ)
<1>1. /\ gateQ # <<>> /\ gateQ' = Tail(gateQ) /\ UNCHANGED <<queue, sent>> /\ Claim(h)
      /\ gateQ \in Seq(Calls)
    BY DEF DispatchGate, history, Executions
<1>2. /\ gateQ' \in Seq(Calls) /\ h = gateQ[1] /\ 1 \in DOMAIN gateQ /\ h \in Calls
      /\ \A i \in DOMAIN gateQ' : i \in Nat /\ i + 1 \in DOMAIN gateQ /\ gateQ'[i] = gateQ[i + 1]
    BY <1>1, TailPositions
<1>3. job[h].at = "queued" /\ Own(h) \in Gates /\ h \in sent /\ ~Claiming(h, job[h])
    <2>1. job[h].at = "queued" /\ Own(h) \in Gates
        BY <1>2 DEF Executions
    <2> HIDE DEF h
    <2> QED  BY <1>2, <2>1 DEF Executions, NoJob, Claiming, Concluding, Told
<1>4. /\ \A i \in DOMAIN gateQ' : gateQ'[i] # h /\ gateQ'[i] \in Calls
      /\ \A i, j \in DOMAIN gateQ' : gateQ'[i] = gateQ'[j] => i = j
    <2>1. \A i, j \in DOMAIN gateQ' : i + 1 = j + 1 => i = j
        BY <1>2
    <2>2. \A i \in DOMAIN gateQ' : i + 1 # 1
        BY <1>1, <1>2, TailPositions, Positions
    <2>3. \A i, j \in DOMAIN gateQ : gateQ[i] = gateQ[j] => i = j
        BY DEF Executions
    <2> HIDE DEF h
    <2> QED  BY <1>2, <2>1, <2>2, <2>3, Positions
<1>5. PICK j : /\ job' = [job EXCEPT ![h] = j] /\ Shape(h, j) /\ Claiming(h, j)
               /\ claims' = [claims EXCEPT ![KeyOf[Own(h)]] = h]
    BY <1>1, <1>2, ClaimIs
<1> HIDE DEF h
<1>6. job'[h] = j /\ \A d \in Calls \ {h} : job'[d] = job[d]
    BY <1>2, <1>5 DEF IInv, Types
<1>7. /\ claims' \in [Keys -> Calls \cup {Legacy, None}]
      /\ \A k \in Keys : claims'[k] = IF k = KeyOf[Own(h)] THEN h ELSE claims[k]
      /\ \A k \in Keys : claims[k] # h
    BY <1>2, <1>3, <1>5 DEF Executions
<1>8. \A d \in Calls : Shape(d, job'[d]) /\ (d \notin sent' => job'[d] = NoJob)
    BY <1>1, <1>3, <1>5, <1>6 DEF Executions
<1>9. \A k \in Keys : claims'[k] \in Calls =>
          KeyOf[Own(claims'[k])] = k /\ Claiming(claims'[k], job'[claims'[k]])
    BY <1>5, <1>6, <1>7 DEF Executions
<1>10. \A i \in DOMAIN queue : queue[i] # Legacy => queue[i] \in Calls \ {h}
    BY <1>3, Positions DEF Executions
<1>11. \A i \in DOMAIN gateQ' : job'[gateQ'[i]].at = "queued" /\ Own(gateQ'[i]) \in Gates
    BY <1>2, <1>4, <1>6 DEF Executions
<1>12. \A i \in DOMAIN queue' : queue'[i] # Legacy =>
          job'[queue'[i]].at = "queued" /\ Own(queue'[i]) \notin Gates
    BY <1>1, <1>6, <1>10 DEF Executions
<1> QED  BY <1>1, <1>2, <1>4, <1>7, <1>8, <1>9, <1>11, <1>12 DEF Executions

\* What a dispatch adds to the queues is in neither, and holds no claim.
LEMMA FreshJob ==
    ASSUME IInv, Executions, NEW c \in Calls, call[c] = "accepted",
           job' = [job EXCEPT ![c] = Queued(c)], sent' = sent \cup {c}, UNCHANGED claims
    PROVE  /\ \A d \in Calls : Shape(d, job'[d]) /\ (d \notin sent' => job'[d] = NoJob)
           /\ \A k \in Keys : claims'[k] \in Calls =>
                 KeyOf[Own(claims'[k])] = k /\ Claiming(claims'[k], job'[claims'[k]])
           /\ job'[c].at = "queued" /\ \A d \in Calls \ {c} : job'[d] = job[d]
           /\ \A i \in DOMAIN queue : queue[i] # Legacy => queue[i] \in Calls \ {c}
           /\ \A i \in DOMAIN gateQ : gateQ[i] \in Calls \ {c}
           /\ job[c] = NoJob
<1>1. c \notin sent /\ job[c] = NoJob
    BY DEF IInv, Through, Executions
<1>2. job'[c] = Queued(c) /\ \A d \in Calls \ {c} : job'[d] = job[d]
    BY DEF IInv, Types
<1>3. Queued(c).at = "queued" /\ Queued(c).target = None
    BY DEF Queued, NoJob
<1>4. Shape(c, Queued(c))
    BY <1>3 DEF Shape, Concluding, Told
<1>5. job[c].at = "none" /\ ~Claiming(c, job[c])
    BY <1>1 DEF NoJob, Claiming, Concluding, Told
<1>6. \A d \in Calls : Shape(d, job'[d]) /\ (d \notin sent' => job'[d] = NoJob)
    BY <1>2, <1>4 DEF Executions
<1>7. \A k \in Keys : claims'[k] \in Calls =>
          KeyOf[Own(claims'[k])] = k /\ Claiming(claims'[k], job'[claims'[k]])
    BY <1>2, <1>5 DEF Executions
<1>8. /\ \A i \in DOMAIN queue : queue[i] # Legacy => queue[i] \in Calls \ {c}
      /\ \A i \in DOMAIN gateQ : gateQ[i] \in Calls \ {c}
    BY <1>5, Positions DEF Executions
<1> QED  BY <1>1, <1>2, <1>3, <1>6, <1>7, <1>8

LEMMA SendGateExecutions ==
    ASSUME IInv, Executions, NEW c \in Calls, SendGate(c)
    PROVE  Executions'
<1>1. call[c] = "accepted" /\ Own(c) \in Gates /\ UNCHANGED <<queue, claims>>
    BY DEF SendGate, Own
<1>2. CASE UNCHANGED <<gateQ, job, sent>>
    BY <1>1, <1>2 DEF Executions
<1>3. CASE gateQ' = Append(gateQ, c) /\ job' = [job EXCEPT ![c] = Queued(c)] /\ sent' = sent \cup {c}
    <2>0. /\ \A d \in Calls : Shape(d, job'[d]) /\ (d \notin sent' => job'[d] = NoJob)
          /\ \A k \in Keys : claims'[k] \in Calls =>
                KeyOf[Own(claims'[k])] = k /\ Claiming(claims'[k], job'[claims'[k]])
          /\ job'[c].at = "queued" /\ \A d \in Calls \ {c} : job'[d] = job[d]
          /\ \A i \in DOMAIN queue : queue[i] # Legacy => queue[i] \in Calls \ {c}
          /\ \A i \in DOMAIN gateQ : gateQ[i] \in Calls \ {c}
          /\ claims' \in [Keys -> Calls \cup {Legacy, None}]
        BY <1>1, <1>3, FreshJob DEF Executions
    <2>1. /\ gateQ' \in Seq(Calls)
          /\ \A i \in DOMAIN gateQ : i \in DOMAIN gateQ' /\ gateQ'[i] = gateQ[i]
          /\ gateQ'[Len(gateQ) + 1] = c
          /\ \A i \in DOMAIN gateQ' : i \in DOMAIN gateQ \/ i = Len(gateQ) + 1
        BY <1>3, AppendPositions DEF Executions
    <2>2. \A i, j \in DOMAIN gateQ' : gateQ'[i] = gateQ'[j] => i = j
        BY <1>1, <2>0, <2>1 DEF Executions
    <2>3. \A i \in DOMAIN gateQ' : job'[gateQ'[i]].at = "queued" /\ Own(gateQ'[i]) \in Gates
        BY <1>1, <2>0, <2>1 DEF Executions
    <2>4. \A i \in DOMAIN queue : queue[i] # Legacy =>
              job'[queue[i]].at = "queued" /\ Own(queue[i]) \notin Gates
        BY <1>1, <2>0 DEF Executions
    <2> QED  BY <1>1, <1>3, <2>1, <2>2, <2>0, <2>3, <2>4 DEF Executions
<1> QED  BY <1>2, <1>3 DEF SendGate

\* The same attempt is replaced where it stands.
LEMMA EnqueueExecutions ==
    ASSUME IInv, Executions, NEW c \in Calls, Enqueue(c)
    PROVE  Executions'
<1>1. call[c] = "accepted" /\ Own(c) \notin Gates /\ UNCHANGED <<gateQ, claims>>
    BY DEF Enqueue, Own
<1>2. CASE UNCHANGED <<queue, job, sent>>
    BY <1>1, <1>2 DEF Executions
<1>3. ASSUME queue' = (IF Same(c) = {} THEN Append(queue, c)
                       ELSE [i \in DOMAIN queue |-> IF i \in Same(c) THEN c ELSE queue[i]]),
             job' = [job EXCEPT ![c] = Queued(c)], sent' = sent \cup {c}
      PROVE  Executions'
    <2>0. /\ \A d \in Calls : Shape(d, job'[d]) /\ (d \notin sent' => job'[d] = NoJob)
          /\ \A k \in Keys : claims'[k] \in Calls =>
                KeyOf[Own(claims'[k])] = k /\ Claiming(claims'[k], job'[claims'[k]])
          /\ job'[c].at = "queued" /\ \A d \in Calls \ {c} : job'[d] = job[d]
          /\ \A i \in DOMAIN queue : queue[i] # Legacy => queue[i] \in Calls \ {c}
          /\ \A i \in DOMAIN gateQ : gateQ[i] \in Calls \ {c}
          /\ claims' \in [Keys -> Calls \cup {Legacy, None}]
        BY <1>1, <1>3, FreshJob DEF Executions
    <2>1. Same(c) = {i \in DOMAIN queue : queue[i] # Legacy /\ Own(queue[i]) = Own(c)}
        BY DEF Same, Own
    <2>2. /\ queue' \in Seq(Calls \cup {Legacy})
          /\ \A i \in DOMAIN queue' : \/ i \in DOMAIN queue /\ queue'[i] = queue[i] /\ i \notin Same(c)
                                      \/ queue'[i] = c
          /\ \A i, j \in DOMAIN queue' : queue'[i] # Legacy /\ queue'[j] # Legacy =>
                 (Own(queue'[i]) = Own(queue'[j]) => i = j)
        <3>1. CASE Same(c) = {}
            <4>1. queue' = Append(queue, c)
                BY <1>3, <3>1
            <4>2. /\ queue' \in Seq(Calls \cup {Legacy})
                  /\ \A i \in DOMAIN queue : i \in DOMAIN queue' /\ queue'[i] = queue[i]
                  /\ queue'[Len(queue) + 1] = c
                  /\ \A i \in DOMAIN queue' : i \in DOMAIN queue \/ i = Len(queue) + 1
                BY <4>1, AppendPositions DEF Executions
            <4>3. \A i \in DOMAIN queue : queue[i] # Legacy => Own(queue[i]) # Own(c)
                BY <2>1, <3>1
            <4> QED  BY <3>1, <4>2, <4>3 DEF Executions
        <3>2. CASE Same(c) # {}
            <4>1. queue' = [i \in DOMAIN queue |-> IF i \in Same(c) THEN c ELSE queue[i]]
                BY <1>3, <3>2
            <4>2. /\ Len(queue) \in Nat /\ DOMAIN queue = 1..Len(queue)
                  /\ \A i \in DOMAIN queue : queue[i] \in Calls \cup {Legacy}
                BY Positions DEF Executions
            <4>3. queue' \in [1..Len(queue) -> Calls \cup {Legacy}]
                BY <4>1, <4>2
            <4>4. queue' \in Seq(Calls \cup {Legacy}) /\ DOMAIN queue' = DOMAIN queue
                BY <4>1, <4>2, <4>3, SeqDef
            <4>5. \A i \in DOMAIN queue : queue'[i] = IF i \in Same(c) THEN c ELSE queue[i]
                BY <4>1
            <4>6. \A i \in DOMAIN queue : queue'[i] # Legacy =>
                      queue[i] # Legacy /\ Own(queue'[i]) = Own(queue[i])
                BY <2>1, <4>5
            <4> QED  BY <4>4, <4>5, <4>6 DEF Executions
        <3> QED  BY <3>1, <3>2
    <2>3. \A i \in DOMAIN queue' : queue'[i] # Legacy =>
              job'[queue'[i]].at = "queued" /\ Own(queue'[i]) \notin Gates
        BY <1>1, <2>0, <2>2 DEF Executions
    <2>4. /\ \A i \in DOMAIN gateQ : job'[gateQ[i]].at = "queued" /\ Own(gateQ[i]) \in Gates
          /\ \A i, j \in DOMAIN gateQ : gateQ[i] = gateQ[j] => i = j
        BY <1>1, <2>0 DEF Executions
    <2>5. gateQ' \in Seq(Calls) /\ \A i, j \in DOMAIN queue' :
              queue'[i] # Legacy /\ queue'[j] # Legacy =>
                  (Own(queue'[i]) = Own(queue'[j]) => i = j)
        BY <1>1, <2>2 DEF Executions
    <2>6. gateQ' = gateQ
        BY <1>1
    <2> QED  BY <2>0, <2>2, <2>3, <2>4, <2>5, <2>6 DEF Executions
<1> QED  BY <1>2, <1>3 DEF Enqueue

LEMMA ExecutionsStep ==
    ASSUME IInv, Executions, [Next]_vars
    PROVE  Executions'
<1>1. ASSUME NEW c \in Calls, Http(c) PROVE Executions'
    <2>1. CASE Reserve(c) \/ ReadEvidence(c) \/ ReadMemory(c) \/ Refuse(c) \/ Begin(c)
               \/ Accept(c) \/ Ack(c) \/ Rollback(c)
        <3>1. UNCHANGED <<queue, gateQ, claims, job, sent>>
            BY <2>1 DEF Reserve, ReadEvidence, ReadMemory, Refuse, Begin, Accept, Ack,
               Rollback, work, history
        <3> QED  BY <3>1 DEF Executions
    <2> QED  BY <1>1, <2>1, SendGateExecutions, EnqueueExecutions DEF Http
<1>2. ASSUME NEW c \in Calls, Job(c) PROVE Executions'
    BY <1>2, JobExecutions
<1>3. CASE LegacyPush
    <2>1. queue' = Append(queue, Legacy) /\ UNCHANGED <<gateQ, claims, job, sent>>
        BY <1>3 DEF LegacyPush, history
    <2>2. /\ queue' \in Seq(Calls \cup {Legacy})
          /\ \A i \in DOMAIN queue : i \in DOMAIN queue' /\ queue'[i] = queue[i]
          /\ queue'[Len(queue) + 1] = Legacy
          /\ \A i \in DOMAIN queue' : i \in DOMAIN queue \/ i = Len(queue) + 1
        BY <2>1, AppendPositions DEF Executions
    <2> QED  BY <2>1, <2>2 DEF Executions
<1>4. CASE Take
    BY <1>4, TakeExecutions
<1>5. CASE DispatchGate
    BY <1>5, DispatchGateExecutions
<1>6. ASSUME NEW k \in Keys, LegacyGate(k) \/ LegacyEnds(k) PROVE Executions'
    <2>1. /\ UNCHANGED <<queue, gateQ, job, sent>>
          /\ \E v \in {Legacy, None} : claims' = [claims EXCEPT ![k] = v]
        BY <1>6 DEF LegacyGate, LegacyEnds, history
    <2>2. /\ claims' \in [Keys -> Calls \cup {Legacy, None}]
          /\ \A l \in Keys : claims'[l] \in Calls => claims'[l] = claims[l]
        BY <2>1, Values, Constants DEF Executions
    <2> QED  BY <2>1, <2>2 DEF Executions
<1>7. CASE Restart
    <2>1. /\ queue' = <<>> /\ gateQ' = <<>> /\ claims' = [k \in Keys |-> None]
          /\ job' = [c \in Calls |-> NoJob]
        BY <1>7 DEF Restart
    <2>2. \A c \in Calls : Shape(c, NoJob)
        BY DEF Shape, NoJob, Concluding, Told
    <2>3. \A k \in Keys : claims'[k] \notin Calls
        BY <2>1, Constants
    <2>4. /\ queue' \in Seq(Calls \cup {Legacy}) /\ DOMAIN queue' = {}
          /\ gateQ' \in Seq(Calls) /\ DOMAIN gateQ' = {}
        BY <2>1
    <2>5. /\ \A c \in Calls : Shape(c, job'[c]) /\ job'[c] = NoJob
          /\ claims' \in [Keys -> Calls \cup {Legacy, None}]
        BY <2>1, <2>2
    <2> QED  BY <2>3, <2>4, <2>5 DEF Executions
<1>8. CASE UNCHANGED vars
    BY <1>8 DEF vars, work, history, Executions
<1> QED  BY <1>1, <1>2, <1>3, <1>4, <1>5, <1>6, <1>7, <1>8 DEF Next

-----------------------------------------------------------------------------
(* A step that leaves an attempt alone.                                    *)

\* Its memory, its evidence and its calls; what is terminal may age away.
Calm(a) ==
    /\ \/ outcome'[a] = outcome[a]
       \/ outcome'[a] = None /\ Terminal(outcome[a])
    /\ a \notin pruned' => evidence'[a] = evidence[a]
    /\ a \in acked' => a \in acked
    /\ a \in unsaved => a \in unsaved'
    /\ \A c \in Calls : Own(c) = a =>
          /\ c \in sent' <=> c \in sent
          /\ Begun(c)' <=> Begun(c)
          /\ call'[c] \in {"missing", "sent"} => call'[c] = call[c]

\* Its executions: none is new, and one that has told the conclusion keeps it.
Lasts(c, a) ==
    Due(c, a)' =>
        /\ Due(c, a) /\ (Settled(c, a)' <=> Settled(c, a))
        /\ Settled(c, a) => /\ job'[c].val = job[c].val
                            /\ job[c].at = "remembering" => job'[c].at = "remembering"

LEMMA StoryFrame ==
    ASSUME NEW a \in Attempts, Story(a), Calm(a), a \notin pruned',
           \A c \in Calls : Lasts(c, a)
    PROVE  Story(a)' /\ Final(a)
<1>1. /\ Dispatched(a)' <=> Dispatched(a)
      /\ Begins(a)' <=> Begins(a)
    BY DEF Calm, Dispatched, Begins
<1>2. /\ evidence'[a] = evidence[a]
      /\ outcome'[a] # outcome[a] => outcome'[a] = None /\ Terminal(outcome[a])
    BY DEF Calm
<1>3. Untold(a)'
    BY <1>1, <1>2 DEF Untold, Story, Calm, Lasts, Terminal
<1>4. OneExecutor(a)'
    BY DEF OneExecutor, Story, Lasts
<1>5. Pending(a)'
    <2> SUFFICES ASSUME NEW c \in Calls, Due(c, a)'
                 PROVE  IF Settled(c, a)'
                        THEN \/ /\ evidence'[a] = job'[c].val
                                /\ outcome'[a] \in {"pending", None, job'[c].val}
                             \/ /\ evidence'[a] = None /\ outcome'[a] = "pending"
                                /\ a \in unsaved'
                                /\ job'[c].at = "remembering" /\ job'[c].val # "passed"
                        ELSE evidence'[a] = None /\ outcome'[a] = "pending"
        BY Zenon DEF Pending
    <2>1. Due(c, a) /\ Lasts(c, a) /\ Pending(a)
        BY DEF Lasts, Story
    <2>2. CASE Settled(c, a)
        <3>1. Settled(c, a)' /\ job'[c].val = job[c].val
              /\ (job[c].at = "remembering" => job'[c].at = "remembering")
            BY <2>1, <2>2 DEF Lasts
        <3>2. \/ evidence[a] = job[c].val /\ outcome[a] \in {"pending", None, job[c].val}
              \/ /\ evidence[a] = None /\ outcome[a] = "pending" /\ a \in unsaved
                 /\ job[c].at = "remembering" /\ job[c].val # "passed"
            BY <2>1, <2>2 DEF Pending
        <3> QED  BY <1>2, <3>1, <3>2 DEF Calm, Terminal
    <2>3. CASE ~Settled(c, a)
        <3>1. evidence[a] = None /\ outcome[a] = "pending"
            BY <2>1, <2>3 DEF Pending
        <3> QED  BY <1>2, <2>1, <2>3, <3>1 DEF Lasts, Terminal
    <2> QED  BY <2>2, <2>3
<1>6. Durable(a)'
    BY <1>2 DEF Durable, Story, Calm, Terminal
<1>7. LookedUp(a)'
    BY <1>2 DEF LookedUp, Story, Calm, Lasts, Terminal
<1>8. Known(a)'
    BY <1>2 DEF Known, Durable, Story, Calm, Readable, Terminal
<1>9. Final(a)
    BY <1>2 DEF Final, Durable, Story, Readable, Terminal
<1> QED  BY <1>3, <1>4, <1>5, <1>6, <1>7, <1>8, <1>9 DEF Story

\* What is pending stays awaited where no execution gives it up.
LEMMA AccountFrame ==
    ASSUME NEW a \in Attempts, Account(a), Calm(a), pruned \subseteq pruned',
           a \in orphaned => a \in orphaned',
           \A c \in Calls : Lasts(c, a),
           ~(a \in orphaned') /\ outcome[a] = "pending" =>
               \A c \in Calls : Due(c, a) => \E d \in Calls : Due(d, a)'
    PROVE  Continues(a)
<1>1. a \notin pruned' => Story(a)' /\ Final(a)
    BY StoryFrame DEF Account
<1>2. ASSUME a \notin orphaned', outcome'[a] = "pending"
      PROVE  Begins(a)' \/ \E c \in Calls : Due(c, a)'
    <2>1. outcome[a] = "pending" /\ a \notin orphaned
        BY <1>2, Values DEF Calm
    <2>2. Begins(a) \/ \E c \in Calls : Due(c, a)
        BY <2>1 DEF Account, Awaited
    <2>3. Begins(a) => Begins(a)'
        BY DEF Begins, Calm
    <2> QED  BY <1>2, <2>1, <2>2, <2>3
<1> QED  BY <1>1, <1>2 DEF Continues, Account, Awaited

-----------------------------------------------------------------------------
(* The threads and the story.                                              *)

LEMMA WorkStays ==
    ASSUME UNCHANGED <<job, claims>>, NEW a
    PROVE  \A c \in Calls : /\ Due(c, a)' <=> Due(c, a)
                            /\ Settled(c, a)' <=> Settled(c, a)
                            /\ Lasts(c, a)
BY DEF Lasts, Due, Settled, Outdated

\* Whoever holds the lock is the only call at the ledger.
LEMMA Alone ==
    ASSUME AInv, NEW c \in Calls, call[c] \in Locking
    PROVE  /\ lock = c /\ \A d \in Calls \ {c} : call[d] \notin Locking
           /\ Begins(Own(c)) <=> Begun(c)
<1>1. lock = c /\ \A d \in Calls \ {c} : call[d] \notin Locking
    BY DEF AInv, Base, Clerks
<1>2. \A d \in Calls : Begun(d) => call[d] \in Locking
    BY DEF Begun, Locking
<1> QED  BY <1>1, <1>2 DEF Begins

\* An attempt on its way to the dispatch was not dispatched by another.
LEMMA NotDispatched ==
    ASSUME AInv, NEW c \in Calls, Admitting(c), ~Expired(c)
    PROVE  ~Dispatched(Own(c))
<1>1. Owns(c) /\ c \notin sent
    BY DEF AInv, Base, IInv, Owned, Through, Admitting
<1>2. ASSUME NEW d \in Calls, Own(d) = Own(c), d \in sent PROVE FALSE
    <2>1. Owns(d)
        BY <1>2 DEF AInv, Base, IInv, Owned, Expired, Own
    <2> QED  BY <1>1, <1>2, <2>1 DEF Owns, Own
<1> QED  BY <1>2 DEF Dispatched

\* A call moves on; the other attempts do not notice.
LEMMA OthersContinue ==
    ASSUME AInv, NEW c \in Calls, NEW stage, At(c, stage),
           UNCHANGED <<job, claims, evidence, unsaved, pruned, orphaned>>,
           NEW a \in Attempts, a # Own(c),
           a \in acked' => a \in acked, sent' \in {sent, sent \cup {c}},
           \/ outcome'[a] = outcome[a]
           \/ outcome'[a] = None /\ Terminal(outcome[a])
    PROVE  Continues(a)
<1>1. \A d \in Calls \ {c} : call'[d] = call[d]
    BY DEF At, AInv, Base, IInv, Types
<1>2. Calm(a)
    BY <1>1 DEF Calm, Begun
<1> QED  BY <1>2, WorkStays, AccountFrame DEF AInv

\* A call moves on, beyond what its attempt is judged by.
LEMMA CallContinues ==
    ASSUME AInv, NEW c \in Calls, NEW stage, At(c, stage),
           UNCHANGED <<job, claims, evidence, outcome, unsaved, pruned, orphaned, sent, acked>>,
           stage \notin {"missing", "sent"},
           stage \in {"begun", "accepted"} <=> Begun(c)
    PROVE  \A a \in Attempts : Continues(a)
<1> SUFFICES ASSUME NEW a \in Attempts PROVE Continues(a)
    OBVIOUS
<1>1. call'[c] = stage /\ \A d \in Calls \ {c} : call'[d] = call[d]
    BY DEF At, AInv, Base, IInv, Types
<1>2. Calm(a)
    BY <1>1 DEF Calm, Begun
<1> QED  BY <1>2, WorkStays, AccountFrame DEF AInv

LEMMA MemoryStays ==
    ASSUME Memory, UNCHANGED <<outcome, order, evidence>>
    PROVE  Memory'
BY DEF Memory, Terminal

LEMMA ReadEvidenceContinues ==
    ASSUME AInv, NEW c \in Calls, ReadEvidence(c)
    PROVE  Memory' /\ \A a \in Attempts : Continues(a)
<1> DEFINE b == Own(c)
<1>1. /\ call[c] = "found" /\ b \in Attempts /\ ~Begins(b)
      /\ UNCHANGED <<job, claims, evidence, unsaved, pruned, orphaned, sent>>
      /\ \A d \in Calls \ {c} : call[d] \notin Locking
      /\ evidence[b] \in Conclusion \cup {None}
    BY Alone, Values DEF ReadEvidence, disk, work, Locking, Begun, AInv, Base, Memory
<1>2. Account(b) /\ Memory /\ IInv /\ Executions
    BY <1>1 DEF AInv, Base
<1>3. CASE evidence[b] # None
    <2>1. Remember(b, evidence[b]) /\ acked' = acked \cup {b} /\ At(c, "acked")
        BY <1>3 DEF ReadEvidence, Return, Own
    <2>2. /\ Memory' /\ outcome'[b] = evidence[b]
          /\ \A a \in Attempts \ {b} : \/ outcome'[a] = outcome[a]
                                       \/ outcome'[a] = None /\ Terminal(outcome[a])
        BY <1>1, <1>2, <1>3, <2>1, RememberIs
    <2>3. call'[c] = "acked" /\ \A d \in Calls \ {c} : call'[d] = call[d]
        BY <1>2, <2>1 DEF At, IInv, Types
    <2>4. outcome'[b] # "pending"
        BY <1>1, <1>3, <2>2, Values
    <2>5. ASSUME b \notin pruned  PROVE Story(b)' /\ Final(b)
        <3>1. Story(b)
            BY <1>2, <2>5 DEF Account
        <3>2. Dispatched(b) /\ Dispatched(b)'
            BY <1>1, <1>3, <3>1 DEF Story, Untold, Dispatched
        <3>3. OneExecutor(b)'
            BY <1>1, <3>1, WorkStays DEF Story, OneExecutor
        <3>4. ASSUME NEW d \in Calls, Due(d, b)'
              PROVE  /\ Settled(d, b)' /\ evidence'[b] = job'[d].val
                     /\ outcome'[b] = job'[d].val
            <4>1. Due(d, b) /\ Pending(b)
                BY <1>1, <3>1, <3>4, WorkStays DEF Story
            <4>2. Settled(d, b) /\ evidence[b] = job[d].val
                BY <1>3, <4>1 DEF Pending
            <4> QED  BY <1>1, <2>2, <4>2, WorkStays
        <3>5. Pending(b)'
            BY <3>4 DEF Pending
        <3>6. Durable(b)' /\ Known(b)'
            BY <1>1, <1>3, <2>2 DEF Durable, Known, Readable
        <3>7. LookedUp(b)'
            BY <1>1, <2>3 DEF LookedUp, Locking
        <3>8. Final(b)
            BY <1>1, <1>3, <2>2, <3>1 DEF Final, Story, Durable, Readable, Terminal
        <3> QED  BY <3>2, <3>3, <3>5, <3>6, <3>7, <3>8 DEF Story, Untold
    <2>6. Continues(b)
        BY <1>1, <2>4, <2>5 DEF Continues, Account, Awaited
    <2> QED  BY <1>1, <2>1, <2>2, <2>6, OthersContinue
<1>4. CASE evidence[b] = None
    <2>1. UNCHANGED <<outcome, order, acked>> /\ At(c, "missing")
        BY <1>4 DEF ReadEvidence, memory, Own
    <2>2. Memory'
        BY <1>1, <1>2, <2>1, MemoryStays
    <2>3. call'[c] = "missing" /\ \A d \in Calls \ {c} : call'[d] = call[d]
        BY <1>2, <2>1 DEF At, IInv, Types
    <2>4. ASSUME b \notin pruned  PROVE Story(b)' /\ Final(b)
        <3>1. Story(b)
            BY <1>2, <2>4 DEF Account
        <3>2. /\ Dispatched(b)' <=> Dispatched(b)
              /\ Begins(b)' <=> Begins(b)
            BY <1>1, <2>3 DEF Dispatched, Begins, Begun
        <3>3. Untold(b)' /\ OneExecutor(b)'
            BY <1>1, <2>1, <3>1, <3>2, WorkStays DEF Story, Untold, OneExecutor
        <3>4. Pending(b)' /\ Durable(b)'
            BY <1>1, <2>1, <3>1, WorkStays DEF Story, Pending, Durable, Terminal
        <3>5. ASSUME NEW d \in Calls, Due(d, b)'  PROVE outcome'[b] = "pending"
            <4>1. Due(d, b) /\ Pending(b)
                BY <1>1, <3>1, <3>5, WorkStays DEF Story
            <4>2. Settled(d, b) => job[d].val # None
                BY <1>2 DEF Settled, Executions, Shape, Concluding
            <4> QED  BY <1>4, <2>1, <4>1, <4>2 DEF Pending
        <3>6. LookedUp(b)'
            BY <3>5 DEF LookedUp
        <3>7. Known(b)' /\ Final(b)
            BY <1>1, <2>1, <2>3, <3>1 DEF Story, Known, Final, Readable
        <3> QED  BY <3>3, <3>4, <3>6, <3>7 DEF Story
    <2>5. Awaited(b)'
        <3>1. Begins(b)' <=> Begins(b)
            BY <1>1, <2>3 DEF Begins, Begun
        <3> QED  BY <1>1, <1>2, <2>1, <3>1, WorkStays DEF Account, Awaited
    <2>6. Continues(b)
        BY <1>1, <2>4, <2>5 DEF Continues, Account
    <2> QED  BY <1>1, <2>1, <2>2, <2>6, OthersContinue
<1> QED  BY <1>3, <1>4

\* An acknowledgement: the outcome is there to be read.
LEMMA AckContinues ==
    ASSUME AInv, NEW c \in Calls, At(c, "acked"), ~Begun(c),
           UNCHANGED <<job, claims, evidence, outcome, order, unsaved, pruned, orphaned, sent>>,
           acked' = acked \cup {Own(c)},
           ~Expired(c) => Dispatched(Own(c)),
           ~Expired(c) /\ Own(c) \notin unsaved => Readable(Own(c)) # None
    PROVE  Memory' /\ \A a \in Attempts : Continues(a)
<1> DEFINE b == Own(c)
<1>1. Memory' /\ IInv /\ b \in Attempts /\ Account(b)
    BY MemoryStays, Values DEF AInv, Base
<1>2. call'[c] = "acked" /\ \A d \in Calls \ {c} : call'[d] = call[d]
    BY <1>1 DEF At, IInv, Types
<1>3. /\ Dispatched(b)' <=> Dispatched(b)
      /\ Begins(b)' <=> Begins(b)
    BY <1>2 DEF Dispatched, Begins, Begun
<1>4. ASSUME b \notin pruned  PROVE Story(b)' /\ Final(b)
    <2>1. Story(b) /\ Dispatched(b) /\ (b \notin unsaved => Readable(b) # None)
        BY <1>1, <1>4 DEF Account, Expired, Own
    <2>2. Untold(b)' /\ OneExecutor(b)' /\ Pending(b)' /\ Durable(b)'
        BY <1>3, <2>1, WorkStays
           DEF Story, Untold, OneExecutor, Pending, Durable, Terminal
    <2>3. LookedUp(b)'
        BY <1>2, <2>1, WorkStays DEF Story, LookedUp
    <2>4. Known(b)' /\ Final(b)
        BY <1>2, <2>1 DEF Story, Known, Final, Readable
    <2> QED  BY <2>2, <2>3, <2>4 DEF Story
<1>5. Continues(b)
    <2>1. Awaited(b)'
        BY <1>1, <1>3, WorkStays DEF Account, Awaited
    <2> QED  BY <1>4, <2>1 DEF Continues, Account
<1>6. ASSUME NEW a \in Attempts, a # b PROVE Continues(a)
    <2>1. a \in acked' => a \in acked
        BY <1>6
    <2> QED  BY <1>6, <2>1, OthersContinue
<1> QED  BY <1>1, <1>5, <1>6

LEMMA ReadMemoryContinues ==
    ASSUME AInv, NEW c \in Calls, ReadMemory(c)
    PROVE  Memory' /\ \A a \in Attempts : Continues(a)
<1> DEFINE b == Own(c)
<1>1. /\ call[c] = "missing" /\ b \in Attempts /\ ~Begins(b) /\ ~Begun(c)
      /\ UNCHANGED <<job, claims, evidence, outcome, order, unsaved, pruned, orphaned, sent>>
      /\ Account(b) /\ Memory
    BY Alone, Values DEF ReadMemory, disk, memory, work, Locking, Begun, AInv, Base
<1>2. CASE outcome[b] # None
    <2>1. acked' = acked \cup {b} /\ At(c, "acked")
        BY <1>2 DEF ReadMemory, Return, Own
    <2>2. ~Expired(c) => Dispatched(b)
        BY <1>1, <1>2 DEF Account, Story, Untold, Expired, Own
    <2>3. Readable(b) # None
        BY <1>2 DEF Readable
    <2> QED  BY <1>1, <2>1, <2>2, <2>3, AckContinues
<1>3. CASE outcome[b] = None
    <2>1. acked' = acked /\ At(c, "abandoned")
        BY <1>3 DEF ReadMemory, Return, Own
    <2> QED  BY <1>1, <2>1, CallContinues, MemoryStays
<1> QED  BY <1>2, <1>3

LEMMA BeginContinues ==
    ASSUME AInv, NEW c \in Calls, Begin(c)
    PROVE  Memory' /\ \A a \in Attempts : Continues(a)
<1> DEFINE b == Own(c)
<1>1. /\ call[c] = "reserved" /\ b \in Attempts /\ Remember(b, "pending") /\ At(c, "begun")
      /\ UNCHANGED <<job, claims, evidence, unsaved, pruned, orphaned, sent, acked>>
      /\ Account(b) /\ Memory /\ IInv
      /\ \A d \in Calls \ {c} : call[d] \notin Locking
    BY Alone, Values DEF Begin, disk, work, history, Own, AInv, Base, Locking
<1>2. /\ Memory' /\ outcome'[b] = "pending"
      /\ \A a \in Attempts \ {b} : \/ outcome'[a] = outcome[a]
                                   \/ outcome'[a] = None /\ Terminal(outcome[a])
    BY <1>1, RememberIs
<1>3. call'[c] = "begun" /\ \A d \in Calls \ {c} : call'[d] = call[d]
    BY <1>1 DEF At, IInv, Types
<1>4. Begins(b)'
    BY <1>3 DEF Begins, Begun
<1>5. ASSUME b \notin pruned  PROVE Story(b)' /\ Final(b)
    <2>1. Story(b) /\ ~Dispatched(b) /\ ~Dispatched(b)'
        <3>1. ~Dispatched(b)
            BY <1>1, <1>5, NotDispatched DEF Admitting, Expired, Own
        <3> QED  BY <1>1, <1>5, <3>1 DEF Account, Dispatched
    <2>2. /\ evidence[b] = None /\ b \notin acked /\ \A d \in Calls : ~Due(d, b)
          /\ outcome[b] \in {"pending", None}
        BY <2>1 DEF Story, Untold
    <2>3. \A d \in Calls : ~Due(d, b)'
        BY <1>1, <2>2, WorkStays
    <2>4. Untold(b)' /\ OneExecutor(b)' /\ Pending(b)' /\ LookedUp(b)'
        BY <1>1, <1>2, <1>4, <2>2, <2>3 DEF Untold, OneExecutor, Pending, LookedUp
    <2>5. Durable(b)' /\ Known(b)' /\ Final(b)
        BY <1>1, <1>2, <2>2, Values DEF Durable, Known, Final, Readable, Terminal
    <2> QED  BY <2>4, <2>5 DEF Story
<1>6. Continues(b)
    BY <1>1, <1>4, <1>5 DEF Continues, Account, Awaited
<1> QED  BY <1>1, <1>2, <1>6, OthersContinue

\* What was begun is taken back: the attempt is as it was.
LEMMA UndoContinues ==
    ASSUME AInv, NEW c \in Calls, Begun(c), At(c, "undo"), Forget(Own(c)),
           UNCHANGED <<job, claims, evidence, unsaved, pruned, orphaned, sent, acked>>
    PROVE  Memory' /\ \A a \in Attempts : Continues(a)
<1> DEFINE b == Own(c)
<1>1. /\ b \in Attempts /\ Account(b) /\ Memory /\ IInv
      /\ \A d \in Calls \ {c} : call[d] \notin Locking
    BY Alone, Values DEF AInv, Base, Locking, Begun
<1>2. /\ Memory' /\ outcome'[b] = None
      /\ \A a \in Attempts \ {b} : outcome'[a] = outcome[a]
    BY <1>1, ForgetIs
<1>3. call'[c] = "undo" /\ \A d \in Calls \ {c} : call'[d] = call[d]
    BY <1>1 DEF At, IInv, Types
<1>4. ~Begins(b)'
    BY <1>1, <1>3 DEF Begins, Begun, Locking
<1>5. ASSUME b \notin pruned  PROVE Story(b)' /\ Final(b)
    <2>1. Story(b) /\ ~Dispatched(b) /\ ~Dispatched(b)'
        <3>1. ~Dispatched(b)
            BY <1>1, <1>5, NotDispatched DEF Admitting, Begun, Expired, Own
        <3> QED  BY <1>1, <1>5, <3>1 DEF Account, Dispatched
    <2>2. /\ evidence[b] = None /\ b \notin acked /\ \A d \in Calls : ~Due(d, b)
          /\ outcome[b] \in {"pending", None}
        BY <2>1 DEF Story, Untold
    <2>3. \A d \in Calls : ~Due(d, b)'
        BY <1>1, <2>2, WorkStays
    <2>4. Untold(b)' /\ OneExecutor(b)' /\ Pending(b)' /\ LookedUp(b)'
        BY <1>1, <1>2, <1>4, <2>2, <2>3 DEF Untold, OneExecutor, Pending, LookedUp
    <2>5. Known(b)'
        BY <1>1, <1>3, <2>2 DEF Known, Locking
    <2>6. Durable(b)' /\ Final(b)
        BY <1>1, <1>2, <2>2, Values DEF Durable, Final, Readable, Terminal
    <2> QED  BY <2>4, <2>5, <2>6 DEF Story
<1>6. Continues(b)
    BY <1>1, <1>2, <1>5, Values DEF Continues, Account, Awaited
<1> QED  BY <1>1, <1>2, <1>6, OthersContinue

\* The one execution of an attempt begins.
LEMMA DispatchContinues ==
    ASSUME AInv, NEW c \in Calls, call[c] = "accepted", At(c, "sent"),
           job' = [job EXCEPT ![c] = Queued(c)], sent' = sent \cup {c},
           UNCHANGED <<claims, evidence, outcome, order, unsaved, pruned, orphaned, acked>>
    PROVE  Memory' /\ \A a \in Attempts : Continues(a)
<1> DEFINE b == Own(c)
<1>1. /\ b \in Attempts /\ Account(b) /\ Memory' /\ IInv /\ Executions
      /\ \A d \in Calls \ {c} : call[d] \notin Locking
      /\ Begins(b)
    BY Alone, Values, MemoryStays DEF AInv, Base, Locking, Begun
<1>2. call'[c] = "sent" /\ \A d \in Calls \ {c} : call'[d] = call[d]
    BY <1>1 DEF At, IInv, Types
<1>3. job'[c] = Queued(c) /\ job[c] = NoJob /\ \A d \in Calls \ {c} : job'[d] = job[d]
    BY <1>1 DEF IInv, Types, Executions, Through
<1>4. /\ job'[c].at = "queued" /\ job'[c].target = None
      /\ job[c].at = "none" /\ job[c].target = None
    BY <1>3 DEF Queued, NoJob
<1>5. ASSUME NEW a \in Attempts
      PROVE  /\ \A d \in Calls \ {c} : (Due(d, a)' <=> Due(d, a)) /\ Lasts(d, a)
             /\ ~Due(c, a) /\ ~Settled(c, a)' /\ (Due(c, a)' <=> a = b)
    BY <1>3, <1>4, Constants DEF Lasts, Due, Settled, Outdated, Own, Told
<1>6. ASSUME b \notin pruned  PROVE Story(b)' /\ Final(b)
    <2>1. Story(b) /\ ~Dispatched(b)
        <3>1. ~Dispatched(b)
            BY <1>1, <1>6, NotDispatched DEF Admitting, Expired, Own
        <3> QED  BY <1>1, <1>6, <3>1 DEF Account
    <2>2. /\ evidence'[b] = None /\ \A d \in Calls : ~Due(d, b)
          /\ outcome'[b] = "pending" /\ outcome[b] = "pending"
        BY <1>1, <2>1 DEF Story, Untold
    <2>3. \A d \in Calls : Due(d, b)' => d = c
        BY <1>1, <1>5, <2>2
    <2>4. OneExecutor(b)' /\ Pending(b)' /\ LookedUp(b)'
        BY <1>1, <1>5, <2>2, <2>3 DEF OneExecutor, Pending, LookedUp
    <2>5. Untold(b)'
        BY DEF Untold, Dispatched
    <2>6. Durable(b)' /\ Known(b)' /\ Final(b)
        BY <2>2, Values DEF Durable, Known, Final, Readable, Terminal
    <2> QED  BY <2>4, <2>5, <2>6 DEF Story
<1>7. Continues(b)
    <2>1. Awaited(b)'
        BY <1>1, <1>5 DEF Awaited
    <2> QED  BY <1>6, <2>1 DEF Continues, Account
<1>8. ASSUME NEW a \in Attempts, a # b PROVE Continues(a)
    <2>1. Calm(a)
        BY <1>2, <1>8 DEF Calm, Begun
    <2>2. \A d \in Calls : Lasts(d, a)
        BY <1>5, <1>8 DEF Lasts
    <2>3. Account(a) /\ \A d \in Calls : Due(d, a) => Due(d, a)'
        BY <1>5, <1>8 DEF AInv
    <2> QED  BY <2>1, <2>2, <2>3, AccountFrame
<1> QED  BY <1>1, <1>7, <1>8

LEMMA HttpContinues ==
    ASSUME AInv, NEW c \in Calls, Http(c)
    PROVE  Memory' /\ \A a \in Attempts : Continues(a)
<1>1. CASE Reserve(c) \/ Refuse(c) \/ Rollback(c)
    <2>1. /\ UNCHANGED <<job, claims, evidence, outcome, order, unsaved, pruned, orphaned,
                         sent, acked>>
          /\ ~Begun(c)
          /\ \E stage \in {"reserved", "refused", "abandoned", "found", "undo"} : At(c, stage)
        BY <1>1 DEF Reserve, Refuse, Rollback, Return, disk, memory, work, history, Begun
    <2> QED  BY <2>1, CallContinues, MemoryStays DEF AInv, Base
<1>2. CASE Accept(c)
    <2>1. /\ call[c] = "begun" /\ Begun(c)
          /\ UNCHANGED <<job, claims, evidence, unsaved, pruned, orphaned, sent, acked>>
          /\ \/ At(c, "accepted") /\ UNCHANGED <<outcome, order>>
             \/ At(c, "undo") /\ Forget(Own(c))
        BY <1>2 DEF Accept, memory, work, history, Begun, Own
    <2> QED  BY <2>1, CallContinues, UndoContinues, MemoryStays DEF AInv, Base
<1>3. CASE SendGate(c) \/ Enqueue(c)
    <2>1. /\ call[c] = "accepted" /\ Begun(c)
          /\ UNCHANGED <<claims, evidence, unsaved, pruned, orphaned, acked>>
          /\ \/ /\ At(c, "sent") /\ UNCHANGED <<outcome, order>>
                /\ job' = [job EXCEPT ![c] = Queued(c)] /\ sent' = sent \cup {c}
             \/ At(c, "undo") /\ Forget(Own(c)) /\ UNCHANGED <<job, sent>>
        BY <1>3 DEF SendGate, Enqueue, disk, memory, Begun, Own
    <2> QED  BY <2>1, DispatchContinues, UndoContinues
<1>4. CASE Ack(c)
    <2>1. /\ UNCHANGED <<job, claims, evidence, outcome, order, unsaved, pruned, orphaned, sent>>
          /\ ~Begun(c) /\ At(c, "acked") /\ acked' = acked \cup {Own(c)} /\ call[c] = "sent"
        BY <1>4 DEF Ack, Return, disk, memory, work, Begun, Own
    <2>2. c \in sent /\ Dispatched(Own(c)) /\ Account(Own(c))
        BY <2>1, Values DEF AInv, Base, Clerks, Dispatched
    <2>3. ~Expired(c) /\ Own(c) \notin unsaved => Readable(Own(c)) # None
        BY <2>1, <2>2 DEF Account, Story, Known, Expired, Own
    <2> QED  BY <2>1, <2>2, <2>3, AckContinues
<1> QED  BY <1>1, <1>2, <1>3, <1>4, ReadEvidenceContinues, ReadMemoryContinues,
            BeginContinues DEF Http

-----------------------------------------------------------------------------
(* The executions and the story.                                           *)

\* The executions a step leaves alone, where it takes no claim from them.
LEMMA Bystanders ==
    ASSUME IInv, NEW c \in Calls, NEW j, job' = [job EXCEPT ![c] = j],
           NEW d \in Calls, d # c,
           claims'[KeyOf[Own(d)]] = d <=> claims[KeyOf[Own(d)]] = d, NEW a
    PROVE  /\ Due(d, a)' <=> Due(d, a)
           /\ Settled(d, a)' <=> Settled(d, a)
           /\ Lasts(d, a)
<1>1. job'[d] = job[d]
    BY DEF IInv, Types
<1> QED  BY <1>1 DEF Lasts, Due, Settled, Outdated, Own

\* A step of one execution that concludes nothing.
LEMMA JobContinues ==
    ASSUME AInv, NEW c \in Calls, NEW j, job' = [job EXCEPT ![c] = j],
           UNCHANGED <<outcome, call, sent, acked, unsaved, orphaned>>,
           pruned \subseteq pruned',
           \A b \in Attempts \ pruned' : evidence'[b] = evidence[b],
           \A d \in Calls \ {c} : claims'[KeyOf[Own(d)]] = d <=> claims[KeyOf[Own(d)]] = d,
           NEW a \in Attempts,
           Lasts(c, a), Due(c, a) /\ outcome[a] = "pending" => Due(c, a)'
    PROVE  Continues(a)
<1>1. \A d \in Calls \ {c} : Lasts(d, a) /\ (Due(d, a)' <=> Due(d, a))
    BY Bystanders DEF AInv, Base
<1>2. Calm(a)
    BY DEF Calm, Begun
<1>3. Account(a)
    BY DEF AInv
<1>4. \A d \in Calls : Due(d, a) /\ outcome[a] = "pending" => \E e \in Calls : Due(e, a)'
    BY <1>1
<1> QED  BY <1>1, <1>2, <1>3, <1>4, AccountFrame

\* The same where the claims stay.
LEMMA QuietJob ==
    ASSUME AInv, NEW c \in Calls, NEW j, job' = [job EXCEPT ![c] = j],
           UNCHANGED <<claims, outcome, order, evidence, call, sent, acked, unsaved,
                       orphaned, pruned>>,
           \A a \in Attempts : Lasts(c, a) /\ (Due(c, a) /\ outcome[a] = "pending" => Due(c, a)')
    PROVE  Memory' /\ \A a \in Attempts : Continues(a)
BY JobContinues, MemoryStays DEF AInv, Base

\* An execution before its conclusion goes on, without a target.
LEMMA EarlyJob ==
    ASSUME AInv, NEW c \in Calls, NEW j, job' = [job EXCEPT ![c] = j],
           UNCHANGED <<claims, outcome, order, evidence, call, sent, acked, unsaved,
                       orphaned, pruned>>,
           job[c].at \in {"queued", "analysed"}, j.target = None,
           j.at \in {"analysed", "published"}
    PROVE  Memory' /\ \A a \in Attempts : Continues(a)
<1>1. job[c].target = None /\ job'[c] = j
    BY DEF AInv, Base, Executions, Shape, IInv, Types
<1>2. \A a \in Attempts : Lasts(c, a) /\ (Due(c, a) => Due(c, a)')
    BY <1>1, Constants DEF Lasts, Due, Settled, Outdated, Own, Told
<1> QED  BY <1>2, QuietJob

LEMMA FinishContinues ==
    ASSUME AInv, NEW c \in Calls, Finish(c)
    PROVE  Memory' /\ \A a \in Attempts : Continues(a)
<1>1. /\ job[c].at = "published" /\ job[c] \in Execution /\ job[c].target = None
      /\ UNCHANGED <<claims, outcome, order, evidence, call, sent, acked, unsaved, orphaned,
                     pruned>>
    BY DEF Finish, disk, memory, history, AInv, Base, Executions, Shape, IInv, Types
<1>2. PICK stage \in {"ended", "concluded"} :
          job' = [job EXCEPT ![c].at = stage, ![c].target = Own(c)]
    BY DEF Finish, Own
<1> DEFINE j == [[job[c] EXCEPT !.at = stage] EXCEPT !.target = Own(c)]
<1>3. job' = [job EXCEPT ![c] = j] /\ job'[c] = j
    BY <1>2 DEF AInv, Base, IInv, Types
<1>4. j.at = stage /\ j.target = Own(c)
    BY <1>1 DEF Execution
<1> HIDE DEF j
<1>5. \A a \in Attempts : Lasts(c, a) /\ (Due(c, a) => Due(c, a)')
    BY <1>1, <1>3, <1>4, Constants DEF Lasts, Due, Settled, Outdated, Own, Told
<1> QED  BY <1>1, <1>3, <1>5, QuietJob

LEMMA SupersedeContinues ==
    ASSUME AInv, NEW c \in Calls, Supersede(c)
    PROVE  Memory' /\ \A a \in Attempts : Continues(a)
<1> DEFINE t == job[c].target
<1>1. /\ job[c].at = "superseding" /\ job[c] \in Execution /\ t \in Attempts \ {Own(c)}
      /\ UNCHANGED <<claims, outcome, order, evidence, call, sent, acked, unsaved, orphaned,
                     pruned>>
    BY DEF Supersede, disk, memory, history, AInv, Base, Executions, Shape, IInv, Types
<1>2. CASE outcome[t] = "pending"
    <2> DEFINE j == [[job[c] EXCEPT !.at = "concluded"] EXCEPT !.val = "superseded"]
    <2>1. job' = [job EXCEPT ![c] = j] /\ job'[c] = j
        BY <1>2 DEF Supersede, AInv, Base, IInv, Types
    <2>2. j.at = "concluded" /\ j.target = t
        BY <1>1 DEF Execution
    <2> HIDE DEF j
    <2>3. \A a \in Attempts : Lasts(c, a) /\ (Due(c, a) => Due(c, a)')
        BY <1>1, <2>1, <2>2 DEF Lasts, Due, Settled, Outdated, Own, Told
    <2> QED  BY <1>1, <2>1, <2>3, QuietJob
<1>3. CASE outcome[t] # "pending"
    <2> DEFINE j == [NoJob EXCEPT !.at = "witness"]
    <2>1. job' = [job EXCEPT ![c] = j] /\ job'[c] = j
        BY <1>3 DEF Supersede, AInv, Base, IInv, Types
    <2>2. j.at = "witness" /\ j.target = None
        BY DEF NoJob
    <2> HIDE DEF j
    <2>3. \A a \in Attempts : Lasts(c, a) /\ (Due(c, a) /\ a # t => Due(c, a)')
        BY <1>1, <2>1, <2>2, Constants DEF Lasts, Due, Settled, Outdated, Own, Told
    <2>4. \A a \in Attempts : Due(c, a) /\ outcome[a] = "pending" => Due(c, a)'
        BY <1>3, <2>3
    <2> QED  BY <1>1, <2>1, <2>3, <2>4, QuietJob
<1> QED  BY <1>2, <1>3

\* A conclusion that is on disk: the pruning goes on and ends.
LEMMA TellingContinues ==
    ASSUME AInv, NEW c \in Calls, NEW stage \in Told, Step(c, stage),
           job[c].at \in {"pruning", "unlinking"},
           UNCHANGED <<claims, outcome, order, evidence, call, sent, acked, unsaved,
                       orphaned, pruned>>
    PROVE  Memory' /\ \A a \in Attempts : Continues(a)
<1> DEFINE j == [job[c] EXCEPT !.at = stage]
<1>1. job' = [job EXCEPT ![c] = j] /\ job'[c] = j
    BY DEF Step, AInv, Base, IInv, Types
<1>2. j.at = stage /\ j.target = job[c].target /\ j.val = job[c].val
    BY DEF AInv, Base, IInv, Types, Execution
<1> HIDE DEF j
<1>3. \A a \in Attempts : Lasts(c, a) /\ (Due(c, a) => Due(c, a)')
    BY <1>1, <1>2 DEF Lasts, Due, Settled, Outdated, Told
<1> QED  BY <1>1, <1>3, QuietJob

LEMMA PruneContinues ==
    ASSUME AInv, NEW c \in Calls, Prune(c)
    PROVE  Memory' /\ \A a \in Attempts : Continues(a)
<1>1. PICK b \in Attempts :
          /\ evidence' = [evidence EXCEPT ![b] = None]
          /\ pruned' = pruned \cup {b}
          /\ job' = [job EXCEPT ![c].at = "unlinking", ![c].bundle = b]
    BY DEF Prune
<1>2. /\ job[c].at = "pruning" /\ job[c] \in Execution
      /\ UNCHANGED <<claims, outcome, order, call, sent, acked, unsaved, orphaned>>
    BY DEF Prune, memory, AInv, Base, IInv, Types
<1> DEFINE j == [[job[c] EXCEPT !.at = "unlinking"] EXCEPT !.bundle = b]
<1>3. job' = [job EXCEPT ![c] = j] /\ job'[c] = j
    BY <1>1 DEF AInv, Base, IInv, Types
<1>4. j.at = "unlinking" /\ j.target = job[c].target /\ j.val = job[c].val
    BY <1>2 DEF Execution
<1> HIDE DEF j
<1>5. \A a \in Attempts : Lasts(c, a) /\ (Due(c, a) => Due(c, a)')
    BY <1>2, <1>3, <1>4 DEF Lasts, Due, Settled, Outdated, Told
<1>6. Memory' /\ \A a \in Attempts \ pruned' : evidence'[a] = evidence[a]
    BY <1>1, <1>2 DEF AInv, Base, Memory, Terminal
<1> QED  BY <1>1, <1>2, <1>3, <1>5, <1>6, JobContinues

LEMMA WitnessContinues ==
    ASSUME AInv, NEW c \in Calls, Witness(c)
    PROVE  Memory' /\ \A a \in Attempts : Continues(a)
<1> DEFINE k == KeyOf[Own(c)]
<1>1. /\ job[c].at = "witness" /\ job[c] \in Execution /\ job[c].target = None /\ Executions
      /\ UNCHANGED <<outcome, order, evidence, call, sent, acked, unsaved, orphaned, pruned>>
      /\ Memory' /\ k \in Keys
    BY MemoryStays, Values, AttemptsConstants
       DEF Witness, disk, memory, history, AInv, Base, Executions, Shape, IInv, Types
<1>2. CASE claims[k] = c
    <2>1. PICK v \in Verdicts : job' = [job EXCEPT ![c].at = "published", ![c].val = v]
        BY <1>2 DEF Witness, Own
    <2> DEFINE j == [[job[c] EXCEPT !.at = "published"] EXCEPT !.val = v]
    <2>2. job' = [job EXCEPT ![c] = j] /\ job'[c] = j
        BY <2>1 DEF AInv, Base, IInv, Types
    <2>3. j.at = "published" /\ j.target = None
        BY <1>1 DEF Execution
    <2> HIDE DEF j
    <2>4. claims' = [claims EXCEPT ![k] = None]
        BY <1>2 DEF Witness, Own
    <2>5. \A d \in Calls \ {c} : claims'[KeyOf[Own(d)]] = d <=> claims[KeyOf[Own(d)]] = d
        BY <1>1, <1>2, <2>4, Constants, Values, AttemptsConstants DEF Executions
    <2>6. \A a \in Attempts : Lasts(c, a) /\ (Due(c, a) => Due(c, a)')
        BY <1>1, <1>2, <2>2, <2>3, Constants DEF Lasts, Due, Settled, Outdated, Own, Told
    <2> QED  BY <1>1, <2>2, <2>5, <2>6, JobContinues
<1>3. CASE claims[k] # c
    <2> DEFINE j == [job[c] EXCEPT !.at = "ended"]
    <2>1. job' = [job EXCEPT ![c] = j] /\ job'[c] = j /\ claims' = claims
        BY <1>3 DEF Witness, Own, Step, AInv, Base, IInv, Types
    <2>2. j.at = "ended" /\ j.target = None
        BY <1>1 DEF Execution
    <2> HIDE DEF j
    <2>3. \A a \in Attempts : Lasts(c, a) /\ ~Due(c, a)
        BY <1>1, <1>3, <2>1, <2>2, Constants DEF Lasts, Due, Settled, Outdated, Own, Told
    <2> QED  BY <1>1, <2>1, <2>3, QuietJob
<1> QED  BY <1>2, <1>3

\* A claim: the claimant answers for the attempt it took the key from.
LEMMA ClaimContinues ==
    ASSUME AInv, NEW c \in Calls, Claim(c), job[c].at \in {"queued", "analysed"},
           UNCHANGED <<outcome, order, evidence, call, sent, acked, unsaved, orphaned, pruned>>
    PROVE  Memory' /\ \A a \in Attempts : Continues(a)
<1> DEFINE k == KeyOf[Own(c)]
           p == claims[k]
<1>1. /\ IInv /\ Executions /\ Memory' /\ job[c].target = None /\ Own(c) \in Attempts
      /\ k \in Keys /\ ~Claiming(c, job[c])
    BY MemoryStays, Values, AttemptsConstants
       DEF AInv, Base, Executions, Shape, Claiming, Concluding, Told
<1>2. PICK j : /\ job' = [job EXCEPT ![c] = j]
               /\ claims' = [claims EXCEPT ![k] = c]
               /\ \/ j = [NoJob EXCEPT !.at = "witness"]
                     /\ (p \notin Calls \/ Own(p) = Own(c))
                  \/ /\ p \in Calls /\ Own(p) # Own(c)
                     /\ j = [NoJob EXCEPT !.at = "superseding", !.target = Own(p)]
    BY <1>1, ClaimIs
<1>3. /\ job'[c] = j /\ \A d \in Calls \ {c} : job'[d] = job[d]
      /\ claims'[k] = c /\ \A l \in Keys \ {k} : claims'[l] = claims[l]
      /\ p # c
    BY <1>1, <1>2 DEF IInv, Types, Executions
<1>4. p \in Calls => /\ KeyOf[Own(p)] = k /\ Claiming(p, job[p])
                     /\ job[p].target \in Attempts \cup {None}
    BY <1>1 DEF Executions, IInv, Types, Execution
<1> HIDE DEF p
\* What the others will conclude: the previous claimant loses its own attempt.
<1>5. ASSUME NEW a \in Attempts, NEW d \in Calls, d # c
      PROVE  /\ Lasts(d, a)
             /\ Due(d, a) => Due(d, a)' \/ (d = p /\ a = Own(p))
             /\ d = p /\ a = Own(p) /\ Due(d, a)' => job[p].target = a
    <2>1. KeyOf[Own(d)] \in Keys
        BY Values, AttemptsConstants
    <2>2. claims'[KeyOf[Own(d)]] = d => claims[KeyOf[Own(d)]] = d
        BY <1>3, <1>5, <2>1
    <2>3. claims[KeyOf[Own(d)]] = d => claims'[KeyOf[Own(d)]] = d \/ d = p
        BY <1>3, <1>5, <2>1 DEF p
    <2>4. job'[d] = job[d]
        BY <1>3, <1>5
    <2>5. Lasts(d, a)
        BY <2>2, <2>4 DEF Lasts, Due, Settled, Outdated, Own
    <2>6. Due(d, a) => Due(d, a)' \/ (d = p /\ a = Own(p))
        BY <2>3, <2>4 DEF Due, Outdated, Own
    <2>7. d = p /\ a = Own(p) /\ Due(d, a)' => job[p].target = a
        <3> SUFFICES ASSUME d = p, a = Own(p), Due(d, a)'  PROVE job[p].target = a
            OBVIOUS
        <3>1. Claiming(p, job[p]) /\ KeyOf[Own(p)] = k /\ p \in Calls
            BY <1>4
        <3>2. claims'[KeyOf[AttemptOf[p]]] # p
            BY <1>3, <3>1 DEF Own
        <3>3. /\ job[p].at = "witness" => job[p].target = None
              /\ job[p].at \in Concluding \cup {"superseding"} => job[p].target \in Attempts
            BY <1>1, <3>1 DEF Executions, Shape
        <3>4. job[p].at = "witness" \/ job[p].target \notin {None, Own(p)}
            BY <3>1, <3>3, Constants DEF Claiming
        <3> QED  BY <2>4, <3>2, <3>4 DEF Due, Outdated, Own
    <2> QED  BY <2>5, <2>6, <2>7
<1>6. CASE p \notin Calls \/ Own(p) = Own(c)
    <2>1. j.at = "witness" /\ j.target = None
        BY <1>2, <1>6 DEF NoJob
    <2>2. \A a \in Attempts : Lasts(c, a) /\ (Due(c, a) => Due(c, a)') /\ (a = Own(c) => Due(c, a)')
        BY <1>1, <1>3, <2>1, Constants DEF Lasts, Due, Settled, Outdated, Own, Told
    <2>3. ASSUME NEW a \in Attempts PROVE Continues(a)
        <3>1. \A d \in Calls : Lasts(d, a)
            BY <1>5, <2>2
        <3>2. \A d \in Calls : Due(d, a) => \E e \in Calls : Due(e, a)'
            BY <1>5, <1>6, <2>2
        <3>3. Calm(a) /\ Account(a)
            BY DEF Calm, Begun, AInv
        <3> QED  BY <3>1, <3>2, <3>3, AccountFrame
    <2> QED  BY <1>1, <2>3
<1>7. CASE p \in Calls /\ Own(p) # Own(c)
    <2>0. PICK q \in Attempts : q = Own(p)
        BY <1>7, Values
    <2>1. j.at = "superseding" /\ j.target = q /\ q = Own(p)
        BY <1>2, <1>7, <2>0 DEF NoJob
    <2>2. /\ \A a \in Attempts : a # q => Lasts(c, a) /\ (Due(c, a) => Due(c, a)')
          /\ Due(c, q)' /\ ~Settled(c, q)'
        BY <1>1, <1>3, <1>7, <2>1, Constants DEF Lasts, Due, Settled, Outdated, Own, Told
    <2>3. ASSUME NEW a \in Attempts, a # q PROVE Continues(a)
        <3>1. \A d \in Calls : Lasts(d, a) /\ (Due(d, a) => Due(d, a)')
            BY <1>5, <2>1, <2>2, <2>3
        <3>2. Calm(a) /\ Account(a)
            BY DEF Calm, Begun, AInv
        <3> QED  BY <3>1, <3>2, AccountFrame
    <2>4. Awaited(q)'
        BY <2>2 DEF Awaited
    <2>5. ASSUME q \notin pruned  PROVE Story(q)' /\ Final(q)
        <3>1. Story(q)
            BY <2>1, <2>5 DEF AInv, Account
        <3>2. /\ Due(p, q) /\ ~Settled(p, q) /\ job[p].target # q
            <4>1. claims[KeyOf[AttemptOf[p]]] = p
                BY <1>4, <1>7 DEF p, Own
            <4>2. job[p].target # q /\ job[p].at \notin {"none", "ended"}
                <5>1. job[p].at = "witness" => job[p].target = None
                    BY <1>1, <1>7 DEF Executions, Shape
                <5> QED  BY <1>4, <1>7, <2>1, <5>1, Constants DEF Claiming, Concluding, Told
            <4> QED  BY <1>7, <2>1, <4>1, <4>2 DEF Due, Settled, Outdated, Own
        <3>3. evidence[q] = None /\ outcome[q] = "pending" /\ Dispatched(q)
            BY <1>7, <3>1, <3>2 DEF Story, Pending, Untold
        <3>4. ASSUME NEW d \in Calls, Due(d, q)'  PROVE d = c
            <4> SUFFICES ASSUME d # c PROVE FALSE
                OBVIOUS
            <4>1. Due(d, q)
                BY <1>5, <2>1, <3>4 DEF Lasts
            <4>2. d = p
                BY <1>7, <3>1, <3>2, <4>1 DEF Story, OneExecutor
            <4> QED  BY <1>5, <2>1, <3>2, <3>4, <4>2
        <3>5. OneExecutor(q)' /\ Pending(q)' /\ LookedUp(q)'
            BY <2>2, <3>3, <3>4 DEF OneExecutor, Pending, LookedUp
        <3>6. Untold(q)'
            BY <3>3 DEF Untold, Dispatched
        <3>7. Durable(q)' /\ Known(q)' /\ Final(q)
            BY <3>3, Values DEF Durable, Known, Final, Readable, Terminal
        <3> QED  BY <3>5, <3>6, <3>7 DEF Story
    <2>6. Continues(q)
        BY <2>4, <2>5 DEF Continues, Account
    <2> QED  BY <1>1, <2>3, <2>6
<1> QED  BY <1>6, <1>7

\* The bundle is written, or could not be: the outcome still says pending.
LEMMA PersistContinues ==
    ASSUME AInv, NEW c \in Calls, Persist(c)
    PROVE  Memory' /\ \A a \in Attempts : Continues(a)
<1>0. PICK t : t = job[c].target
    OBVIOUS
<1>1. /\ job[c].at = "concluded" /\ job[c] \in Execution /\ t \in Attempts /\ IInv /\ Executions
      /\ job[c].val \in Conclusion /\ Memory /\ Account(t)
      /\ UNCHANGED <<claims, outcome, order, call, sent, acked, orphaned, pruned>>
    <2>1. job[c].at = "concluded" /\ job[c] \in Execution /\ IInv /\ Executions /\ Memory
        BY DEF Persist, AInv, Base, IInv, Types
    <2>2. t \in Attempts /\ job[c].val # None
        BY <1>0, <2>1 DEF Executions, Shape, Concluding
    <2>3. job[c].val \in Conclusion
        BY <2>1, <2>2 DEF Execution, Conclusion
    <2> QED  BY <2>1, <2>2, <2>3 DEF Persist, memory, AInv
<1>2. Due(c, t) /\ ~Settled(c, t)
    BY <1>0, <1>1 DEF Due, Settled, Told
<1>3. \E j : /\ job' = [job EXCEPT ![c] = j] /\ job'[c] = j /\ j.target = t
             /\ \/ /\ j.at = "pruning" /\ j.val = job[c].val
                   /\ evidence' = [evidence EXCEPT ![t] = j.val] /\ unsaved' = unsaved
                \/ /\ j.at = "remembering" /\ j.val # "passed"
                   /\ evidence' = evidence /\ unsaved' = unsaved \cup {t}
    <2>1. CASE evidence' = [evidence EXCEPT ![t] = job[c].val] /\ Step(c, "pruning") /\ unsaved' = unsaved
        <3> DEFINE j == [job[c] EXCEPT !.at = "pruning"]
        <3>1. job' = [job EXCEPT ![c] = j] /\ job'[c] = j
            BY <1>1, <2>1 DEF Step, IInv, Types
        <3>2. j.at = "pruning" /\ j.target = t /\ j.val = job[c].val
            BY <1>0, <1>1 DEF Execution
        <3> HIDE DEF j
        <3> QED  BY <2>1, <3>1, <3>2
    <2>2. CASE /\ job' = [job EXCEPT ![c].at = "remembering", ![c].val = Degraded(@)]
               /\ unsaved' = unsaved \cup {t} /\ evidence' = evidence
        <3> DEFINE j == [[job[c] EXCEPT !.at = "remembering"] EXCEPT !.val = Degraded(job[c].val)]
        <3>1. job' = [job EXCEPT ![c] = j] /\ job'[c] = j
            BY <1>1, <2>2 DEF IInv, Types, Execution
        <3>2. j.at = "remembering" /\ j.target = t /\ j.val = Degraded(job[c].val)
            BY <1>0, <1>1 DEF Execution
        <3>3. Degraded(job[c].val) # "passed"
            BY DEF Degraded
        <3> HIDE DEF j
        <3> QED  BY <2>2, <3>1, <3>2, <3>3
    <2> QED  BY <1>0, <2>1, <2>2 DEF Persist
<1>4. PICK j : /\ job' = [job EXCEPT ![c] = j] /\ job'[c] = j /\ j.target = t
               /\ \/ /\ j.at = "pruning" /\ j.val = job[c].val
                     /\ evidence' = [evidence EXCEPT ![t] = j.val] /\ unsaved' = unsaved
                  \/ /\ j.at = "remembering" /\ j.val # "passed"
                     /\ evidence' = evidence /\ unsaved' = unsaved \cup {t}
    BY <1>3
<1>5. Memory'
    <2>1. evidence' \in [Attempts -> Conclusion \cup {None}]
        BY <1>1, <1>4 DEF Memory
    <2> QED  BY <1>1, <2>1 DEF Memory, Terminal
<1>6. \A a \in Attempts, d \in Calls \ {c} : Lasts(d, a) /\ (Due(d, a)' <=> Due(d, a))
    BY <1>1, <1>4, Bystanders
<1>7. /\ \A a \in Attempts : Due(c, a)' <=> Due(c, a)
      /\ \A a \in Attempts \ {t} : ~Settled(c, a) /\ ~Settled(c, a)'
      /\ Settled(c, t)'
    BY <1>0, <1>1, <1>4 DEF Due, Settled, Outdated, Told
<1>8. ASSUME NEW a \in Attempts, a # t PROVE Continues(a)
    <2>1. Calm(a)
        BY <1>1, <1>4, <1>8 DEF Calm, Begun, Memory
    <2>2. \A d \in Calls : Lasts(d, a)
        BY <1>6, <1>7, <1>8 DEF Lasts
    <2>3. Account(a) /\ \A d \in Calls : Due(d, a) => Due(d, a)'
        BY <1>6, <1>7 DEF AInv
    <2> QED  BY <1>1, <2>1, <2>2, <2>3, AccountFrame
<1>9. ASSUME t \notin pruned  PROVE Story(t)' /\ Final(t)
    <2>1. Story(t)
        BY <1>1, <1>9 DEF Account
    <2>2. evidence[t] = None /\ outcome[t] = "pending" /\ outcome'[t] = "pending" /\ Dispatched(t)
        BY <1>1, <1>2, <2>1 DEF Story, Pending, Untold
    <2>3. \A d \in Calls : Due(d, t)' => d = c
        BY <1>1, <1>2, <1>6, <2>1 DEF Story, OneExecutor
    <2>4. \/ evidence'[t] = job'[c].val
          \/ /\ evidence'[t] = None /\ t \in unsaved'
             /\ job'[c].at = "remembering" /\ job'[c].val # "passed"
        BY <1>1, <1>4, <2>2 DEF Memory
    <2>5. OneExecutor(t)' /\ Pending(t)' /\ LookedUp(t)'
        BY <1>7, <2>2, <2>3, <2>4 DEF OneExecutor, Pending, LookedUp
    <2>6. Untold(t)'
        BY <1>1, <2>2 DEF Untold, Dispatched
    <2>7. Durable(t)' /\ Known(t)' /\ Final(t)
        BY <2>2, Values DEF Durable, Known, Final, Readable, Terminal
    <2> QED  BY <2>5, <2>6, <2>7 DEF Story
<1>10. Continues(t)
    <2>1. Awaited(t)'
        BY <1>1, <1>2, <1>7 DEF Awaited
    <2> QED  BY <1>1, <1>9, <2>1 DEF Continues, Account
<1> QED  BY <1>5, <1>8, <1>10

\* The conclusion is remembered, and nobody else was to conclude the attempt.
LEMMA ConcludeContinues ==
    ASSUME AInv, NEW c \in Calls, Conclude(c)
    PROVE  Memory' /\ \A a \in Attempts : Continues(a)
<1>0. PICK t : t = job[c].target
    OBVIOUS
<1>1. /\ job[c].at = "remembering" /\ t \in Attempts /\ IInv /\ Memory /\ Account(t)
      /\ job[c].val \in Conclusion /\ Remember(t, job[c].val)
      /\ UNCHANGED <<claims, evidence, call, sent, acked, unsaved, orphaned, pruned>>
    <2>1. job[c].at = "remembering" /\ job[c] \in Execution /\ IInv /\ Executions /\ Memory
        BY DEF Conclude, AInv, Base, IInv, Types
    <2>2. t \in Attempts /\ job[c].val # None
        BY <1>0, <2>1 DEF Executions, Shape, Concluding, Told
    <2>3. job[c].val \in Conclusion
        BY <2>1, <2>2 DEF Execution, Conclusion
    <2> QED  BY <1>0, <2>1, <2>2, <2>3 DEF Conclude, disk, history, AInv
<1> DEFINE j == [NoJob EXCEPT !.at = IF t = Own(c) THEN "ended" ELSE "witness"]
<1>2. job' = [job EXCEPT ![c] = j] /\ job'[c] = j
    BY <1>0, <1>1 DEF Conclude, Own, IInv, Types
<1>3. j.target = None /\ j.at = IF t = Own(c) THEN "ended" ELSE "witness"
    BY DEF NoJob
<1> HIDE DEF j
<1>4. /\ Memory' /\ outcome'[t] = job[c].val
      /\ \A a \in Attempts \ {t} : \/ outcome'[a] = outcome[a]
                                   \/ outcome'[a] = None /\ Terminal(outcome[a])
    BY <1>1, RememberIs
<1>5. \A a \in Attempts, d \in Calls \ {c} : Lasts(d, a) /\ (Due(d, a)' <=> Due(d, a))
    BY <1>1, <1>2, Bystanders
<1>6. /\ Due(c, t) /\ Settled(c, t) /\ ~Due(c, t)'
      /\ \A a \in Attempts \ {t} : /\ Due(c, a)' <=> Due(c, a)
                                   /\ ~Settled(c, a) /\ ~Settled(c, a)'
    BY <1>0, <1>1, <1>2, <1>3, Constants DEF Due, Settled, Outdated, Told, Own
<1>7. ASSUME NEW a \in Attempts, a # t PROVE Continues(a)
    <2>1. Calm(a)
        BY <1>1, <1>4, <1>7 DEF Calm, Begun
    <2>2. \A d \in Calls : Lasts(d, a)
        BY <1>5, <1>6, <1>7 DEF Lasts
    <2>3. Account(a) /\ \A d \in Calls : Due(d, a) => Due(d, a)'
        BY <1>5, <1>6, <1>7 DEF AInv
    <2> QED  BY <1>1, <2>1, <2>2, <2>3, AccountFrame
<1>8. ASSUME t \notin pruned  PROVE Story(t)' /\ Final(t)
    <2>1. Story(t)
        BY <1>1, <1>8 DEF Account
    <2>2. \/ evidence[t] = job[c].val /\ outcome[t] \in {"pending", None, job[c].val}
          \/ /\ evidence[t] = None /\ outcome[t] = "pending" /\ t \in unsaved
             /\ job[c].val # "passed"
        BY <1>6, <2>1 DEF Story, Pending
    <2>3. Dispatched(t)
        BY <1>6, <2>1 DEF Story, Untold
    <2>4. \A d \in Calls : ~Due(d, t)'
        BY <1>1, <1>5, <1>6, <2>1 DEF Story, OneExecutor
    <2>5. OneExecutor(t)' /\ Pending(t)' /\ LookedUp(t)'
        BY <2>4 DEF OneExecutor, Pending, LookedUp
    <2>6. Untold(t)'
        BY <1>1, <2>3 DEF Untold, Dispatched
    <2>7. Durable(t)' /\ Known(t)'
        BY <1>1, <1>4, <2>2, Values DEF Durable, Known, Readable
    <2>8. Final(t)
        BY <1>1, <1>4, <2>2, Values DEF Final, Readable, Terminal
    <2> QED  BY <2>5, <2>6, <2>7, <2>8 DEF Story
<1>9. Continues(t)
    <2>1. outcome'[t] # "pending"
        BY <1>1, <1>4, Values
    <2> QED  BY <1>1, <1>8, <2>1 DEF Continues, Account, Awaited
<1> QED  BY <1>4, <1>7, <1>9

LEMMA JobStep ==
    ASSUME AInv, NEW c \in Calls, Job(c)
    PROVE  Memory' /\ \A a \in Attempts : Continues(a)
<1>1. CASE Emit(c)
    <2>1. PICK v \in Verdicts : job' = [job EXCEPT ![c].at = "published", ![c].val = v]
        BY <1>1 DEF Emit
    <2> DEFINE j == [[job[c] EXCEPT !.at = "published"] EXCEPT !.val = v]
    <2>2. /\ job[c].at = "analysed" /\ job[c] \in Execution /\ job[c].target = None
          /\ job' = [job EXCEPT ![c] = j]
          /\ UNCHANGED <<claims, outcome, order, evidence, call, sent, acked, unsaved, orphaned,
                         pruned>>
        BY <1>1, <2>1 DEF Emit, disk, memory, history, AInv, Base, Executions, Shape, IInv, Types
    <2>3. j.at = "published" /\ j.target = None
        BY <2>2 DEF Execution
    <2> HIDE DEF j
    <2> QED  BY <2>2, <2>3, EarlyJob
<1>2. CASE Escalate(c)
    <2>1. /\ Claim(c) /\ job[c].at = "analysed"
          /\ UNCHANGED <<outcome, order, evidence, call, sent, acked, unsaved, orphaned, pruned>>
        BY <1>2 DEF Escalate, disk, memory, history
    <2> QED  BY <2>1, ClaimContinues
<1>3. CASE Unlink(c) \/ PruneEnds(c)
    <2>1. /\ job[c].at \in {"pruning", "unlinking"}
          /\ \E stage \in Told : Step(c, stage)
          /\ UNCHANGED <<claims, outcome, order, evidence, call, sent, acked, unsaved, orphaned,
                         pruned>>
        BY <1>3 DEF Unlink, PruneEnds, disk, memory, history, Told
    <2> QED  BY <2>1, TellingContinues
<1> QED  BY <1>1, <1>2, <1>3, WitnessContinues, FinishContinues, SupersedeContinues,
            PersistContinues, PruneContinues, ConcludeContinues DEF Job

\* The process dies: what is on disk is what is known.
LEMMA RestartContinues ==
    ASSUME AInv, Restart
    PROVE  Memory' /\ \A a \in Attempts : Continues(a)
<1>1. /\ outcome' = [a \in Attempts |-> None] /\ order' = <<>> /\ acked' = {}
      /\ job' = [c \in Calls |-> NoJob]
      /\ UNCHANGED <<evidence, sent, pruned, unsaved>>
      /\ \A c \in Calls : call'[c] \notin Locking
    BY DEF Restart, disk, Locking
<1>2. Memory'
    <2>1. order' \in Seq(Attempts) /\ DOMAIN order' = {}
        BY <1>1
    <2>2. IsInjective(order') /\ \A b \in ToSet(order') : Terminal(outcome'[b])
        BY <2>1 DEF IsInjective, ToSet
    <2> QED  BY <1>1, <2>1, <2>2 DEF AInv, Base, Memory
<1>3. ASSUME NEW a \in Attempts PROVE Continues(a)
    <2>1. outcome'[a] = None /\ \A c \in Calls : ~Due(c, a)'
        BY <1>1, <1>3, Constants DEF Due, NoJob
    <2>2. ~Begins(a)' /\ (Dispatched(a)' <=> Dispatched(a))
        BY <1>1 DEF Begins, Begun, Locking, Dispatched
    <2>3. ASSUME a \notin pruned  PROVE Story(a)' /\ Final(a)
        <3>1. Story(a)
            BY <1>3, <2>3 DEF AInv, Account
        <3>2. Untold(a)' /\ OneExecutor(a)' /\ Pending(a)' /\ LookedUp(a)'
            BY <1>1, <2>1, <2>2, <3>1
               DEF Story, Untold, OneExecutor, Pending, LookedUp
        <3>3. Durable(a)' /\ Known(a)'
            BY <1>1, <2>1 DEF Durable, Known, Terminal, Locking
        <3>4. Final(a)
            BY <1>1, <2>1, <3>1 DEF Story, Durable, Final, Readable, Terminal
        <3> QED  BY <3>2, <3>3, <3>4 DEF Story
    <2> QED  BY <1>1, <2>1, <2>3, Values DEF Continues, Account, Awaited
<1> QED  BY <1>2, <1>3

LEMMA TakeContinues ==
    ASSUME AInv, Take
    PROVE  Memory' /\ \A a \in Attempts : Continues(a)
<1>1. /\ queue # <<>> /\ IInv /\ Executions /\ Memory'
      /\ UNCHANGED <<claims, outcome, order, evidence, call, sent, acked, unsaved, orphaned,
                     pruned>>
    BY MemoryStays DEF Take, disk, memory, history, AInv, Base
<1>2. Head(queue) = queue[1] /\ 1 \in DOMAIN queue /\ queue[1] \in Calls \cup {Legacy}
    BY <1>1, TailPositions DEF Executions
<1>3. CASE Head(queue) = Legacy
    <2>1. job' = job
        BY <1>3 DEF Take
    <2>2. ASSUME NEW a \in Attempts PROVE Continues(a)
        <3>1. Calm(a) /\ Account(a)
            BY <1>1 DEF Calm, Begun, AInv
        <3> QED  BY <1>1, <2>1, <3>1, WorkStays, AccountFrame
    <2> QED  BY <1>1, <2>2
<1>4. CASE Head(queue) # Legacy
    <2>1. PICK h \in Calls : h = Head(queue)
        BY <1>2, <1>4
    <2> DEFINE j == [job[h] EXCEPT !.at = "analysed"]
    <2>2. job[h].at = "queued" /\ job[h] \in Execution /\ job[h].target = None
        BY <1>1, <1>2, <1>4, <2>1 DEF Executions, Shape, IInv, Types
    <2>3. job' = [job EXCEPT ![h] = j]
        BY <1>1, <1>4, <2>1 DEF Take, Step, IInv, Types
    <2>4. j.at = "analysed" /\ j.target = None
        BY <2>2 DEF Execution
    <2> HIDE DEF j
    <2> QED  BY <1>1, <2>2, <2>3, <2>4, EarlyJob
<1> QED  BY <1>3, <1>4

LEMMA DispatchGateContinues ==
    ASSUME AInv, DispatchGate
    PROVE  Memory' /\ \A a \in Attempts : Continues(a)
<1>1. /\ gateQ # <<>> /\ Executions /\ Claim(Head(gateQ))
      /\ UNCHANGED <<outcome, order, evidence, call, sent, acked, unsaved, orphaned, pruned>>
    BY DEF DispatchGate, disk, memory, history, AInv, Base
<1>2. Head(gateQ) = gateQ[1] /\ 1 \in DOMAIN gateQ /\ gateQ[1] \in Calls
    BY <1>1, TailPositions DEF Executions
<1>3. PICK h \in Calls : h = Head(gateQ)
    BY <1>2
<1>4. job[h].at = "queued" /\ Claim(h)
    BY <1>1, <1>2, <1>3 DEF Executions
<1> QED  BY <1>1, <1>4, ClaimContinues

\* A nameless gate push: the attempt it took the key from is on its own.
LEMMA LegacyContinues ==
    ASSUME AInv, NEW k \in Keys, LegacyGate(k) \/ LegacyEnds(k)
    PROVE  Memory' /\ \A a \in Attempts : Continues(a)
<1>1. /\ Executions /\ Memory'
      /\ UNCHANGED <<job, outcome, order, evidence, call, sent, acked, unsaved, pruned>>
      /\ orphaned \subseteq orphaned'
      /\ \E v \in {Legacy, None} : claims' = [claims EXCEPT ![k] = v]
      /\ claims[k] \in Calls => Own(claims[k]) \in orphaned'
    BY MemoryStays, Values
       DEF LegacyGate, LegacyEnds, disk, memory, history, AInv, Base, Own
<1>2. \A l \in Keys : /\ claims'[l] \in Calls => claims'[l] = claims[l]
                      /\ claims[l] \in Calls => claims'[l] = claims[l] \/ l = k
    BY <1>1, Values, Constants DEF Executions
<1>3. ASSUME NEW a \in Attempts PROVE Continues(a)
    <2>1. Calm(a) /\ Account(a)
        BY <1>1 DEF Calm, Begun, AInv
    <2>2. \A d \in Calls : KeyOf[Own(d)] \in Keys
        BY Values, AttemptsConstants
    <2>3. ASSUME NEW d \in Calls PROVE Lasts(d, a)
        BY <1>1, <1>2, <2>2 DEF Lasts, Due, Settled, Outdated, Own
    <2>4. ASSUME NEW d \in Calls, Due(d, a), a \notin orphaned'  PROVE Due(d, a)'
        <3>1. claims[KeyOf[Own(d)]] = d => claims'[KeyOf[Own(d)]] = d \/ Own(d) \in orphaned'
            BY <1>1, <1>2, <2>2
        <3> QED  BY <1>1, <2>4, <3>1 DEF Due, Outdated, Own
    <2> QED  BY <1>1, <2>1, <2>3, <2>4, AccountFrame
<1> QED  BY <1>1, <1>3

-----------------------------------------------------------------------------
(* The invariant and the theorems.                                         *)

LEMMA StoryStep ==
    ASSUME AInv, [Next]_vars
    PROVE  Memory' /\ \A a \in Attempts : Continues(a)
<1>1. CASE LegacyPush \/ UNCHANGED vars
    <2>1. UNCHANGED <<job, claims, outcome, order, evidence, call, sent, acked, unsaved,
                      orphaned, pruned>>
        BY <1>1 DEF LegacyPush, vars, disk, memory, work, history
    <2>2. ASSUME NEW a \in Attempts PROVE Continues(a)
        <3>1. Calm(a) /\ Account(a)
            BY <2>1 DEF Calm, Begun, AInv
        <3> QED  BY <2>1, <3>1, WorkStays, AccountFrame
    <2> QED  BY <2>1, <2>2, MemoryStays DEF AInv, Base
<1> QED  BY <1>1, HttpContinues, JobStep, TakeContinues, DispatchGateContinues,
            LegacyContinues, RestartContinues DEF Next

LEMMA InitAInv == Init => AInv
<1> SUFFICES ASSUME Init PROVE AInv
    OBVIOUS
<1>1. IInv
    BY InitIInv
<1>2. Clerks
    BY DEF Init, Clerks, Locking
<1>3. Executions
    <2>1. queue \in Seq(Calls \cup {Legacy}) /\ gateQ \in Seq(Calls)
          /\ DOMAIN queue = {} /\ DOMAIN gateQ = {}
        BY DEF Init
    <2>2. \A c \in Calls : Shape(c, job[c]) /\ job[c] = NoJob
        BY DEF Init, Shape, NoJob, Concluding, Told
    <2>3. claims \in [Keys -> Calls \cup {Legacy, None}] /\ \A k \in Keys : claims[k] \notin Calls
        BY Constants DEF Init
    <2> QED  BY <2>1, <2>2, <2>3 DEF Executions
<1>4. Memory
    <2>1. order \in Seq(Attempts) /\ DOMAIN order = {}
        BY DEF Init
    <2>2. IsInjective(order) /\ \A b \in ToSet(order) : Terminal(outcome[b])
        BY <2>1 DEF IsInjective, ToSet
    <2> QED  BY <2>1, <2>2 DEF Init, Memory
<1>5. ASSUME NEW a \in Attempts PROVE Account(a)
    <2>1. /\ outcome[a] = None /\ evidence[a] = None /\ a \notin acked
          /\ \A c \in Calls : ~Due(c, a) /\ call[c] = "new" /\ c \notin sent
        BY Constants DEF Init, Due, NoJob
    <2>2. ~Begins(a) /\ ~Dispatched(a)
        BY <2>1 DEF Begins, Begun, Dispatched
    <2> QED  BY <2>1, <2>2, Values
         DEF Account, Awaited, Story, Untold, OneExecutor, Pending, Durable, LookedUp, Known,
             Terminal
<1> QED  BY <1>1, <1>2, <1>3, <1>4, <1>5 DEF AInv, Base

LEMMA AlwaysAInv == Spec => []AInv
<1>1. AInv /\ [Next]_vars => AInv'
    <2> SUFFICES ASSUME AInv, [Next]_vars PROVE AInv'
        OBVIOUS
    <2>1. IInv' /\ Clerks' /\ Executions' /\ Memory'
        BY NextKeeps, ClerksStep, ExecutionsStep, StoryStep DEF AInv, Base
    <2>2. \A a \in Attempts : Account(a)'
        BY StoryStep DEF Continues
    <2> QED  BY <2>1, <2>2 DEF AInv, Base
<1> QED  BY <1>1, InitAInv, PTL DEF Spec

\* Only attempts that a call submits are acknowledged.
LEMMA AckedAttempts == Spec => [](acked \subseteq Attempts)
<1>1. Init => acked \subseteq Attempts
    BY DEF Init
<1>2. acked \subseteq Attempts /\ [Next]_vars => (acked \subseteq Attempts)'
    <2> SUFFICES ASSUME acked \subseteq Attempts, [Next]_vars PROVE acked' \subseteq Attempts
        OBVIOUS
    <2>1. ASSUME NEW c \in Calls, Http(c) PROVE acked' \in {acked, acked \cup {AttemptOf[c]}}
        BY <2>1 DEF Http, Reserve, ReadEvidence, ReadMemory, Refuse, Begin, Accept, SendGate,
           Enqueue, Ack, Rollback, history
    <2>2. ASSUME NEW c \in Calls, Job(c) PROVE acked' = acked
        BY <2>2 DEF Job, Emit, Escalate, Witness, Finish, Supersede, Persist, Prune, Unlink,
           PruneEnds, Conclude, history
    <2>3. ASSUME \/ LegacyPush \/ Take \/ DispatchGate \/ Restart \/ UNCHANGED vars
                 \/ \E k \in Keys : LegacyGate(k) \/ LegacyEnds(k)
          PROVE  acked' \in {acked, {}}
        BY <2>3 DEF LegacyPush, Take, DispatchGate, Restart, LegacyGate, LegacyEnds, vars,
           history
    <2> QED  BY <2>1, <2>2, <2>3, Constants DEF Next
<1> QED  BY <1>1, <1>2, PTL DEF Spec

\* AckedIsKnown holds in every state: an acknowledged attempt can be read
\* until its evidence expires, and whatever is pending will be concluded by
\* an execution or a call that is still under way.
THEOREM AcksAreHonoured == Spec => []AckedIsKnown
<1>1. AInv /\ acked \subseteq Attempts => AckedIsKnown
    <2> SUFFICES ASSUME AInv, acked \subseteq Attempts PROVE AckedIsKnown
        OBVIOUS
    <2>1. ASSUME NEW a \in acked \ (pruned \cup unsaved) PROVE Readable(a) # None
        BY <2>1 DEF AInv, Account, Story, Known
    <2>2. ASSUME NEW a \in Attempts \ orphaned, outcome[a] = "pending" PROVE Live(a)
        <3>1. Begins(a) \/ \E c \in Calls : Due(c, a)
            BY <2>2 DEF AInv, Account, Awaited
        <3> QED  BY <3>1 DEF Begins, Begun, Due, Live, Own
    <2> QED  BY <2>1, <2>2 DEF AckedIsKnown
<1> QED  BY <1>1, AlwaysAInv, AckedAttempts, PTL

\* What makes a client give an attempt up, and what still runs for it then.
LEMMA GivenUp ==
    ASSUME AInv, NEW c \in Calls, Reserve(c) \/ ReadMemory(c), At(c, "abandoned"), ~Expired(c)
    PROVE  ~Live(Own(c))
<1> DEFINE b == Own(c)
<1>1. b \in Attempts /\ Account(b) /\ Story(b)
    BY Values DEF AInv, Account, Expired, Own
<1>2. \A d \in Calls : Own(d) = b => ~Admitting(d)
    <2>1. CASE Reserve(c)
        BY <2>1, Constants DEF Reserve, AInv, Base, Clerks, Locking, Admitting
    <2>2. CASE ReadMemory(c)
        <3>1. call[c] = "missing" /\ \A d \in Calls \ {c} : call[d] \notin Locking
            BY <2>2, Alone DEF ReadMemory, Locking
        <3> QED  BY <3>1 DEF Admitting, Locking
    <2> QED  BY <2>1, <2>2
<1>3. \A d \in Calls : ~Due(d, b)
    <2>1. CASE Reserve(c)
        <3>1. call[c] = "new" /\ call'[c] = "abandoned"
            BY <2>1 DEF Reserve, At, AInv, Base, IInv, Types
        <3>2. admission[b] # None /\ ~admission[b].accepted
            BY <2>1, <3>1 DEF Reserve, At, AInv, Base, IInv, Types, Own
        <3>3. ~Dispatched(b)
            BY <3>2 DEF Dispatched, AInv, Base, Clerks, Expired, Own
        <3> QED  BY <1>1, <3>3 DEF Story, Untold
    <2>2. CASE ReadMemory(c)
        <3>1. call[c] = "missing" /\ call'[c] = "abandoned"
            BY <2>2 DEF ReadMemory, At, AInv, Base, IInv, Types
        <3>2. outcome[b] = None
            BY <2>2, <3>1 DEF ReadMemory, Return, At, AInv, Base, IInv, Types, Own
        <3> QED  BY <1>1, <3>1, <3>2, Values DEF Story, LookedUp
    <2> QED  BY <2>1, <2>2
<1> QED  BY <1>2, <1>3 DEF Live, Due, Admitting, Own

\* AbandonedIsDead holds of every step: a client is told to go on with a
\* successor only when nothing is left that executes or concludes the attempt
\* it gives up.
THEOREM GivesUpTheDead == Spec => AbandonedIsDead
<1>1. AInv /\ [Next]_vars =>
          [\A c \in Calls : call[c] # "abandoned" /\ call'[c] = "abandoned"
              => ~Live(AttemptOf[c]) \/ AttemptOf[c] \in pruned]_vars
    <2> SUFFICES ASSUME AInv, [Next]_vars, NEW c \in Calls,
                        call[c] # "abandoned", call'[c] = "abandoned"
                 PROVE  ~Live(AttemptOf[c]) \/ AttemptOf[c] \in pruned
        OBVIOUS
    <2>1. ASSUME NEW d \in Calls, Http(d)
          PROVE  (Reserve(c) \/ ReadMemory(c)) /\ At(c, "abandoned")
        <3>1. \E stage \in CallStage : At(d, stage)
            BY <2>1 DEF Http, Reserve, ReadEvidence, ReadMemory, Refuse, Begin, Accept,
               SendGate, Enqueue, Ack, Rollback, Return, CallStage
        <3>2. At(d, "abandoned") /\ d = c
            BY <3>1 DEF At, AInv, Base, IInv, Types
        <3>3. ASSUME NEW stage, stage # "abandoned" PROVE ~At(d, stage)
            BY <3>2, <3>3 DEF At, AInv, Base, IInv, Types
        <3>4. Reserve(d) \/ ReadMemory(d)
            BY <2>1, <3>3 DEF Http, ReadEvidence, Refuse, Begin, Accept,
               SendGate, Enqueue, Ack, Rollback, Return
        <3> QED  BY <3>2, <3>4
    <2>2. CASE \E d \in Calls : Http(d)
        BY <2>1, <2>2, GivenUp DEF Expired, Own
    <2>3. CASE Restart
        BY <2>3 DEF Restart
    <2>4. CASE \/ \E d \in Calls : Job(d)
               \/ LegacyPush \/ Take \/ DispatchGate \/ UNCHANGED vars
               \/ \E k \in Keys : LegacyGate(k) \/ LegacyEnds(k)
        <3>1. call' = call
            BY <2>4 DEF Job, Emit, Escalate, Witness, Finish, Supersede, Persist, Prune,
               Unlink, PruneEnds, Conclude, LegacyPush, Take, DispatchGate, LegacyGate,
               LegacyEnds, vars
        <3> QED  BY <3>1
    <2> QED  BY <2>2, <2>3, <2>4 DEF Next
<1> QED  BY <1>1, AlwaysAInv, PTL DEF Spec, AbandonedIsDead

\* TerminalIsFinal holds of every step: what a client once read as the
\* conclusion of its attempt stays, through evictions, late witnesses,
\* successors and crashes, until its evidence expires.
THEOREM ConclusionsStay == Spec => TerminalIsFinal
<1>1. AInv /\ [Next]_vars =>
          [\A a \in Attempts \ pruned' :
              Terminal(Readable(a)) =>
                  \/ Readable(a)' = Readable(a)
                  \/ /\ a \in unsaved /\ Readable(a) # "passed"
                     /\ Readable(a)' = None]_vars
    BY StoryStep DEF Continues, Final
<1> QED  BY <1>1, AlwaysAInv, PTL DEF Spec, TerminalIsFinal
=============================================================================
