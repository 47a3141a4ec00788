-------------------------------- MODULE Session --------------------------------
(***************************************************************************)
(* A watch session (ModelSession): the file system thread forwards batches *)
(* of edits to the current rust-analyzer, the Supervisor keeps one         *)
(* analyzer process running (analyzer.rs: monitor_loop, SuspendHandle,     *)
(* restart through the on_spawn hook), forwarder threads carry what each   *)
(* analyzer says to the Model, whose tree verdict subscribers follow.      *)
(*                                                                         *)
(* Abstractions: there is one source file, and what matters of it is its   *)
(* version; an analyzer process is its spawn number.  A version may be     *)
(* broken for the analyzer's own passes (Native), or only for the cargo    *)
(* check it runs on the disk (Rustc).  Times are left out: a thread that   *)
(* sleeps or polls acts at any later moment.                               *)
(***************************************************************************)
EXTENDS Naturals, Sequences, FiniteSets

CONSTANTS
    MaxEdits,    \* edits of the file
    MaxSpawns,   \* analyzer processes
    MaxEvicts,   \* evictions by idleness
    MaxFailures, \* cargo checks that fail to run
    Native,      \* versions with an error the analyzer sees by itself
    Rustc,       \* versions with an error only cargo check sees
    NativeVerdict   \* CARGOLESS_VERDICT_MODE: ra_native_verdict_mode()

ASSUME SessionConstants ==
    /\ MaxEdits \in Nat /\ MaxEvicts \in Nat /\ MaxFailures \in Nat /\ MaxSpawns \in Nat \ {0}
    /\ Native \subseteq 0..MaxEdits /\ Rustc \subseteq 0..MaxEdits
    /\ NativeVerdict \in BOOLEAN

VARIABLES
    disk,       \* the file
    batch,      \* the watcher holds a debounced batch, or is about to
    fs,         \* where the file system thread is
    taken,      \* the client it took
    child,      \* SupState::child
    mon,        \* where the monitor thread is
    fresh,      \* the process it starts
    suspended,  \* Shared::suspended
    closing,    \* ModelSession::do_shutdown: "no", "joining", "closed"
    current,    \* the LSP client of the watch pipeline
    proc,       \* the life of each analyzer process
    open,       \* the text each analyzer has open
    due,        \* it has a cargo check to start
    run,        \* the version the cargo check it runs has read
    seen,       \* the version of its last cargo check
    owes,       \* it has native diagnostics to publish
    said,       \* what it said and the Model has not applied
    auth,       \* Model: auth of the file
    sentinel,   \* auth of /__cargoless__/flycheck, Red once it is set
    flycheckDone, tree,
    evicts,     \* evictions so far
    failures,   \* failed checks so far
    missed,     \* history: an edit went to a client whose successor had read
    overtaken   \* history: events of an old analyzer applied after a newer's

supVars  == <<child, mon, fresh, suspended, closing>>
fsVars   == <<batch, fs, taken, current>>
raVars   == <<proc, open, due, run, seen, owes, said>>
model    == <<auth, sentinel, flycheckDone, tree>>
histVars == <<missed, overtaken>>
bounds   == <<evicts, failures>>
vars     == <<disk, fsVars, supVars, raVars, model, bounds, histVars>>

-----------------------------------------------------------------------------
None    == 0                    \* no process, no client
Proc    == 1..MaxSpawns
Version == 0..MaxEdits
Unread  == MaxEdits + 1         \* no version at all

Running(n) == proc[n] \in {"alive", "dying"}

Spawned == {n \in Proc : proc[n] # "none"}

\* Supervisor::start_with_hook has brought the first analyzer up; the watch
\* starts after it.
Init ==
    /\ disk = 0 /\ batch = FALSE
    /\ fs = "wait" /\ taken = None
    /\ child = 1 /\ mon = "poll" /\ fresh = None
    /\ suspended = FALSE /\ closing = "no" /\ current = 1
    /\ proc = [n \in Proc |-> IF n = 1 THEN "alive" ELSE "none"]
    /\ open = [n \in Proc |-> IF n = 1 THEN 0 ELSE Unread]
    /\ due = [n \in Proc |-> n = 1]
    /\ run = [n \in Proc |-> Unread] /\ seen = [n \in Proc |-> Unread]
    /\ owes = [n \in Proc |-> FALSE]
    /\ said = [n \in Proc |-> <<>>]
    /\ auth = "none" /\ sentinel = FALSE /\ flycheckDone = FALSE /\ tree = "red"
    /\ evicts = 0 /\ failures = 0 /\ missed = FALSE /\ overtaken = FALSE

-----------------------------------------------------------------------------
(* The user, the watcher and the file system thread.                       *)

Edit ==
    /\ closing = "no" /\ disk < MaxEdits
    /\ disk' = disk + 1
    /\ batch' = TRUE
    /\ UNCHANGED <<fs, taken, current, supVars, raVars, model, bounds, histVars>>

\* A batch is taken; an evicted analyzer is called back first.
TakeBatch ==
    /\ fs = "wait" /\ batch
    /\ batch' = FALSE
    /\ suspended' = FALSE
    /\ fs' = IF suspended THEN "resuming" ELSE "batch"
    /\ UNCHANGED <<disk, taken, current, child, mon, fresh, closing, raVars, model, bounds,
                   histVars>>

\* child_alive() holds, or 35 seconds have passed.
Resumed ==
    /\ fs = "resuming"
    /\ fs' = "batch"
    /\ UNCHANGED <<disk, batch, taken, current, supVars, raVars, model, bounds,
                   histVars>>

TakeClient ==
    /\ fs = "batch"
    /\ fs' = "client" /\ taken' = current
    /\ UNCHANGED <<disk, batch, current, supVars, raVars, model, bounds,
                   histVars>>

\* A process being started that has read the file already and is not yet
\* the current client, or a client taken before it was.
HasReadSuccessor(c) == \E n \in Spawned : n > c /\ open[n] \in Version

Forward_bug ==
    /\ fs = "client"
    /\ LET c == taken IN
         IF c # None /\ proc[c] = "alive"
         THEN /\ open' = [open EXCEPT ![c] = disk]
              /\ owes' = [owes EXCEPT ![c] = TRUE]
              /\ UNCHANGED <<due, missed>>
         ELSE /\ missed' = (missed \/ HasReadSuccessor(c))
              /\ UNCHANGED <<open, due, owes>>
    /\ fs' = "wait" /\ taken' = None
    /\ UNCHANGED <<disk, batch, current, supVars, proc, run, seen, said, model,
                   bounds, overtaken>>

\* The file is read, and didChange and didSave are written to the client; a
\* dead analyzer loses them.
Forward ==
    /\ fs = "client"
    /\ LET c == taken IN
         IF c # None /\ proc[c] = "alive"
         THEN /\ open' = [open EXCEPT ![c] = disk]
              /\ due' = [due EXCEPT ![c] = TRUE]
              /\ owes' = [owes EXCEPT ![c] = TRUE]
              /\ UNCHANGED missed
         ELSE /\ missed' = (missed \/ HasReadSuccessor(c))
              /\ UNCHANGED <<open, due, owes>>
    /\ fs' = "wait" /\ taken' = None
    /\ UNCHANGED <<disk, batch, current, supVars, proc, run, seen, said, model,
                   bounds, overtaken>>

\* SuspendHandle::suspend: the flag, then SIGKILL to a stored child.
Kill(c) == proc' = [n \in Proc |-> IF n = c /\ proc[n] = "alive"
                                   THEN "dying" ELSE proc[n]]

Evict ==
    /\ fs = "wait" /\ ~batch /\ closing = "no"
    /\ ~suspended /\ flycheckDone
    /\ evicts < MaxEvicts /\ evicts' = evicts + 1
    /\ suspended' = TRUE
    /\ Kill(child)
    /\ UNCHANGED <<disk, fsVars, child, mon, fresh, closing, open, due, run,
                   seen, owes, said, model, failures, histVars>>

-----------------------------------------------------------------------------
(* The monitor thread.                                                     *)

\* A dead child is reaped; then the monitor parks while it is suspended.
\* A process that was killed and still runs counts as alive.
Reap_bug ==
    /\ mon = "poll" /\ closing = "no"
    /\ child # None => proc[child] # "alive"
    /\ child' = None
    /\ mon' = "parked"
    /\ UNCHANGED <<disk, fsVars, fresh, suspended, closing, raVars, model,
                   bounds, histVars>>

Reap ==
    /\ mon = "poll" /\ closing = "no"
    /\ child # None => proc[child] = "dead"
    /\ child' = None
    /\ mon' = "parked"
    /\ UNCHANGED <<disk, fsVars, fresh, suspended, closing, raVars, model,
                   bounds, histVars>>

Unpark_bug ==
    /\ mon = "parked"
    /\ ~suspended
    /\ mon' = "backoff"
    /\ UNCHANGED <<disk, fsVars, child, fresh, suspended, closing, raVars,
                   model, bounds, histVars>>

\* The loop of the parked monitor ends with a resume or with the shutdown.
Unpark ==
    /\ mon = "parked"
    /\ ~suspended \/ closing # "no"
    /\ mon' = "backoff"
    /\ UNCHANGED <<disk, fsVars, child, fresh, suspended, closing, raVars,
                   model, bounds, histVars>>

\* After the backoff the process is spawned; an error of the spawn only
\* doubles the backoff.
Spawn ==
    /\ mon = "backoff" /\ closing = "no"
    /\ \E n \in Proc :
         /\ n = Cardinality(Spawned) + 1
         /\ proc' = [proc EXCEPT ![n] = "alive"]
         /\ mon' = "handshake" /\ fresh' = n
    /\ UNCHANGED <<disk, fsVars, child, suspended, closing, open, due, run, seen,
                   owes, said, model, bounds, histVars>>

\* The hook: the handshake, which a process that dies breaks ...
Handshake ==
    /\ mon = "handshake"
    /\ mon' = IF proc[fresh] = "alive" THEN "reading" ELSE "started"
    /\ UNCHANGED <<disk, fsVars, child, fresh, suspended, closing, raVars,
                   model, bounds, histVars>>

\* ... every file is read and opened ...
OpenFiles ==
    /\ mon = "reading"
    /\ open' = [open EXCEPT ![fresh] = disk]
    /\ due' = [due EXCEPT ![fresh] = TRUE]
    /\ owes' = [owes EXCEPT ![fresh] = TRUE]
    /\ mon' = "opened"
    /\ UNCHANGED <<disk, fsVars, child, fresh, suspended, closing, proc, run,
                   seen, said, model, bounds, histVars>>

\* ... and the client becomes the current one.
SwapClient ==
    /\ mon = "opened"
    /\ current' = fresh
    /\ mon' = "started"
    /\ UNCHANGED <<disk, batch, fs, taken, child, fresh, suspended, closing,
                   raVars, model, bounds, histVars>>

\* Only then is the process stored as the child.
Store ==
    /\ mon = "started"
    /\ child' = fresh
    /\ mon' = "poll" /\ fresh' = None
    /\ UNCHANGED <<disk, fsVars, suspended, closing, raVars, model,
                   bounds, histVars>>

\* The shutdown flag is seen: the stored child is killed and waited for.
Stop_bug ==
    /\ closing = "joining" /\ mon \in {"poll", "backoff"}
    /\ mon' = "done"
    /\ UNCHANGED <<disk, fsVars, child, fresh, suspended, closing, raVars,
                   model, bounds, histVars>>

Stop ==
    /\ closing = "joining" /\ mon \in {"poll", "backoff"}
    /\ child' = None
    /\ proc' = [n \in Proc |-> IF n = child THEN "dead" ELSE proc[n]]
    /\ mon' = "done"
    /\ UNCHANGED <<disk, fsVars, fresh, suspended, closing, open, due, run, seen,
                   owes, said, model, bounds, histVars>>

Monitor == \/ Reap \/ Unpark \/ Spawn \/ Handshake \/ OpenFiles
           \/ SwapClient \/ Store \/ Stop

-----------------------------------------------------------------------------
(* ModelSession::do_shutdown.                                              *)

Close ==
    /\ closing = "no"
    /\ closing' = "joining"
    /\ UNCHANGED <<disk, fsVars, child, mon, fresh, suspended, raVars, model, bounds,
                   histVars>>

\* The monitor is joined first, the file system thread last; a batch it has
\* not taken may be dropped with the watcher.
Closed ==
    /\ closing = "joining"
    /\ mon = "done" /\ fs = "wait"
    /\ closing' = "closed"
    /\ batch' = FALSE
    /\ UNCHANGED <<disk, fs, taken, current, child, mon, fresh, suspended,
                   raVars, model, bounds, histVars>>

-----------------------------------------------------------------------------
(* The analyzer processes.                                                 *)

\* A crash, or the memory cap (reap_if_over_cap); its checks end with it.
Dies(n) ==
    /\ proc[n] = "dying" \/ (proc[n] = "alive" /\ n < MaxSpawns)
    /\ proc' = [proc EXCEPT ![n] = "dead"]
    /\ due' = [due EXCEPT ![n] = FALSE] /\ owes' = [owes EXCEPT ![n] = FALSE]
    /\ run' = [run EXCEPT ![n] = Unread] /\ seen' = [seen EXCEPT ![n] = Unread]
    /\ UNCHANGED <<disk, fsVars, supVars, open, said, model, bounds, histVars>>

\* What it shows of the file: its own errors in the text it has open, and
\* those of the last cargo check.
Errs(n, v) == open[n] \in Native \/ v \in Native \cup Rustc

Diagnostics(n, v) == IF Errs(n, v) THEN "red" ELSE "green"

Publish(n) ==
    /\ proc[n] = "alive" /\ owes[n]
    /\ owes' = [owes EXCEPT ![n] = FALSE]
    /\ said' = [said EXCEPT ![n] = Append(@, Diagnostics(n, seen[n]))]
    /\ UNCHANGED <<disk, fsVars, supVars, proc, open, due, run, seen, model,
                   bounds, histVars>>

CheckStarts(n) ==
    /\ proc[n] = "alive" /\ due[n] /\ run[n] = Unread
    /\ due' = [due EXCEPT ![n] = FALSE]
    /\ run' = [run EXCEPT ![n] = disk]
    /\ UNCHANGED <<disk, fsVars, supVars, proc, open, seen, owes, said, model,
                   bounds, histVars>>

CheckEnds(n) ==
    /\ proc[n] = "alive" /\ run[n] # Unread
    /\ run' = [run EXCEPT ![n] = Unread]
    /\ seen' = [seen EXCEPT ![n] = run[n]]
    /\ owes' = [owes EXCEPT ![n] = FALSE]
    /\ said' = [said EXCEPT ![n] =
                   @ \o <<Diagnostics(n, run[n]), "ended">>]
    /\ UNCHANGED <<disk, fsVars, supVars, proc, open, due, model, bounds,
                   histVars>>

\* cargo check itself fails to run: a message says so, or the progress item
\* that ends it.  After the message the end of a pass adds nothing.
CheckFails(n) ==
    /\ proc[n] = "alive" /\ run[n] # Unread
    /\ run' = [run EXCEPT ![n] = Unread]
    /\ failures < MaxFailures /\ failures' = failures + 1
    /\ said' = [said EXCEPT ![n] = Append(@, "failed")]
    /\ UNCHANGED <<disk, fsVars, supVars, proc, open, due, seen, owes, model, evicts,
                   histVars>>

Analyzer(n) == Publish(n) \/ CheckStarts(n) \/ CheckEnds(n) \/ CheckFails(n)

-----------------------------------------------------------------------------
(* The Model: apply_event, reconcile, authoritative_tree.                  *)

Tree(a, failed, done) ==
    IF (done \/ (NativeVerdict /\ a # "none")) /\ a # "red" /\ ~failed
    THEN "green" ELSE "red"

\* A failed check is a diagnostic of a file no analyzer publishes again.
ApplyEvent(ev) ==
    /\ auth' = IF ev \in {"red", "green"} THEN ev ELSE auth
    /\ sentinel' = (sentinel \/ ev = "failed")
    /\ flycheckDone' = (flycheckDone \/ ev \in {"ended", "failed"})
    /\ tree' = Tree(auth', sentinel', flycheckDone')

\* The forwarder of a process is started once its client is current; it
\* outlives the process until the stream is read to its end.
Apply(n) ==
    /\ said[n] # <<>> /\ current >= n
    /\ ApplyEvent(Head(said[n]))
    /\ said' = [said EXCEPT ![n] = Tail(@)]
    /\ overtaken' = (overtaken \/ current > n)
    /\ UNCHANGED <<disk, fsVars, supVars, proc, open, due, run, seen, owes,
                   bounds, missed>>

FsThread == TakeBatch \/ Resumed \/ TakeClient \/ Forward

Next ==
    \/ Edit \/ FsThread \/ Evict
    \/ Monitor
    \/ Close \/ Closed
    \/ \E n \in Proc : Dies(n) \/ Analyzer(n) \/ Apply(n)

Spec == Init /\ [][Next]_vars

(* While a thread, a dying process or a live analyzer can take a step, one  *)
(* of them does: no run of an instance goes on for ever, so nothing more is *)
(* needed.  No fairness for the user, evictions, crashes or the shutdown.   *)
System ==
    \/ FsThread \/ Monitor \/ Closed
    \/ \E n \in Proc : \/ proc[n] = "dying" /\ Dies(n)
                       \/ Analyzer(n) \/ Apply(n)

FairSpec == Spec /\ WF_vars(System)

-----------------------------------------------------------------------------
(* Properties.                                                             *)

TypeOK ==
    /\ disk \in Version /\ batch \in BOOLEAN
    /\ fs \in {"wait", "resuming", "batch", "client"}
    /\ taken \in Proc \cup {None} /\ current \in Proc
    /\ child \in Proc \cup {None} /\ fresh \in Proc \cup {None}
    /\ mon \in {"poll", "parked", "backoff", "handshake", "reading", "opened",
               "started", "done"}
    /\ suspended \in BOOLEAN /\ closing \in {"no", "joining", "closed"}
    /\ proc \in [Proc -> {"none", "alive", "dying", "dead"}]
    /\ open \in [Proc -> Version \cup {Unread}]
    /\ due \in [Proc -> BOOLEAN]
    /\ run \in [Proc -> Version \cup {Unread}]
    /\ seen \in [Proc -> Version \cup {Unread}]
    /\ owes \in [Proc -> BOOLEAN]
    /\ said \in [Proc -> Seq({"red", "green", "ended", "failed"})]
    /\ auth \in {"none", "red", "green"} /\ sentinel \in BOOLEAN
    /\ flycheckDone \in BOOLEAN
    /\ tree \in {"red", "green"}
    /\ evicts \in 0..MaxEvicts /\ failures \in 0..MaxFailures
    /\ missed \in BOOLEAN /\ overtaken \in BOOLEAN

\* Two analyzers never run at once: the next is started after the last was
\* reaped, whether it crashed, was evicted, or is still dying.
OneAnalyzer == \A m, n \in Proc : Running(m) /\ Running(n) => m = n

\* A session that is closed leaves no process behind, also one that was in
\* its handshake when the shutdown began.
NothingOutlives == closing = "closed" => \A n \in Proc : ~Running(n)

\* Nothing is on its way between the disk and the verdict.
AtRest ==
    /\ closing = "no" /\ ~suspended
    /\ ~batch /\ fs = "wait" /\ mon = "poll"
    /\ child # None /\ proc[child] = "alive" /\ child = current
    /\ ~due[child] /\ run[child] = Unread /\ ~owes[child]
    /\ \A n \in Proc : said[n] = <<>>

Truth == IF disk \in Native \cup Rustc THEN "red" ELSE "green"

\* At rest the verdict is that of the file on disk, through crashes and
\* evictions, unless an edit was written to an analyzer whose successor had
\* read the file, or a late forwarder spoke after a newer analyzer.  One check
\* that failed to run, heard from whichever analyzer, and it is red for good.
RestIsTruth == AtRest /\ ~missed /\ ~overtaken =>
    tree = IF sentinel THEN "red" ELSE Truth

\* Every analyzer the instance allows has died.
Exhausted == \A n \in Proc : proc[n] = "dead"

\* Once nothing disturbs it any more, the session comes to rest: a closed one
\* has ended all its threads, an open one has brought an analyzer up and heard
\* it out, or is evicted.
ComesToRest ==
    <>[](\/ AtRest \/ closing = "closed"
         \/ closing = "no" /\ (suspended \/ Exhausted))
=============================================================================
