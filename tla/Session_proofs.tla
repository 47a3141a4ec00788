---------------------------- MODULE Session_proofs ----------------------------
(***************************************************************************)
(* What a watch session keeps for every number of edits, analyzers and     *)
(* evictions, and whichever versions are broken.                           *)
(*                                                                         *)
(* Life says who runs: the stored child, or the process the monitor is     *)
(* bringing up, which is the newest one.  Text, Checks and Talk follow an  *)
(* edit from the disk to the verdict: an analyzer that runs has the file   *)
(* on disk, has checked it and has said so, or something that brings this  *)
(* about is still under way.                                               *)
(***************************************************************************)
EXTENDS Session, FiniteSetTheorems, SequenceTheorems, TLAPS

Word == {"red", "green", "ended", "failed"}
After == {"ended", "failed"}

Booting == mon \in {"handshake", "reading", "opened", "started"}

Numbered == \E k \in Proc : Spawned = 1..k

Life ==
    /\ \A n \in Proc : Running(n) => n = child \/ (Booting /\ n = fresh)
    /\ mon # "poll" => child = None
    /\ child # None => child \in Spawned
    /\ Booting => fresh \in Spawned
    /\ closing = "closed" => mon = "done"

\* Clients are processes that were started; what runs is the newest of them.
Order ==
    /\ Numbered
    /\ current \in Spawned
    /\ fs = "client" => taken \in Spawned
    /\ \A n \in Proc : Running(n) => \A m \in Spawned : m <= n

Unborn == \A n \in Proc : n \notin Spawned =>
    open[n] = Unread /\ seen[n] = Unread /\ said[n] = <<>>

Opened ==
    /\ open[current] \in Version
    /\ mon = "opened" => open[fresh] \in Version

\* An edit is on its way to an analyzer.
Moving == batch \/ fs # "wait"

Reads(n) == proc[n] = "alive" /\ open[n] \in Version

Text == \A n \in Proc :
    Reads(n) /\ ~missed /\ ~Moving => open[n] = disk

\* A check failed to run, and the Model knows it or is to hear it.
Failed == sentinel \/ \E n \in Proc : \E k \in DOMAIN said[n] : said[n][k] = "failed"

Checks == \A n \in Proc :
    Reads(n) /\ ~missed /\ ~Moving /\ ~due[n] /\ ~Failed =>
        IF run[n] = Unread THEN seen[n] = disk
                                 ELSE run[n] = disk

\* All of it leaves the verdict of the file as it is.
AllEnded(s) == \A j \in DOMAIN s : s[j] \in After
LastWord(s, v) ==
    \E k \in DOMAIN s : s[k] = v /\ \A j \in DOMAIN s : j > k => s[j] \in After

\* The last the Model hears of n, or has heard if nothing is on its way.
Heard(n, v) ==
    LastWord(said[n], v) \/ (current = n /\ auth = v /\ AllEnded(said[n]))

Talk == \A n \in Proc :
    Reads(n) /\ seen[n] # Unread /\ ~owes[n] /\ ~overtaken =>
        Heard(n, Diagnostics(n, seen[n]))

Done == \A n \in Proc : seen[n] # Unread =>
    flycheckDone \/ \E k \in DOMAIN said[n] : said[n][k] = "ended"

Follows == tree = Tree(auth, sentinel, flycheckDone)

IInv == TypeOK /\ Life /\ Order /\ Unborn /\ Opened
        /\ Text /\ Checks /\ Talk /\ Done /\ Follows

-----------------------------------------------------------------------------
(* Types.                                                                  *)

LEMMA Constants ==
    /\ MaxEdits \in Nat /\ MaxSpawns \in Nat \ {0} /\ MaxEvicts \in Nat
    /\ None \notin Proc /\ Unread \notin Version /\ Proc \subseteq Nat
BY SessionConstants DEF None, Proc, Unread, Version

LEMMA DiagnosticsType == \A n, v : Diagnostics(n, v) \in {"red", "green"}
BY DEF Diagnostics

LEMMA InitType == Init => TypeOK
<1> SUFFICES ASSUME Init PROVE TypeOK
  OBVIOUS
<1>1. /\ 1 \in Proc /\ 0 \in Version /\ Unread \in Version \cup {Unread}
      /\ 0 \in 0..MaxEvicts /\ 0 \in 0..MaxFailures
  BY SessionConstants DEF Proc, Version
<1>2. /\ proc \in [Proc -> {"none", "alive", "dying", "dead"}]
      /\ due \in [Proc -> BOOLEAN] /\ owes \in [Proc -> BOOLEAN]
  BY DEF Init
<1>3. /\ open \in [Proc -> Version \cup {Unread}]
      /\ run \in [Proc -> Version \cup {Unread}]
      /\ seen \in [Proc -> Version \cup {Unread}]
  BY <1>1 DEF Init
<1>4. said \in [Proc -> Seq({"red", "green", "ended", "failed"})]
  <2>1. <<>> \in Seq({"red", "green", "ended", "failed"})
    BY EmptySeq
  <2> QED  BY <2>1 DEF Init
<1> QED  BY <1>1, <1>2, <1>3, <1>4 DEF Init, TypeOK

LEMMA TypeStep == TypeOK /\ Life /\ [Next]_vars => TypeOK'
<1> SUFFICES ASSUME TypeOK, Life, [Next]_vars PROVE TypeOK'
  OBVIOUS
<1> USE DEF TypeOK, fsVars, supVars, raVars, model, bounds, histVars
<1>1. CASE Edit
  BY <1>1, SessionConstants DEF Edit, Version
<1>2. CASE TakeBatch
  <2>1. fs' \in {"wait", "resuming", "batch", "client"}
    BY <1>2 DEF TakeBatch
  <2>2. batch' \in BOOLEAN /\ suspended' \in BOOLEAN
    BY <1>2 DEF TakeBatch
  <2> QED  BY <1>2, <2>1, <2>2 DEF TakeBatch
<1>3. CASE Resumed
  BY <1>3 DEF Resumed
<1>4. CASE TakeClient
  BY <1>4 DEF TakeClient
<1>5. CASE Forward
  <2>1. open' \in [Proc -> Version \cup {Unread}]
    BY <1>5, ZenonT(60) DEF Forward
  <2>2. due' \in [Proc -> BOOLEAN] /\ owes' \in [Proc -> BOOLEAN]
    BY <1>5 DEF Forward
  <2>3. missed' \in BOOLEAN
    BY <1>5 DEF Forward, HasReadSuccessor
  <2> QED  BY <1>5, <2>1, <2>2, <2>3 DEF Forward
<1>6. CASE Evict
  <2>1. proc' \in [Proc -> {"none", "alive", "dying", "dead"}]
    BY <1>6 DEF Evict, Kill
  <2>2. evicts' \in 0..MaxEvicts
    BY <1>6, SessionConstants DEF Evict
  <2> QED  BY <1>6, <2>1, <2>2 DEF Evict
<1>7. CASE Reap
  BY <1>7 DEF Reap
<1>8. CASE Unpark
  BY <1>8 DEF Unpark
<1>9. CASE Spawn
  BY <1>9 DEF Spawn
<1>10. CASE Handshake
  BY <1>10 DEF Handshake
<1>11. CASE OpenFiles
  <2>1. open' \in [Proc -> Version \cup {Unread}]
    BY <1>11 DEF OpenFiles
  <2>2. due' \in [Proc -> BOOLEAN] /\ owes' \in [Proc -> BOOLEAN]
    BY <1>11 DEF OpenFiles
  <2> QED  BY <1>11, <2>1, <2>2 DEF OpenFiles
<1>12. CASE SwapClient
  <2>1. fresh \in Proc
    BY <1>12 DEF SwapClient, Life, Booting, Spawned
  <2> QED  BY <1>12, <2>1 DEF SwapClient
<1>13. CASE Store
  BY <1>13 DEF Store
<1>14. CASE Stop
  <2>1. proc' \in [Proc -> {"none", "alive", "dying", "dead"}]
    BY <1>14 DEF Stop
  <2> QED  BY <1>14, <2>1 DEF Stop
<1>15. CASE Close \/ Closed
  <2>1. batch' \in BOOLEAN
    BY <1>15 DEF Close, Closed
  <2>2. closing' \in {"no", "joining", "closed"}
    BY <1>15 DEF Close, Closed
  <2> QED  BY <1>15, <2>1, <2>2 DEF Close, Closed
<1>16. ASSUME NEW n \in Proc, Dies(n) PROVE TypeOK'
  <2>1. /\ due' \in [Proc -> BOOLEAN] /\ owes' \in [Proc -> BOOLEAN]
        /\ run' \in [Proc -> Version \cup {Unread}]
        /\ seen' \in [Proc -> Version \cup {Unread}]
    BY <1>16 DEF Dies
  <2> QED  BY <1>16, <2>1 DEF Dies
<1>17. ASSUME NEW n \in Proc, Publish(n) PROVE TypeOK'
  <2>1. Append(said[n], Diagnostics(n, seen[n])) \in Seq({"red", "green", "ended", "failed"})
    BY DiagnosticsType
  <2> QED  BY <1>17, <2>1 DEF Publish
<1>18. ASSUME NEW n \in Proc, CheckStarts(n) PROVE TypeOK'
  BY <1>18 DEF CheckStarts
<1>19. ASSUME NEW n \in Proc, CheckEnds(n) PROVE TypeOK'
  <2>1. <<Diagnostics(n, run[n]), "ended">> \in Seq({"red", "green", "ended", "failed"})
    BY DiagnosticsType
  <2>2. said[n] \o <<Diagnostics(n, run[n]), "ended">>
          \in Seq({"red", "green", "ended", "failed"})
    BY <2>1
  <2> QED  BY <1>19, <2>2 DEF CheckEnds
<1>20. ASSUME NEW n \in Proc, Apply(n) PROVE TypeOK'
  BY <1>20 DEF Apply, ApplyEvent, Tree
<1>22. ASSUME NEW n \in Proc, CheckFails(n) PROVE TypeOK'
  <2>1. Append(said[n], "failed") \in Seq({"red", "green", "ended", "failed"})
    OBVIOUS
  <2> QED  BY <1>22, <2>1, SessionConstants DEF CheckFails
<1>21. CASE UNCHANGED vars
  BY <1>21 DEF vars
<1> QED
  BY <1>1, <1>2, <1>3, <1>4, <1>5, <1>6, <1>7, <1>8, <1>9, <1>10, <1>11, <1>12,
     <1>13, <1>14, <1>15, <1>16, <1>17, <1>18, <1>19, <1>20, <1>21,
     <1>22
     DEF Next, FsThread, Monitor, Analyzer

-----------------------------------------------------------------------------
(* Who runs.                                                               *)

LEMMA InitLife == Init => Life
<1> SUFFICES ASSUME Init PROVE Life
  OBVIOUS
<1>1. 1 \in Proc
  BY Constants DEF Proc
<1>2. child \in Spawned
  BY <1>1 DEF Init, Spawned
<1> QED  BY <1>2 DEF Init, Life, Running, Booting

\* A step that stops processes at most, and leaves the supervisor as it is.
LEMMA LifeKept ==
    ASSUME TypeOK, Life, child' = child, mon' = mon, fresh' = fresh,
           \A n \in Proc : /\ Running(n)' => Running(n)
                           /\ n \in Spawned => n \in Spawned',
           closing' = closing \/ closing' = "joining" \/ mon = "done"
    PROVE  Life'
<1>1. Booting' <=> Booting
  BY DEF Booting
<1>2. \A n \in Proc : Running(n)' => n = child' \/ (Booting' /\ n = fresh')
  BY <1>1 DEF Life, Running, Spawned
<1>3. (child' # None => child' \in Spawned') /\ (Booting' => fresh' \in Spawned')
  <2>1. Spawned \subseteq Spawned'
    BY DEF Spawned, Running
  <2> QED  BY <1>1, <2>1 DEF Life
<1> QED  BY <1>2, <1>3 DEF Life

LEMMA LifeStep == TypeOK /\ Life /\ [Next]_vars => Life'
<1> SUFFICES ASSUME TypeOK, Life, [Next]_vars PROVE Life'
  OBVIOUS
<1> USE DEF fsVars, supVars, raVars, model, histVars
<1>1. CASE Edit \/ FsThread
  BY <1>1, LifeKept DEF Edit, FsThread, TakeBatch, Resumed, TakeClient, Forward,
     Running, Spawned
<1>2. CASE Evict
  <2>1. \A n \in Proc : /\ Running(n)' => Running(n)
                        /\ n \in Spawned => n \in Spawned'
    BY <1>2 DEF Evict, Kill, Running, Spawned
  <2> QED  BY <1>2, <2>1, LifeKept DEF Evict
<1>3. CASE Reap
  BY <1>3 DEF Reap, Life, Running, Booting, Spawned, TypeOK
<1>4. CASE Unpark
  BY <1>4 DEF Unpark, Life, Running, Booting, Spawned
<1>5. CASE Spawn
  BY <1>5, Constants DEF Spawn, Life, Running, Booting, Spawned, TypeOK
<1>6. CASE Handshake \/ OpenFiles \/ SwapClient
  BY <1>6 DEF Handshake, OpenFiles, SwapClient, Life, Running, Booting, Spawned
<1>7. CASE Store
  <2>1. Booting /\ ~Booting' /\ child = None
    BY <1>7 DEF Store, Booting, Life
  <2>2. \A n \in Proc : Running(n)' => n = child'
    BY <1>7, <2>1, Constants DEF Store, Life, Running
  <2>3. child' \in Spawned'
    BY <1>7, <2>1 DEF Store, Life, Spawned
  <2> QED  BY <1>7, <2>1, <2>2, <2>3 DEF Store, Life
<1>8. CASE Stop
  <2>1. \A n \in Proc : ~Running(n)'
    BY <1>8 DEF Stop, Life, Running, Booting, TypeOK
  <2> QED  BY <1>8, <2>1 DEF Stop, Life, Booting
<1>9. CASE Close \/ Closed
  BY <1>9, LifeKept DEF Close, Closed, Running, Spawned
<1>10. ASSUME NEW n \in Proc, Dies(n) PROVE Life'
  <2>1. \A m \in Proc : /\ Running(m)' => Running(m)
                        /\ m \in Spawned => m \in Spawned'
    BY <1>10 DEF Dies, Running, Spawned, TypeOK
  <2> QED  BY <1>10, <2>1, LifeKept DEF Dies
<1>11. ASSUME NEW n \in Proc, Analyzer(n) \/ Apply(n) PROVE Life'
  BY <1>11, LifeKept DEF Analyzer, Publish, CheckStarts, CheckEnds, CheckFails,
     Apply, Running,
     Spawned
<1>12. CASE UNCHANGED vars
  BY <1>12, LifeKept DEF vars, Running, Spawned
<1> QED
  BY <1>1, <1>2, <1>3, <1>4, <1>5, <1>6, <1>7, <1>8, <1>9, <1>10, <1>11, <1>12
     DEF Next, Monitor

\* At every moment of the session every variable has its type, and only the
\* stored child or the process being brought up runs.
THEOREM LifeCorrect == Spec => [](TypeOK /\ Life)
<1>1. Init => TypeOK /\ Life
  BY InitType, InitLife
<1>2. TypeOK /\ Life /\ [Next]_vars => (TypeOK /\ Life)'
  BY TypeStep, LifeStep
<1> QED  BY <1>1, <1>2, PTL DEF Spec

\* Two analyzers never run at once: a new one is started only when no child is
\* stored, and what runs is the stored child or the one being brought up.
THEOREM OneAtATime == Spec => []OneAnalyzer
<1>1. TypeOK /\ Life => OneAnalyzer
  BY Constants DEF TypeOK, Life, OneAnalyzer, Booting
<1> QED  BY <1>1, LifeCorrect, PTL

\* A closed session leaves no analyzer behind.
THEOREM NoneLeft == Spec => []NothingOutlives
<1>1. TypeOK /\ Life => NothingOutlives
  BY Constants DEF TypeOK, Life, NothingOutlives, Booting
<1> QED  BY <1>1, LifeCorrect, PTL
-----------------------------------------------------------------------------
(* The order of the processes.                                             *)

LEMMA OneRuns ==
    ASSUME TypeOK, Life, NEW m \in Proc, NEW n \in Proc, Running(m), Running(n)
    PROVE  m = n
BY Constants DEF TypeOK, Life, Booting

\* Who was started, when the processes are numbered in turn.
LEMMA NextNumber ==
    ASSUME Numbered
    PROVE  \E k \in Proc : Spawned = 1..k /\ Cardinality(Spawned) = k
<1>1. PICK k \in Proc : Spawned = 1..k
  BY DEF Numbered
<1>2. Cardinality(1..k) = k
  BY FS_Interval, <1>1, Constants DEF Proc
<1> QED  BY <1>1, <1>2

LEMMA InitOrder == Init => Order
<1> SUFFICES ASSUME Init PROVE Order
  OBVIOUS
<1>1. 1 \in Proc
  BY Constants DEF Proc
<1>2. Spawned = 1..1
  BY <1>1 DEF Init, Spawned
<1>3. 1..1 = {1}
  OBVIOUS
<1>4. \A n \in Proc : Running(n) => n = 1
  BY DEF Init, Running
<1> QED  BY <1>1, <1>2, <1>3, <1>4 DEF Init, Order, Numbered

LEMMA OrderKept ==
    ASSUME Order, Spawned' = Spawned,
           \A n \in Proc : Running(n)' => Running(n),
           current' \in Spawned, fs' = "client" => taken' \in Spawned
    PROVE  Order'
<1>1. Numbered'
  BY DEF Order, Numbered
<1>2. \A n \in Proc : Running(n)' => \A m \in Spawned' : m <= n
  BY DEF Order, Running
<1> QED  BY <1>1, <1>2 DEF Order

LEMMA OrderStep == TypeOK /\ Life /\ Order /\ [Next]_vars => Order'
<1> SUFFICES ASSUME TypeOK, Life, Order, [Next]_vars PROVE Order'
  OBVIOUS
<1> USE DEF fsVars, supVars, raVars, model, histVars
<1>1. CASE UNCHANGED proc /\ current' \in Spawned
           /\ (fs' = "client" => taken' \in Spawned)
  <2>1. Spawned' = Spawned /\ \A n \in Proc : Running(n)' => Running(n)
    BY <1>1 DEF Spawned, Running
  <2> QED  BY <1>1, <2>1, OrderKept
<1>2. CASE Edit \/ FsThread
  BY <1>1, <1>2 DEF Edit, FsThread, TakeBatch, Resumed, TakeClient, Forward, Order
<1>3. CASE Evict
  <2>1. Spawned' = Spawned /\ \A n \in Proc : Running(n)' => Running(n)
    BY <1>3 DEF Evict, Kill, Spawned, Running, TypeOK
  <2> QED  BY <1>3, <2>1, OrderKept DEF Evict, Order
<1>4. CASE Spawn
  <2>1. PICK k \in Proc : Spawned = 1..k /\ Cardinality(Spawned) = k
    BY NextNumber DEF Order
  <2>2. /\ k + 1 \in Proc /\ proc' = [proc EXCEPT ![k + 1] = "alive"]
        /\ mon = "backoff"
    BY <1>4, <2>1 DEF Spawn
  <2>3. Spawned' = Spawned \cup {k + 1}
    BY <2>2 DEF Spawned, TypeOK
  <2>4. Spawned' = 1..(k + 1)
    BY <2>1, <2>3, Constants DEF Proc
  <2>5. \A n \in Proc : Running(n)' => n = k + 1
    BY <2>2, Constants DEF Running, Life, Booting, TypeOK
  <2>6. \A m \in Spawned' : m <= k + 1
    BY <2>1, <2>4, Constants DEF Proc
  <2>7. Numbered'
    BY <2>2, <2>4 DEF Numbered
  <2>8. current' \in Spawned' /\ (fs' = "client" => taken' \in Spawned')
    BY <1>4, <2>3 DEF Spawn, Order
  <2>9. \A n \in Proc : Running(n)' => \A m \in Spawned' : m <= n
    BY <2>5, <2>6
  <2> QED  BY <2>7, <2>8, <2>9 DEF Order
<1>5. CASE Reap \/ Unpark \/ Handshake \/ OpenFiles \/ Store \/ Close \/ Closed
  BY <1>1, <1>5 DEF Reap, Unpark, Handshake, OpenFiles, Store, Close, Closed, Order
<1>6. CASE SwapClient
  <2>1. fresh \in Spawned
    BY <1>6 DEF SwapClient, Life, Booting
  <2> QED  BY <1>1, <1>6, <2>1 DEF SwapClient, Order
<1>7. CASE Stop
  <2>1. Spawned' = Spawned
    <3>1. \A n \in Proc : proc'[n] = "none" <=> proc[n] = "none"
      BY <1>7, Constants DEF Stop, Spawned, Life, TypeOK
    <3> QED  BY <3>1 DEF Spawned
  <2>2. \A n \in Proc : Running(n)' => Running(n)
    BY <1>7 DEF Stop, Running, TypeOK
  <2> QED  BY <1>7, <2>1, <2>2, OrderKept DEF Stop, Order
<1>8. ASSUME NEW n \in Proc, Dies(n) PROVE Order'
  <2>1. Spawned' = Spawned /\ \A m \in Proc : Running(m)' => Running(m)
    BY <1>8 DEF Dies, Spawned, Running, TypeOK
  <2> QED  BY <1>8, <2>1, OrderKept DEF Dies, Order
<1>9. ASSUME NEW n \in Proc, Analyzer(n) \/ Apply(n) PROVE Order'
  BY <1>1, <1>9 DEF Analyzer, Publish, CheckStarts, CheckEnds, CheckFails,
     Apply, Order
<1>10. CASE UNCHANGED vars
  BY <1>1, <1>10 DEF vars, Order
<1> QED
  BY <1>2, <1>3, <1>4, <1>5, <1>6, <1>7, <1>8, <1>9, <1>10 DEF Next, Monitor
-----------------------------------------------------------------------------
(* The texts and the checks follow the disk.                               *)

\* What no step of the processes, the file system thread or the opening of
\* files touches.
Quiet == UNCHANGED <<open, due, run, seen, owes, said>>

LEMMA QuietSteps ==
    ASSUME \/ TakeBatch \/ Resumed \/ TakeClient \/ Edit \/ Evict
           \/ Reap \/ Unpark \/ Spawn \/ Handshake \/ SwapClient \/ Store \/ Stop
           \/ Close \/ Closed \/ UNCHANGED vars
    PROVE  Quiet
BY DEF Quiet, TakeBatch, Resumed, TakeClient, Edit, Evict, Reap, Unpark, Spawn,
   Handshake, SwapClient, Store, Stop, Close, Closed, vars, raVars

\* The steps that speak about a process, or let one speak.
LEMMA Steps ==
    ASSUME [Next]_vars
    PROVE  \/ Quiet \/ Forward \/ OpenFiles
           \/ \E n \in Proc : \/ Publish(n) \/ CheckStarts(n) \/ CheckEnds(n)
                              \/ CheckFails(n) \/ Apply(n) \/ Dies(n)
BY QuietSteps DEF Next, FsThread, Monitor, Analyzer

\* A process that was started remains one.
LEMMA Started ==
    ASSUME TypeOK, Life, [Next]_vars
    PROVE  Spawned \subseteq Spawned'
<1> USE DEF TypeOK, Spawned
<1>1. CASE Evict
  BY <1>1 DEF Evict, Kill
<1>2. CASE Spawn
  BY <1>2 DEF Spawn
<1>3. CASE Stop
  BY <1>3 DEF Stop
<1>4. ASSUME NEW n \in Proc, Dies(n) PROVE Spawned \subseteq Spawned'
  BY <1>4 DEF Dies
<1>5. CASE UNCHANGED proc
  BY <1>5
<1> QED
  BY <1>1, <1>2, <1>3, <1>4, <1>5
     DEF Next, FsThread, Monitor, Analyzer, Edit, TakeBatch, Resumed, TakeClient, Forward,
     Reap, Unpark, Handshake, OpenFiles, SwapClient, Store, Close, Closed, Publish,
     CheckStarts, CheckEnds, CheckFails, Apply, vars, raVars

LEMMA UnbornStep == TypeOK /\ Life /\ Unborn /\ [Next]_vars => Unborn'
<1> SUFFICES ASSUME TypeOK, Life, Unborn, [Next]_vars,
                    NEW m \in Proc, m \notin Spawned'
             PROVE  open'[m] = Unread /\ seen'[m] = Unread /\ said'[m] = <<>>
  BY DEF Unborn
<1>1. m \notin Spawned /\ proc[m] = "none"
  BY Started DEF Spawned
<1>2. open[m] = Unread /\ seen[m] = Unread /\ said[m] = <<>>
  BY <1>1 DEF Unborn
<1>3. CASE Quiet
  BY <1>2, <1>3 DEF Quiet
<1>4. CASE Forward
  BY <1>1, <1>2, <1>4 DEF Forward, TypeOK
<1>5. CASE OpenFiles
  <2>1. fresh # m
    BY <1>1, <1>5 DEF OpenFiles, Life, Booting
  <2> QED  BY <1>2, <1>5, <2>1 DEF OpenFiles, TypeOK
<1>6. ASSUME NEW n \in Proc,
             Publish(n) \/ CheckStarts(n) \/ CheckEnds(n) \/ CheckFails(n) \/ Dies(n)
      PROVE  open'[m] = Unread /\ seen'[m] = Unread /\ said'[m] = <<>>
  <2>1. n # m
    BY <1>1, <1>6 DEF Publish, CheckStarts, CheckEnds, CheckFails, Dies
  <2> QED  BY <1>2, <1>6, <2>1 DEF Publish, CheckStarts, CheckEnds, CheckFails, Dies, TypeOK
<1>7. ASSUME NEW n \in Proc, Apply(n)
      PROVE  open'[m] = Unread /\ seen'[m] = Unread /\ said'[m] = <<>>
  <2>1. n # m
    BY <1>2, <1>7 DEF Apply
  <2> QED  BY <1>2, <1>7, <2>1 DEF Apply, raVars, TypeOK
<1> QED  BY <1>3, <1>4, <1>5, <1>6, <1>7, Steps

LEMMA OpenedStep == TypeOK /\ Life /\ Order /\ Opened /\ [Next]_vars => Opened'
<1> SUFFICES ASSUME TypeOK, Life, Order, Opened, [Next]_vars PROVE Opened'
  OBVIOUS
<1> USE DEF TypeOK, Opened, fsVars, supVars, raVars, model, histVars
<1>1. CASE Forward
  <2>1. \A n \in Proc : open[n] \in Version => open'[n] \in Version
    BY <1>1 DEF Forward
  <2>2. mon' = "opened" => fresh \in Proc
    BY <1>1 DEF Forward, Life, Booting, Spawned
  <2> QED  BY <1>1, <2>1, <2>2 DEF Forward
<1>2. CASE OpenFiles
  BY <1>2, Constants DEF OpenFiles, Life, Booting, Spawned
<1>3. CASE SwapClient
  BY <1>3 DEF SwapClient
<1>4. CASE UNCHANGED <<open, current>> /\ (mon' = "opened" => UNCHANGED <<mon, fresh>>)
  BY <1>4
<1>5. CASE Edit \/ TakeBatch \/ Resumed \/ TakeClient \/ Evict \/ Close \/ Closed
  BY <1>4, <1>5 DEF Edit, TakeBatch, Resumed, TakeClient, Evict, Close, Closed
<1>6. CASE Reap \/ Unpark \/ Spawn \/ Handshake \/ Store \/ Stop
  BY <1>4, <1>6 DEF Reap, Unpark, Spawn, Handshake, Store, Stop
<1>7. ASSUME NEW n \in Proc, Dies(n) \/ Analyzer(n) \/ Apply(n) PROVE Opened'
  BY <1>4, <1>7 DEF Dies, Analyzer, Publish, CheckStarts, CheckEnds, CheckFails,
     Apply
<1>8. CASE UNCHANGED vars
  BY <1>4, <1>8 DEF vars
<1> QED
  BY <1>1, <1>2, <1>3, <1>5, <1>6, <1>7, <1>8 DEF Next, FsThread, Monitor

LEMMA TailAt ==
    ASSUME NEW s \in Seq(Word), s # <<>>
    PROVE  /\ DOMAIN s = 1..Len(s) /\ Len(s) \in Nat \ {0}
           /\ DOMAIN Tail(s) = 1..(Len(s) - 1)
           /\ \A j \in 1..(Len(s) - 1) : Tail(s)[j] = s[j + 1]
           /\ Head(s) = s[1]
OBVIOUS

Cat(s, t) == s \o t

LEMMA AppendCat ==
    ASSUME NEW s \in Seq(Word), NEW v \in Word
    PROVE  Append(s, v) = Cat(s, <<v>>)
BY DEF Cat

LEMMA FailsFails ==
    ASSUME TypeOK, NEW n \in Proc, CheckFails(n)
    PROVE  Failed'
<1>1. said[n] \in Seq(Word) /\ said'[n] = Append(said[n], "failed")
  BY DEF CheckFails, TypeOK, Word
<1>2. /\ Len(said[n]) + 1 \in DOMAIN said'[n]
      /\ said'[n][Len(said[n]) + 1] = "failed"
  BY <1>1
<1> QED  BY <1>2 DEF Failed

\* What was said of a failed check is heard, and then remembered.
LEMMA FailedStep == TypeOK /\ Failed /\ [Next]_vars => Failed'
<1> SUFFICES ASSUME TypeOK, Failed, [Next]_vars PROVE Failed'
  OBVIOUS
<1> DEFINE Says(s) == \E k \in DOMAIN s : s[k] = "failed"
<1>1. CASE UNCHANGED <<sentinel, said>>
  BY <1>1 DEF Failed
<1>2. ASSUME NEW n \in Proc, UNCHANGED sentinel, said[n] \in Seq(Word),
             NEW w \in Seq(Word), said' = [said EXCEPT ![n] = Cat(@, w)]
      PROVE  Failed'
  <2>1. ASSUME NEW m \in Proc, NEW k \in DOMAIN said[m], said[m][k] = "failed"
        PROVE  k \in DOMAIN said'[m] /\ said'[m][k] = "failed"
    <3>1. CASE m = n
      BY <1>2, <2>1, <3>1 DEF Cat, TypeOK
    <3>2. CASE m # n
      BY <1>2, <2>1, <3>2 DEF TypeOK
    <3> QED  BY <3>1, <3>2
  <2> QED  BY <1>2, <2>1 DEF Failed
<1>3. ASSUME NEW n \in Proc, Publish(n) PROVE Failed'
  <2>1. <<Diagnostics(n, seen[n])>> \in Seq(Word) /\ said[n] \in Seq(Word)
    BY DiagnosticsType DEF TypeOK, Word
  <2>2. Append(said[n], Diagnostics(n, seen[n])) = Cat(said[n], <<Diagnostics(n, seen[n])>>)
    BY <2>1, DiagnosticsType, AppendCat DEF Word
  <2>3. said' = [said EXCEPT ![n] = Cat(@, <<Diagnostics(n, seen[n])>>)]
    BY <1>3, <2>2, Zenon DEF Publish
  <2> QED  BY <1>2, <1>3, <2>1, <2>3 DEF Publish, model
<1>4. ASSUME NEW n \in Proc, CheckEnds(n) PROVE Failed'
  <2>1. <<Diagnostics(n, run[n]), "ended">> \in Seq(Word) /\ said[n] \in Seq(Word)
    BY DiagnosticsType DEF TypeOK, Word
  <2> QED  BY <1>2, <1>4, <2>1 DEF CheckEnds, Cat, model
<1>5. ASSUME NEW n \in Proc, CheckFails(n) PROVE Failed'
  BY <1>5, FailsFails
<1>6. ASSUME NEW n \in Proc, Apply(n) PROVE Failed'
  <2>1. /\ said[n] # <<>> /\ said' = [said EXCEPT ![n] = Tail(@)]
        /\ sentinel' = (sentinel \/ Head(said[n]) = "failed")
        /\ said[n] \in Seq(Word)
    BY <1>6 DEF Apply, ApplyEvent, TypeOK, Word
  <2>2. ASSUME NEW m \in Proc, NEW k \in DOMAIN said[m], said[m][k] = "failed"
        PROVE  sentinel' \/ Says(said'[m])
    <3>1. CASE m = n
      <4>1. said'[m] = Tail(said[n])
        BY <2>1, <3>1 DEF TypeOK
      <4>2. k # 1 => k - 1 \in DOMAIN Tail(said[n]) /\ Tail(said[n])[k - 1] = "failed"
        BY <2>1, <2>2, <3>1, TailAt
      <4>3. k = 1 => Head(said[n]) = "failed"
        BY <2>1, <2>2, <3>1, TailAt
      <4> QED  BY <2>1, <4>1, <4>2, <4>3
    <3>2. CASE m # n
      BY <2>1, <2>2, <3>2 DEF TypeOK
    <3> QED  BY <3>1, <3>2
  <2> QED  BY <2>1, <2>2 DEF Failed
<1>7. CASE Edit \/ FsThread \/ Evict \/ Close \/ Closed \/ UNCHANGED vars
  BY <1>1, <1>7 DEF Edit, FsThread, TakeBatch, Resumed, TakeClient, Forward, Evict, Close,
     Closed, vars, raVars, model
<1>8. CASE Monitor
  BY <1>1, <1>8 DEF Monitor, Reap, Unpark, Spawn, Handshake, OpenFiles, SwapClient, Store,
     Stop, raVars, model
<1>9. ASSUME NEW n \in Proc, Dies(n) \/ CheckStarts(n) PROVE Failed'
  BY <1>1, <1>9 DEF Dies, CheckStarts, model
<1> QED  BY <1>3, <1>4, <1>5, <1>6, <1>7, <1>8, <1>9 DEF Next, Analyzer

\* A step that does not touch a reading process nor end a move of an edit.
LEMMA TextKept ==
    ASSUME TypeOK, Text, Checks, Failed => Failed', Quiet, missed' = missed,
           Moving' = Moving, disk' = disk,
           \A n \in Proc : Reads(n)' => Reads(n)
    PROVE  Text' /\ Checks'
BY DEF Text, Checks, Quiet, Reads, Moving

LEMMA TextStep ==
    ASSUME TypeOK, Life, Order, Unborn, Text, Checks, [Next]_vars
    PROVE  Text' /\ Checks'
<1> USE DEF fsVars, supVars, raVars, model, histVars
<1>0. Failed => Failed'
  BY FailedStep
<1> HIDE DEF Failed
<1>1. CASE Edit \/ TakeBatch \/ Resumed \/ TakeClient
  <2>1. Moving'
    BY <1>1 DEF Edit, TakeBatch, Resumed, TakeClient, Moving
  <2> QED  BY <2>1 DEF Text, Checks
<1>2. CASE Forward
  <2>1. taken \in Proc /\ taken \in Spawned /\ taken # None
    BY <1>2, Constants DEF Forward, Order, Spawned
  <2>2. CASE proc[taken] = "alive"
    <3>1. /\ open'[taken] = disk /\ due'[taken] /\ UNCHANGED <<disk, proc>>
      BY <1>2, <2>1, <2>2 DEF Forward, TypeOK
    <3>2. \A n \in Proc : Reads(n)' => n = taken
      BY <2>1, <2>2, <3>1, OneRuns DEF Reads, Running
    <3> QED  BY <3>1, <3>2 DEF Text, Checks
  <2>3. CASE proc[taken] # "alive"
    <3>1. /\ UNCHANGED <<disk, proc, open, due, run, seen>>
          /\ missed' = (missed \/ HasReadSuccessor(taken))
      BY <1>2, <2>1, <2>3 DEF Forward
    <3>2. ASSUME NEW n \in Proc, Reads(n) PROVE HasReadSuccessor(taken)
      <4>1. n \in Spawned /\ Running(n) /\ n # taken /\ open[n] \in Version
        BY <2>3, <3>2 DEF Reads, Spawned, Running
      <4>2. n > taken
        BY <2>1, <4>1, Constants DEF Order
      <4> QED  BY <4>1, <4>2 DEF HasReadSuccessor
    <3>3. \A n \in Proc : Reads(n)' => missed'
      BY <3>1, <3>2 DEF Reads
    <3> QED  BY <3>3 DEF Text, Checks
  <2> QED  BY <2>2, <2>3
<1>3. CASE Evict
  <2>1. \A n \in Proc : Reads(n)' => Reads(n)
    BY <1>3 DEF Evict, Kill, Reads, TypeOK
  <2> QED  BY <1>0, <1>3, <2>1, TextKept DEF Evict, Quiet, Moving
<1>4. CASE Reap \/ Unpark \/ Handshake \/ SwapClient \/ Store \/ Close
  <2>1. Quiet /\ UNCHANGED <<proc, open, missed, batch, fs, disk>>
    BY <1>4 DEF Reap, Unpark, Handshake, SwapClient, Store, Close, Quiet
  <2>2. Moving' = Moving /\ \A n \in Proc : Reads(n)' => Reads(n)
    BY <2>1 DEF Moving, Reads
  <2> QED  BY <1>0, <2>1, <2>2, TextKept
<1>5. CASE Spawn
  <2>1. \A n \in Proc : Reads(n)' => Reads(n)
    <3>1. PICK k \in Proc : Spawned = 1..k /\ Cardinality(Spawned) = k
      BY NextNumber DEF Order
    <3>2. /\ proc' = [proc EXCEPT ![k + 1] = "alive"] /\ UNCHANGED open
          /\ k + 1 \in Proc
      BY <1>5, <3>1 DEF Spawn
    <3>3. open[k + 1] = Unread
      BY <3>1, <3>2, Constants DEF Unborn, Proc
    <3> QED  BY <3>2, <3>3, Constants DEF Reads, TypeOK
  <2> QED  BY <1>0, <1>5, <2>1, TextKept DEF Spawn, Quiet, Moving
<1>6. CASE OpenFiles
  <2>1. /\ fresh \in Proc /\ open'[fresh] = disk /\ due'[fresh]
        /\ UNCHANGED <<disk, proc>>
    BY <1>6 DEF OpenFiles, Life, Booting, Spawned, TypeOK
  <2>2. \A n \in Proc : Reads(n)' => n = fresh
    BY <1>6, <2>1, Constants DEF OpenFiles, Life, Reads, Running
  <2> QED  BY <2>1, <2>2 DEF Text, Checks
<1>7. CASE Stop
  <2>1. \A n \in Proc : Reads(n)' => Reads(n)
    BY <1>7 DEF Stop, Reads, TypeOK
  <2> QED  BY <1>0, <1>7, <2>1, TextKept DEF Stop, Quiet, Moving
<1>8. CASE Closed
  <2>1. \A n \in Proc : ~Running(n)
    BY <1>8, Constants DEF Closed, Life, Booting
  <2>2. \A n \in Proc : ~Reads(n)'
    BY <1>8, <2>1 DEF Closed, Reads, Running
  <2> QED  BY <2>2 DEF Text, Checks
<1>9. ASSUME NEW n \in Proc, Dies(n) PROVE Text' /\ Checks'
  <2>1. /\ UNCHANGED <<disk, batch, fs, open, missed>>
        /\ \A m \in Proc : Reads(m)' => Reads(m) /\ m # n
    BY <1>9 DEF Dies, Reads, TypeOK
  <2>2. \A m \in Proc : m # n => due'[m] = due[m] /\ run'[m] = run[m] /\ seen'[m] = seen[m]
    BY <1>9 DEF Dies, TypeOK
  <2> QED  BY <1>0, <2>1, <2>2 DEF Text, Checks, Moving
<1>10. ASSUME NEW n \in Proc, Publish(n) \/ Apply(n) PROVE Text' /\ Checks'
  <2>1. UNCHANGED <<disk, batch, fs, proc, open, due, run, seen, missed>>
    BY <1>10 DEF Publish, Apply
  <2> QED  BY <1>0, <2>1 DEF Text, Checks, Reads, Moving
<1>11. ASSUME NEW n \in Proc, CheckStarts(n) PROVE Text' /\ Checks'
  <2>1. /\ UNCHANGED <<disk, batch, fs, proc, open, seen, missed>>
        /\ due' = [due EXCEPT ![n] = FALSE] /\ run' = [run EXCEPT ![n] = disk]
    BY <1>11 DEF CheckStarts
  <2>2. Text'
    BY <2>1 DEF Text, Reads, Moving
  <2>3. ASSUME NEW m \in Proc, Reads(m)', ~missed', ~Moving', ~due'[m], ~Failed'
        PROVE  IF run'[m] = Unread THEN seen'[m] = disk' ELSE run'[m] = disk'
    <3>1. CASE m = n
      <4>1. run'[m] = disk' /\ run'[m] # Unread
        BY <2>1, <3>1, Constants DEF TypeOK
      <4> QED  BY <4>1
    <3>2. CASE m # n
      BY <1>0, <2>1, <2>3, <3>2 DEF Checks, Reads, Moving, TypeOK
    <3> QED  BY <3>1, <3>2
  <2> QED  BY <2>2, <2>3 DEF Checks
<1>12. ASSUME NEW n \in Proc, CheckEnds(n) PROVE Text' /\ Checks'
  <2>1. /\ UNCHANGED <<disk, batch, fs, proc, open, due, missed>>
        /\ run' = [run EXCEPT ![n] = Unread] /\ seen' = [seen EXCEPT ![n] = run[n]]
        /\ run[n] # Unread
    BY <1>12 DEF CheckEnds
  <2>2. Text'
    BY <2>1 DEF Text, Reads, Moving
  <2>3. ASSUME NEW m \in Proc, Reads(m)', ~missed', ~Moving', ~due'[m], ~Failed'
        PROVE  IF run'[m] = Unread THEN seen'[m] = disk' ELSE run'[m] = disk'
    BY <1>0, <2>1, <2>3 DEF Checks, Reads, Moving, TypeOK
  <2> QED  BY <2>2, <2>3 DEF Checks
<1>13. CASE UNCHANGED vars
  BY <1>0, <1>13 DEF vars, Text, Checks, Reads, Moving
<1>14. ASSUME NEW n \in Proc, CheckFails(n) PROVE Text' /\ Checks'
  <2>1. UNCHANGED <<disk, batch, fs, proc, open, missed>>
    BY <1>14 DEF CheckFails
  <2> QED  BY <1>14, <2>1, FailsFails DEF Text, Checks, Reads, Moving
<1> QED
  BY <1>1, <1>2, <1>3, <1>4, <1>5, <1>6, <1>7, <1>8, <1>9, <1>10, <1>11, <1>12, <1>13,
     <1>14
     DEF Next, FsThread, Monitor, Analyzer
-----------------------------------------------------------------------------
(* What is on its way to the Model.                                        *)

LEMMA LastOfAppend ==
    ASSUME NEW s \in Seq(Word), NEW v \in Word
    PROVE  LastWord(Append(s, v), v)
<1>1. /\ Len(Append(s, v)) = Len(s) + 1 /\ Append(s, v)[Len(s) + 1] = v
      /\ DOMAIN Append(s, v) = 1..(Len(s) + 1)
  OBVIOUS
<1> QED  BY <1>1 DEF LastWord

\* A failed check does not change what was last said of the file.
LEMMA LastOfFailed ==
    ASSUME NEW s \in Seq(Word), NEW v
    PROVE  /\ LastWord(s, v) => LastWord(Append(s, "failed"), v)
           /\ AllEnded(s) => AllEnded(Append(s, "failed"))
<1>1. /\ DOMAIN Append(s, "failed") = 1..(Len(s) + 1) /\ DOMAIN s = 1..Len(s)
      /\ Append(s, "failed")[Len(s) + 1] = "failed" /\ Len(s) \in Nat
      /\ \A j \in 1..Len(s) : Append(s, "failed")[j] = s[j]
  OBVIOUS
<1>2. AllEnded(s) => AllEnded(Append(s, "failed"))
  BY <1>1 DEF AllEnded, After
<1>3. ASSUME NEW k \in DOMAIN s, s[k] = v, \A j \in DOMAIN s : j > k => s[j] \in After
      PROVE  LastWord(Append(s, "failed"), v)
  <2>1. k \in DOMAIN Append(s, "failed") /\ Append(s, "failed")[k] = v
    BY <1>1, <1>3
  <2>2. \A j \in DOMAIN Append(s, "failed") : j > k => Append(s, "failed")[j] \in After
    BY <1>1, <1>3 DEF After
  <2> QED  BY <2>1, <2>2 DEF LastWord
<1> QED  BY <1>2, <1>3 DEF LastWord

LEMMA LastOfCheck ==
    ASSUME NEW s \in Seq(Word), NEW v \in Word
    PROVE  /\ LastWord(s \o <<v, "ended">>, v)
           /\ \E k \in DOMAIN (s \o <<v, "ended">>) : (s \o <<v, "ended">>)[k] = "ended"
<1> DEFINE t == s \o <<v, "ended">>
<1>1. /\ Len(t) = Len(s) + 2 /\ t[Len(s) + 1] = v /\ t[Len(s) + 2] = "ended"
      /\ DOMAIN t = 1..(Len(s) + 2)
  BY DEF Word
<1> HIDE DEF t
<1>2. LastWord(t, v)
  BY <1>1 DEF LastWord, After
<1>3. \E k \in DOMAIN t : t[k] = "ended"
  BY <1>1
<1> QED  BY <1>2, <1>3 DEF t

LEMMA TailEnded ==
    ASSUME NEW s \in Seq(Word), s # <<>>, AllEnded(s)
    PROVE  Head(s) \in After /\ AllEnded(Tail(s))
BY TailAt DEF AllEnded

LEMMA TailWord ==
    ASSUME NEW s \in Seq(Word), s # <<>>, NEW v, LastWord(s, v)
    PROVE  LastWord(Tail(s), v) \/ (Head(s) = v /\ AllEnded(Tail(s)))
<1>1. PICK k \in DOMAIN s : s[k] = v /\ \A j \in DOMAIN s : j > k => s[j] \in After
  BY DEF LastWord
<1>2. CASE k = 1
  <2>1. AllEnded(Tail(s))
    BY <1>1, <1>2, TailAt DEF AllEnded
  <2> QED  BY <1>1, <1>2, <2>1, TailAt
<1>3. CASE k # 1
  <2>1. k - 1 \in DOMAIN Tail(s) /\ Tail(s)[k - 1] = v
    BY <1>1, <1>3, TailAt
  <2>2. \A j \in DOMAIN Tail(s) : j > k - 1 => Tail(s)[j] \in After
    BY <1>1, TailAt
  <2> QED  BY <2>1, <2>2 DEF LastWord
<1> QED  BY <1>2, <1>3

LEMMA DoneStep == TypeOK /\ Done /\ [Next]_vars => Done'
<1> SUFFICES ASSUME TypeOK, Done, [Next]_vars, NEW m \in Proc, seen'[m] # Unread
             PROVE  flycheckDone' \/ \E k \in DOMAIN said'[m] : said'[m][k] = "ended"
  BY DEF Done
<1> DEFINE Over(s) == \E k \in DOMAIN s : s[k] = "ended"
<1>1. CASE UNCHANGED <<seen, said, flycheckDone>>
  BY <1>1 DEF Done
<1>2. CASE Edit \/ TakeBatch \/ Resumed \/ TakeClient \/ Forward \/ Evict \/ Close \/ Closed
  BY <1>1, <1>2 DEF Edit, TakeBatch, Resumed, TakeClient, Forward, Evict, Close, Closed,
     raVars, model
<1>3. CASE Monitor
  BY <1>1, <1>3 DEF Monitor, Reap, Unpark, Spawn, Handshake, OpenFiles, SwapClient, Store,
     Stop, raVars, model
<1>4. ASSUME NEW n \in Proc, CheckStarts(n) PROVE flycheckDone' \/ Over(said'[m])
  BY <1>1, <1>4 DEF CheckStarts, model
<1>9. ASSUME NEW n \in Proc, Dies(n) PROVE flycheckDone' \/ Over(said'[m])
  <2>1. UNCHANGED <<said, flycheckDone>> /\ seen[m] # Unread
    BY <1>9 DEF Dies, TypeOK, model
  <2> QED  BY <2>1 DEF Done
<1>10. ASSUME NEW n \in Proc, CheckFails(n) PROVE flycheckDone' \/ Over(said'[m])
  <2>1. UNCHANGED <<seen, flycheckDone>> /\ (flycheckDone \/ Over(said[m]))
    BY <1>10 DEF CheckFails, Done, model
  <2>2. CASE m = n /\ Over(said[m])
    <3>1. said[n] \in Seq(Word) /\ said'[n] = Append(said[n], "failed")
      BY <1>10 DEF CheckFails, TypeOK, Word
    <3> QED  BY <2>2, <3>1
  <2>3. CASE m # n
    BY <1>10, <2>1, <2>3 DEF CheckFails, TypeOK
  <2> QED  BY <2>1, <2>2, <2>3
<1>5. ASSUME NEW n \in Proc, Publish(n) PROVE flycheckDone' \/ Over(said'[m])
  <2>1. flycheckDone' = flycheckDone /\ (flycheckDone \/ Over(said[m]))
    BY <1>5 DEF Publish, Done, model
  <2>2. CASE m = n /\ Over(said[m])
    <3>1. said[n] \in Seq(Word) /\ said'[n] = Append(said[n], Diagnostics(n, seen[n]))
      BY <1>5 DEF Publish, TypeOK, Word
    <3> QED  BY <2>2, <3>1
  <2>3. CASE m # n
    BY <1>5, <2>1, <2>3 DEF Publish, TypeOK
  <2> QED  BY <2>1, <2>2, <2>3
<1>6. ASSUME NEW n \in Proc, CheckEnds(n) PROVE flycheckDone' \/ Over(said'[m])
  <2>1. CASE m = n
    <3>1. said[n] \in Seq(Word)
          /\ said'[n] = said[n] \o <<Diagnostics(n, run[n]), "ended">>
      BY <1>6 DEF CheckEnds, TypeOK, Word
    <3>2. Diagnostics(n, run[n]) \in Word
      BY DiagnosticsType DEF Word
    <3> QED  BY <2>1, <3>1, <3>2, LastOfCheck
  <2>2. CASE m # n
    BY <1>6, <2>2 DEF CheckEnds, TypeOK, Done, model
  <2> QED  BY <2>1, <2>2
<1>7. ASSUME NEW n \in Proc, Apply(n) PROVE flycheckDone' \/ Over(said'[m])
  <2>1. /\ seen' = seen /\ said[n] # <<>> /\ said' = [said EXCEPT ![n] = Tail(@)]
        /\ flycheckDone' = (flycheckDone \/ Head(said[n]) \in {"ended", "failed"})
        /\ said[n] \in Seq(Word)
    BY <1>7 DEF Apply, ApplyEvent, TypeOK, Word
  <2>2. CASE m = n /\ Over(said[m])
    <3>1. PICK k \in DOMAIN said[n] : said[n][k] = "ended"
      BY <2>2
    <3>2. k # 1 => k - 1 \in DOMAIN Tail(said[n]) /\ Tail(said[n])[k - 1] = "ended"
      BY <2>1, <3>1, TailAt
    <3>3. k = 1 => Head(said[n]) = "ended"
      BY <2>1, <3>1, TailAt
    <3>4. said'[m] = Tail(said[n])
      BY <2>1, <2>2 DEF TypeOK
    <3> QED  BY <2>1, <3>2, <3>3, <3>4
  <2>3. CASE m # n
    BY <2>1, <2>3 DEF TypeOK, Done
  <2> QED  BY <2>1, <2>2, <2>3 DEF Done
<1>8. CASE UNCHANGED vars
  BY <1>1, <1>8 DEF vars, raVars, model
<1> QED
  BY <1>2, <1>3, <1>4, <1>5, <1>6, <1>7, <1>8, <1>9, <1>10 DEF Next, FsThread, Analyzer

LEMMA FollowsStep == Follows /\ [Next]_vars => Follows'
<1>1. ASSUME Follows, UNCHANGED model PROVE Follows'
  BY <1>1 DEF Follows, model, Tree
<1>2. ASSUME NEW n \in Proc, Apply(n) PROVE Follows'
  BY <1>2 DEF Apply, ApplyEvent, Follows
<1> QED
  BY <1>1, <1>2 DEF Next, FsThread, Monitor, Analyzer, Edit, TakeBatch, Resumed, TakeClient,
     Forward, Evict, Reap, Unpark, Spawn, Handshake, OpenFiles, SwapClient, Store, Stop,
     Close, Closed, Dies, Publish, CheckStarts, CheckEnds, CheckFails, vars

\* A reading process is the newest, so only its own words or later ones of the
\* dead can be applied; a dead one's mark the Model as overtaken.
LEMMA TalkKept ==
    ASSUME TypeOK, Talk, UNCHANGED <<open, seen, owes, said, auth, current, overtaken>>,
           \A n \in Proc : Reads(n)' => Reads(n)
    PROVE  Talk'
BY DEF Talk, Reads, Heard, LastWord, AllEnded, Diagnostics, Errs

LEMMA TalkStep ==
    ASSUME TypeOK, Life, Order, Unborn, Talk, [Next]_vars
    PROVE  Talk'
<1> USE DEF fsVars, supVars, raVars, model, histVars
<1>1. CASE UNCHANGED <<open, seen, owes, said, auth, current, overtaken, proc>>
  <2>1. \A n \in Proc : Reads(n)' => Reads(n)
    BY <1>1 DEF Reads
  <2> QED  BY <1>1, <2>1, TalkKept
<1>2. CASE Edit \/ TakeBatch \/ Resumed \/ TakeClient \/ Close \/ Closed
  BY <1>1, <1>2 DEF Edit, TakeBatch, Resumed, TakeClient, Close, Closed
<1>3. CASE Reap \/ Unpark \/ Handshake \/ Store
  BY <1>1, <1>3 DEF Reap, Unpark, Handshake, Store
<1>4. CASE Evict \/ Stop
  <2>1. \A n \in Proc : Reads(n)' => Reads(n)
    BY <1>4 DEF Evict, Kill, Stop, Reads, TypeOK
  <2> QED  BY <1>4, <2>1, TalkKept DEF Evict, Stop
<1>14. ASSUME NEW n \in Proc, Dies(n) PROVE Talk'
  <2>1. /\ UNCHANGED <<open, said, auth, current, overtaken>>
        /\ \A m \in Proc : Reads(m)' => Reads(m) /\ m # n
        /\ \A m \in Proc : m # n => seen'[m] = seen[m] /\ owes'[m] = owes[m]
    BY <1>14 DEF Dies, Reads, TypeOK
  <2> QED  BY <2>1 DEF Talk, Heard, LastWord, AllEnded, Diagnostics, Errs
<1>15. ASSUME NEW n \in Proc, CheckFails(n) PROVE Talk'
  <2>1. /\ UNCHANGED <<open, seen, owes, auth, current, overtaken, proc>>
        /\ proc[n] = "alive"
        /\ said' = [said EXCEPT ![n] = Append(@, "failed")]
    BY <1>15 DEF CheckFails
  <2>2. \A m \in Proc : Reads(m)' => m = n /\ Reads(n)
    BY <2>1, OneRuns DEF Reads, Running
  <2>3. said[n] \in Seq(Word) /\ said'[n] = Append(said[n], "failed")
    BY <2>1 DEF TypeOK, Word
  <2>4. ASSUME NEW v, Heard(n, v)
        PROVE  LastWord(said'[n], v) \/ (current = n /\ auth = v /\ AllEnded(said'[n]))
    BY <2>3, <2>4, LastOfFailed DEF Heard
  <2>5. Diagnostics(n, seen[n])' = Diagnostics(n, seen[n])
    BY <2>1 DEF Diagnostics, Errs
  <2> QED  BY <2>1, <2>2, <2>4, <2>5 DEF Talk, Heard
<1>5. CASE Forward
  <2>1. taken \in Proc /\ taken # None
    BY <1>5, Constants DEF Forward, Order, Spawned
  <2>2. CASE proc[taken] = "alive"
    <3>1. owes'[taken] /\ UNCHANGED proc
      BY <1>5, <2>1, <2>2 DEF Forward, TypeOK
    <3>2. \A n \in Proc : Reads(n)' => n = taken
      BY <2>1, <2>2, <3>1, OneRuns DEF Reads, Running
    <3> QED  BY <3>1, <3>2 DEF Talk
  <2>3. CASE proc[taken] # "alive"
    BY <1>1, <1>5, <2>1, <2>3 DEF Forward
  <2> QED  BY <2>2, <2>3
<1>6. CASE Spawn
  <2>1. \A n \in Proc : Reads(n)' => Reads(n)
    <3>1. PICK k \in Proc : Spawned = 1..k /\ Cardinality(Spawned) = k
      BY NextNumber DEF Order
    <3>2. /\ proc' = [proc EXCEPT ![k + 1] = "alive"] /\ UNCHANGED open
          /\ k + 1 \in Proc
      BY <1>6, <3>1 DEF Spawn
    <3>3. open[k + 1] = Unread
      BY <3>1, <3>2, Constants DEF Unborn, Proc
    <3> QED  BY <3>2, <3>3, Constants DEF Reads, TypeOK
  <2> QED  BY <1>6, <2>1, TalkKept DEF Spawn
<1>7. CASE OpenFiles
  <2>1. fresh \in Proc /\ owes'[fresh] /\ UNCHANGED proc
    BY <1>7 DEF OpenFiles, Life, Booting, Spawned, TypeOK
  <2>2. \A n \in Proc : Reads(n)' => n = fresh
    BY <1>7, <2>1, Constants DEF OpenFiles, Life, Reads, Running
  <2> QED  BY <2>1, <2>2 DEF Talk
<1>8. CASE SwapClient
  <2>1. /\ UNCHANGED <<open, seen, owes, said, auth, overtaken, proc>>
        /\ current' = fresh
    BY <1>8 DEF SwapClient
  <2>2. \A n \in Proc : Reads(n)' => Reads(n) /\ n = fresh
    BY <1>8, <2>1, Constants DEF SwapClient, Life, Reads, Running
  <2> QED
    BY <2>1, <2>2 DEF Talk, Heard, LastWord, AllEnded, Diagnostics, Errs
<1>9. ASSUME NEW n \in Proc, Publish(n) PROVE Talk'
  <2>1. /\ UNCHANGED <<open, seen, auth, current, overtaken, proc>>
        /\ proc[n] = "alive"
        /\ said' = [said EXCEPT ![n] = Append(@, Diagnostics(n, seen[n]))]
    BY <1>9 DEF Publish
  <2>2. \A m \in Proc : Reads(m)' => m = n
    BY <2>1, OneRuns DEF Reads, Running
  <2>3. /\ said[n] \in Seq(Word) /\ said'[n] = Append(said[n], Diagnostics(n, seen[n]))
        /\ Diagnostics(n, seen[n]) \in Word
    BY <2>1, DiagnosticsType DEF TypeOK, Word
  <2>4. LastWord(said'[n], Diagnostics(n, seen[n]))
    BY <2>3, LastOfAppend
  <2>5. Diagnostics(n, seen[n])' = Diagnostics(n, seen[n])
    BY <2>1 DEF Diagnostics, Errs
  <2> QED  BY <2>2, <2>4, <2>5 DEF Talk, Heard
<1>10. ASSUME NEW n \in Proc, CheckStarts(n) PROVE Talk'
  BY <1>1, <1>10 DEF CheckStarts
<1>11. ASSUME NEW n \in Proc, CheckEnds(n) PROVE Talk'
  <2>1. /\ UNCHANGED <<open, auth, current, overtaken, proc>>
        /\ proc[n] = "alive" /\ seen' = [seen EXCEPT ![n] = run[n]]
        /\ said' = [said EXCEPT ![n] = @ \o <<Diagnostics(n, run[n]), "ended">>]
    BY <1>11 DEF CheckEnds
  <2>2. \A m \in Proc : Reads(m)' => m = n
    BY <2>1, OneRuns DEF Reads, Running
  <2>3. /\ said[n] \in Seq(Word) /\ Diagnostics(n, run[n]) \in Word
        /\ said'[n] = said[n] \o <<Diagnostics(n, run[n]), "ended">>
    BY <2>1, DiagnosticsType DEF TypeOK, Word
  <2>4. LastWord(said'[n], Diagnostics(n, run[n]))
    BY <2>3, LastOfCheck
  <2>5. Diagnostics(n, seen[n])' = Diagnostics(n, run[n])
    BY <2>1 DEF Diagnostics, Errs, TypeOK
  <2> QED  BY <2>2, <2>4, <2>5 DEF Talk, Heard
<1>12. ASSUME NEW m \in Proc, Apply(m) PROVE Talk'
  <2>1. /\ UNCHANGED <<open, seen, owes, current, proc>>
        /\ said[m] # <<>> /\ said[m] \in Seq(Word) /\ current >= m
        /\ said' = [said EXCEPT ![m] = Tail(@)]
        /\ auth' = IF Head(said[m]) \in {"red", "green"} THEN Head(said[m]) ELSE auth
        /\ overtaken' = (overtaken \/ current > m)
    BY <1>12 DEF Apply, ApplyEvent, TypeOK, Word
  <2> SUFFICES ASSUME NEW n \in Proc, Reads(n)', seen'[n] # Unread, ~owes'[n], ~overtaken'
               PROVE  Heard(n, Diagnostics(n, seen[n]))'
    BY DEF Talk
  <2> DEFINE v == Diagnostics(n, seen[n])
  <2>2. v' = v
    BY <2>1 DEF Diagnostics, Errs
  <2>3. v \in {"red", "green"}
    BY DiagnosticsType
  <2>4. Running(n) /\ Heard(n, v)
    BY <2>1 DEF Talk, Reads, Running
  <2> HIDE DEF v
  <2>5. current \in Proc /\ current <= n /\ m \in Spawned /\ m <= n
    BY <2>1, <2>4 DEF Order, Unborn, Spawned
  <2>6. CASE m = n
    <3>1. current = n /\ current' = n /\ said'[n] = Tail(said[n])
      BY <2>1, <2>5, <2>6, Constants DEF TypeOK
    <3>2. CASE LastWord(said[n], v)
      <4>1. LastWord(said'[n], v) \/ (Head(said[n]) = v /\ AllEnded(said'[n]))
        BY <2>1, <2>6, <3>1, <3>2, TailWord
      <4> QED  BY <2>1, <2>2, <2>3, <2>6, <3>1, <4>1 DEF Heard, v
    <3>3. CASE auth = v /\ AllEnded(said[n])
      <4>1. Head(said[n]) \in After /\ AllEnded(said'[n])
        BY <2>1, <2>6, <3>1, <3>3, TailEnded
      <4> QED  BY <2>1, <2>2, <2>6, <3>1, <3>3, <4>1 DEF Heard, v, After
    <3> QED  BY <2>4, <3>2, <3>3 DEF Heard
  <2>7. CASE m # n
    <3>1. said'[n] = said[n]
      BY <2>1, <2>7 DEF TypeOK
    <3>2. ~(current > m)
      BY <2>1
    <3>3. current # n
      BY <2>1, <2>5, <2>7, <3>2, Constants
    <3> QED  BY <2>2, <2>4, <3>1, <3>3 DEF Heard, v
  <2> QED  BY <2>6, <2>7
<1>13. CASE UNCHANGED vars
  BY <1>1, <1>13 DEF vars
<1> QED
  BY <1>2, <1>3, <1>4, <1>5, <1>6, <1>7, <1>8, <1>9, <1>10, <1>11, <1>12, <1>13,
     <1>14, <1>15
     DEF Next, FsThread, Monitor, Analyzer

-----------------------------------------------------------------------------
(* The verdict.                                                            *)

LEMMA InitIInv == Init => IInv
<1> SUFFICES ASSUME Init PROVE IInv
  OBVIOUS
<1>1. 1 \in Proc /\ 0 \in Version /\ Unread \notin Version
  BY Constants, SessionConstants DEF Proc, Version
<1>2. \A n \in Proc : n \notin Spawned => n # 1
  BY <1>1 DEF Init, Spawned
<1>3. Unborn /\ Opened
  BY <1>1, <1>2 DEF Init, Unborn, Opened
<1>4. Text /\ Checks
  BY <1>1 DEF Init, Text, Checks, Reads
<1>5. Talk /\ Done /\ Follows
  BY <1>1 DEF Init, Talk, Done, Follows, Tree
<1> QED
  BY <1>3, <1>4, <1>5, InitType, InitLife, InitOrder DEF IInv

LEMMA RestFromIInv == IInv => RestIsTruth
<1> SUFFICES ASSUME IInv, AtRest, ~missed, ~overtaken
             PROVE  tree = IF sentinel THEN "red" ELSE Truth
  BY DEF RestIsTruth
<1>1. /\ child \in Proc /\ child = current /\ proc[child] = "alive"
      /\ open[child] \in Version /\ Reads(child) /\ ~Moving /\ disk \in Version
  BY DEF AtRest, IInv, TypeOK, Opened, Reads, Moving
<1>2. CASE sentinel
  BY <1>2 DEF IInv, Follows, Tree
<1>3. CASE ~sentinel
  <2>1. ~Failed /\ said[child] = <<>> /\ ~owes[child]
    BY <1>1, <1>3 DEF AtRest, Failed
  <2>2. open[child] = disk /\ seen[child] = disk /\ disk # Unread
    BY <1>1, <2>1, Constants DEF AtRest, IInv, Text, Checks
  <2>3. Heard(child, Diagnostics(child, disk))
    BY <1>1, <2>1, <2>2 DEF IInv, Talk
  <2>4. auth = Diagnostics(child, disk) /\ flycheckDone
    BY <1>1, <2>1, <2>2, <2>3 DEF Heard, LastWord, IInv, Done
  <2> QED
    BY <1>3, <2>2, <2>4 DEF IInv, Follows, Tree, Diagnostics, Errs, Truth
<1> QED  BY <1>2, <1>3

\* The verdict a session settles on is that of the file on disk, through every
\* number of edits, crashes and evictions, unless an edit was written to an
\* analyzer whose successor had read the file or a dead one was heard last;
\* once a cargo check failed to run, it is red.
THEOREM VerdictIsTruth == Spec => []RestIsTruth
<1>1. IInv /\ [Next]_vars => IInv'
  BY TypeStep, LifeStep, OrderStep, UnbornStep, OpenedStep, TextStep, TalkStep, DoneStep,
     FollowsStep DEF IInv
<1> QED  BY <1>1, InitIInv, RestFromIInv, PTL DEF Spec
=============================================================================
