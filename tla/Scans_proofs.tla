---------------------------- MODULE Scans_proofs ----------------------------
(***************************************************************************)
(* Proofs about the research jobs and their books: what the books hold     *)
(* when restarts, failed threads, the Desk and the scheduler start and end *)
(* any number of jobs in any order.                                        *)
(***************************************************************************)
EXTENDS Scans, TLAPS

USE TimeAssumption, BoundAssumption DEF Jobs, None

Live == {"unstarted", "ready", "working", "read", "written"}

\* The scheduler holds the slot it found due while it triggers it.
HoldsSlot == loop \in {"trigger", "start"} => slot \in Slots

\* Jobs are numbered in the order they are made.
NoneAhead == \A j \in Jobs : j > made => job[j] = "none" /\ thread[j] = "none" /\ j \notin saved

\* A thread that is not finished has a job the lock counts as active.
LiveIsActive == \A j \in Jobs : thread[j] \in Live => job[j] \in Active

\* While a job is active no later job of its kind exists: what _active_job in
\* start_scan and start_deep is there for.
NoneAfterActive ==
    \A i, j \in Jobs : job[j] \in Active /\ i > j /\ i <= made => kind[i] # kind[j]

WrittenIsSaved == \A j \in Jobs : thread[j] = "written" \/ job[j] = "done" => j \in saved

BooksAreSaved ==
    /\ scanBook.job # None => scanBook.job \in saved /\ kind[scanBook.job] = "scan"
    /\ deepBook.job # None => deepBook.job \in saved /\ kind[deepBook.job] = "deep"

\* What a deep job read is still what is on disk when it writes, unless the read failed.
ReadIsOnDisk ==
    \A j \in Jobs : thread[j] = "read" /\ kind[j] = "deep" /\ j \notin blind => previous[j] = deepBook.reports

LEMMA ReportTypes == NoReports \in [Tickers -> Report]
  BY DEF NoReports, Report

IInv ==
    /\ TypeOK /\ HoldsSlot
    /\ NoneAhead /\ LiveIsActive /\ NoneAfterActive
    /\ WrittenIsSaved /\ BooksAreSaved /\ ReadIsOnDisk

LEMMA InitInv == Init => IInv
<1> SUFFICES ASSUME Init PROVE IInv
  OBVIOUS
<1>1. TypeOK
  <2>1. /\ now \in 0..MaxTick /\ made \in 0..MaxJobs /\ slot \in 0..MaxTick /\ last \in 0..MaxTick
        /\ faults \in 0..MaxFaults /\ hindered \subseteq Slots /\ saved \subseteq Jobs /\ orphans \subseteq Jobs
        /\ loop \in {"wait", "trigger", "start", "starting", "busy"}
    BY DEF Init
  <2>7. polled \in BOOLEAN
    BY Zenon DEF Init
  <2>2. /\ kind \in [Jobs -> Kinds] /\ thread \in [Jobs -> Threads]
        /\ job \in [Jobs -> {"none", "queued", "running", "done", "error"}]
    BY DEF Init, Kinds, Threads
  <2>3. /\ scores \in [Jobs -> BOOLEAN] /\ fires \in [Slots -> SUBSET (0..MaxTick)] /\ blind \subseteq Jobs
        /\ results \in [Jobs -> [Tickers -> Report]] /\ previous \in [Jobs -> [Tickers -> Report]]
    BY ReportTypes DEF Init
  <2>4. None \in 0..MaxJobs
    OBVIOUS
  <2>5. scanBook \in [job : 0..MaxJobs, scores : BOOLEAN]
    BY <2>4 DEF Init
  <2>6. deepBook \in [job : 0..MaxJobs, reports : [Tickers -> Report]]
    BY <2>4, ReportTypes DEF Init
  <2> QED
    BY <2>1, <2>2, <2>3, <2>5, <2>6, <2>7 DEF TypeOK
<1> QED
  BY <1>1 DEF Init, IInv, HoldsSlot, NoneAhead, LiveIsActive, NoneAfterActive, WrittenIsSaved,
              BooksAreSaved, ReadIsOnDisk, Live, Active

-----------------------------------------------------------------------------
\* What a started job does to the state, whoever starts it.
LEMMA EnqueueFacts ==
    ASSUME TypeOK, NEW k \in Kinds, Enqueue(k)
    PROVE  /\ made + 1 \in Jobs /\ made' = made + 1 /\ made \in Nat
           /\ kind'[made + 1] = k /\ job'[made + 1] = "queued" /\ thread'[made + 1] = "unstarted"
           /\ \A j \in Jobs \ {made + 1} :
                 kind'[j] = kind[j] /\ job'[j] = job[j] /\ thread'[j] = thread[j]
           /\ ~IsActive(k)
<1>1. made + 1 \in Jobs /\ made \in Nat
  BY DEF Enqueue, TypeOK
<1> QED
  BY <1>1 DEF Enqueue, CanStart, TypeOK

LEMMA EnqueueType ==
    ASSUME TypeOK, NEW k \in Kinds, Enqueue(k)
    PROVE  /\ kind' \in [Jobs -> Kinds]
           /\ job' \in [Jobs -> {"none", "queued", "running", "done", "error"}]
           /\ thread' \in [Jobs -> Threads] /\ made' \in 0..MaxJobs
           /\ UNCHANGED <<scores, results, previous, blind, orphans>>
<1>1. made + 1 \in Jobs
  BY EnqueueFacts
<1> QED
  BY <1>1 DEF Enqueue, TypeOK, Threads

\* The steps of the scheduler's loop, the clock and a restart keep the types.
LoopOnly == Poll \/ FindsScan \/ FindsNone \/ LoopJoins \/ Notes \/ LoopReturns

LEMMA LoopType == TypeOK /\ HoldsSlot /\ (LoopOnly \/ Tick) => TypeOK' /\ HoldsSlot'
<1> SUFFICES ASSUME TypeOK, HoldsSlot, LoopOnly \/ Tick PROVE TypeOK' /\ HoldsSlot'
  OBVIOUS
<1>1. CASE Poll
  BY <1>1 DEF Poll, TypeOK, HoldsSlot, jobVars, bookVars
<1>2. CASE FindsScan
  BY <1>2 DEF FindsScan, TypeOK, HoldsSlot, jobVars, bookVars
<1>3. CASE FindsNone
  BY <1>3 DEF FindsNone, TypeOK, HoldsSlot, jobVars, bookVars
<1>4. CASE LoopJoins
  BY <1>4 DEF LoopJoins, TypeOK, HoldsSlot, jobVars, bookVars
<1>5. CASE Notes
  BY <1>5 DEF Notes, TypeOK, HoldsSlot, jobVars, bookVars
<1>6. CASE LoopReturns
  BY <1>6 DEF LoopReturns, TypeOK, HoldsSlot, jobVars, bookVars
<1>7. CASE Tick
  <2>1. now' \in 0..MaxTick /\ hindered' \subseteq Slots
    <3> DEFINE near == {s \in Slots : s <= now + 1 /\ now < s + Window}
    <3>1. now < MaxTick /\ now' = now + 1 /\ (hindered' = hindered \/ hindered' = hindered \cup near)
      BY <1>7, Zenon DEF Tick
    <3>2. near \subseteq Slots
      OBVIOUS
    <3>3. now \in 0..MaxTick /\ hindered \subseteq Slots
      BY DEF TypeOK
    <3> HIDE DEF near
    <3>4. now' \in 0..MaxTick
      BY <3>1, <3>3 DEF TimeAssumption
    <3>5. hindered' \subseteq Slots
      BY <3>1, <3>2, <3>3
    <3> QED
      BY <3>4, <3>5
  <2>2. polled' \in BOOLEAN
    BY <1>7, Zenon DEF Tick
  <2>3. UNCHANGED <<jobVars, bookVars, loop, slot, last, fires, faults>>
    BY <1>7 DEF Tick
  <2> QED
    BY <2>1, <2>2, <2>3 DEF TypeOK, HoldsSlot, jobVars, bookVars
<1> QED
  BY <1>1, <1>2, <1>3, <1>4, <1>5, <1>6, <1>7 DEF LoopOnly
-----------------------------------------------------------------------------
(* The steps, one lemma for each.                                          *)

\* A step that leaves jobs and books alone keeps what is said of them.
LEMMA JobsStay == IInv /\ UNCHANGED <<jobVars, bookVars>> /\ TypeOK' /\ HoldsSlot' => IInv'
  BY DEF IInv, jobVars, bookVars, NoneAhead, LiveIsActive, NoneAfterActive, WrittenIsSaved,
         BooksAreSaved, ReadIsOnDisk

LEMMA EnqueueStep ==
    ASSUME IInv, NEW k \in Kinds, Enqueue(k), UNCHANGED bookVars, TypeOK', HoldsSlot'
    PROVE  IInv'
<1>1. /\ TypeOK /\ made + 1 \in Jobs /\ made' = made + 1 /\ made \in Nat
      /\ kind'[made + 1] = k /\ job'[made + 1] = "queued" /\ thread'[made + 1] = "unstarted"
      /\ \A j \in Jobs \ {made + 1} :
            kind'[j] = kind[j] /\ job'[j] = job[j] /\ thread'[j] = thread[j]
      /\ ~IsActive(k)
  BY EnqueueFacts DEF IInv
<1>2. UNCHANGED <<previous, blind, scanBook, deepBook, saved>>
  BY DEF Enqueue, bookVars
<1>3. NoneAhead'
  BY <1>1, <1>2 DEF IInv, NoneAhead
<1>4. LiveIsActive'
  BY <1>1 DEF IInv, LiveIsActive, Active
<1>5. NoneAfterActive'
  BY <1>1 DEF IInv, NoneAfterActive, IsActive, Active
<1>6. WrittenIsSaved'
  BY <1>1, <1>2 DEF IInv, WrittenIsSaved
<1>7. made + 1 \notin saved
  BY <1>1 DEF IInv, NoneAhead
<1>8. BooksAreSaved'
  BY <1>1, <1>2, <1>7 DEF IInv, BooksAreSaved, TypeOK
<1>9. ReadIsOnDisk'
  BY <1>1, <1>2 DEF IInv, ReadIsOnDisk
<1> QED
  BY <1>3, <1>4, <1>5, <1>6, <1>8, <1>9 DEF IInv

\* A step of one thread after which its job is still active, or is over.
LEMMA ThreadStep ==
    ASSUME IInv, NEW j \in Jobs, NEW to, NEW status,
           thread' = [thread EXCEPT ![j] = to], job' = [job EXCEPT ![j] = status],
           UNCHANGED <<kind, made, bookVars>>, TypeOK', HoldsSlot',
           thread[j] \in Live, to \in Live => status \in Active, 
           to = "written" \/ status = "done" => j \in saved,
           \A i \in Jobs : thread'[i] = "read" /\ kind[i] = "deep" /\ i \notin blind' => previous'[i] = deepBook.reports
    PROVE  IInv'
<1>1. /\ TypeOK /\ thread'[j] = to /\ job'[j] = status
      /\ \A i \in Jobs \ {j} : thread'[i] = thread[i] /\ job'[i] = job[i]
  BY DEF IInv, TypeOK
<1>2. job[j] \in Active /\ job[j] # "none"
  BY DEF IInv, LiveIsActive, Active
<1>3. NoneAhead'
  BY <1>1, <1>2 DEF IInv, NoneAhead, bookVars
<1>4. LiveIsActive'
  BY <1>1 DEF IInv, LiveIsActive
<1>5. NoneAfterActive'
  BY <1>1, <1>2 DEF IInv, NoneAfterActive
<1>6. WrittenIsSaved'
  BY <1>1 DEF IInv, WrittenIsSaved, bookVars
<1>7. BooksAreSaved' /\ ReadIsOnDisk'
  BY DEF IInv, BooksAreSaved, ReadIsOnDisk, bookVars
<1> QED
  BY <1>3, <1>4, <1>5, <1>6, <1>7 DEF IInv

\* What Write does, and why no other job of the kind is in its way.
LEMMA WriteFacts ==
    ASSUME IInv, NEW j \in Jobs, Write(j)
    PROVE  /\ \A i \in Jobs \ {j} : kind[i] = kind[j] => thread[i] # "read"
           /\ scanBook.job \in 0..MaxJobs /\ deepBook.job \in 0..MaxJobs
           /\ kind[j] = "scan" => scanBook.job <= j
           /\ kind[j] = "deep" => deepBook.job <= j /\ (j \in blind \/ previous[j] = deepBook.reports)
           /\ job[j] \in Active /\ j <= made
<1>1. TypeOK /\ thread[j] = "read" /\ job[j] \in Active /\ made \in Nat
  BY DEF Write, Step, IInv, LiveIsActive, Live, TypeOK
<1>2. j <= made
  BY <1>1 DEF IInv, NoneAhead, Active
<1>3. ASSUME NEW i \in Jobs \ {j}, kind[i] = kind[j], thread[i] = "read" PROVE FALSE
  <2>1. job[i] \in Active /\ i <= made
    BY <1>1, <1>3 DEF IInv, LiveIsActive, Live, NoneAhead, Active
  <2> QED
    BY <1>1, <1>2, <1>3, <2>1 DEF IInv, NoneAfterActive
<1>4. ASSUME NEW b \in 0..MaxJobs, b # None => b \in saved /\ kind[b] = kind[j] PROVE b <= j
  <2>1. CASE b = 0
    BY <2>1
  <2>2. CASE b # 0
    <3>1. b \in Jobs /\ b \in saved /\ kind[b] = kind[j]
      BY <1>4, <2>2
    <3>2. b <= made
      BY <1>1, <3>1 DEF IInv, NoneAhead
    <3> QED
      BY <1>1, <3>1, <3>2 DEF IInv, NoneAfterActive
  <2> QED
    BY <2>1, <2>2
<1>5. scanBook.job \in 0..MaxJobs /\ deepBook.job \in 0..MaxJobs
  BY <1>1 DEF TypeOK
<1>6. kind[j] = "scan" => scanBook.job <= j
  BY <1>4, <1>5 DEF IInv, BooksAreSaved
<1>7. kind[j] = "deep" => deepBook.job <= j
  BY <1>4, <1>5 DEF IInv, BooksAreSaved
<1> QED
  BY <1>1, <1>2, <1>3, <1>5, <1>6, <1>7 DEF IInv, ReadIsOnDisk

LEMMA MergedType == ASSUME TypeOK, NEW j \in Jobs PROVE Merged(j) \in [Tickers -> Report]
<1>1. results[j] \in [Tickers -> Report] /\ previous[j] \in [Tickers -> Report]
  BY DEF TypeOK
<1>2. ASSUME NEW t \in Tickers PROVE (IF results[j][t] # "none" THEN results[j][t] ELSE previous[j][t]) \in Report
  BY <1>1
<1> QED
  BY <1>2 DEF Merged

LEMMA WriteStep == ASSUME IInv, NEW j \in Jobs, Write(j) PROVE IInv'
<1>1. /\ thread' = [thread EXCEPT ![j] = "written"] /\ saved' = saved \cup {j}
      /\ scores' = [scores EXCEPT ![j] = FALSE] /\ blind' = blind \ {j}
      /\ results' = [results EXCEPT ![j] = NoReports] /\ previous' = [previous EXCEPT ![j] = NoReports]
      /\ UNCHANGED <<now, kind, job, made, orphans, loopVars, faults>>
      /\ kind[j] = "scan" => scanBook' = [job |-> j, scores |-> scores[j]] /\ UNCHANGED deepBook
      /\ kind[j] = "deep" => deepBook' = [job |-> j, reports |-> Merged(j)] /\ UNCHANGED scanBook
      /\ thread[j] = "read"
  BY DEF Write, Step
<1>2. TypeOK /\ HoldsSlot /\ kind[j] \in {"scan", "deep"}
  BY DEF IInv, TypeOK, Kinds
<1>3. /\ \A i \in Jobs \ {j} : kind[i] = kind[j] => thread[i] # "read"
      /\ job[j] \in Active /\ j <= made
  BY WriteFacts
<1>4. TypeOK' /\ HoldsSlot'
  <2>1. j \in 0..MaxJobs /\ scores[j] \in BOOLEAN /\ Merged(j) \in [Tickers -> Report]
    BY <1>2, MergedType DEF TypeOK
  <2>2. scanBook' \in [job : 0..MaxJobs, scores : BOOLEAN]
    BY <1>1, <1>2, <2>1 DEF TypeOK
  <2>3. deepBook' \in [job : 0..MaxJobs, reports : [Tickers -> Report]]
    BY <1>1, <1>2, <2>1 DEF TypeOK
  <2>4. /\ thread' \in [Jobs -> Threads] /\ saved' \subseteq Jobs /\ blind' \subseteq Jobs
        /\ scores' \in [Jobs -> BOOLEAN]
        /\ results' \in [Jobs -> [Tickers -> Report]] /\ previous' \in [Jobs -> [Tickers -> Report]]
    BY <1>1, <1>2, ReportTypes DEF TypeOK, Threads
  <2>5. /\ UNCHANGED <<now, kind, job, made, orphans, loop, slot, polled, last, fires, hindered, faults>>
    BY <1>1 DEF loopVars
  <2> QED
    BY ONLY <1>2, <2>2, <2>3, <2>4, <2>5 DEF TypeOK, HoldsSlot
<1>5. /\ thread'[j] = "written" /\ \A i \in Jobs \ {j} : thread'[i] = thread[i] /\ previous'[i] = previous[i]
      /\ \A i \in Jobs \ {j} : i \in blind' <=> i \in blind
      /\ UNCHANGED <<kind, job, made>>
  BY <1>1, <1>2 DEF TypeOK
<1>6. NoneAhead' /\ LiveIsActive' /\ NoneAfterActive'
  BY <1>1, <1>2, <1>3, <1>5 DEF IInv, NoneAhead, LiveIsActive, NoneAfterActive, Live, Active, TypeOK
<1>7. WrittenIsSaved'
  BY <1>1, <1>5 DEF IInv, WrittenIsSaved
<1>8. BooksAreSaved'
  BY <1>1, <1>2, <1>5 DEF IInv, BooksAreSaved
<1>9. ReadIsOnDisk'
  BY <1>1, <1>2, <1>3, <1>5 DEF IInv, ReadIsOnDisk
<1> QED
  BY <1>4, <1>6, <1>7, <1>8, <1>9 DEF IInv

LEMMA RunStep == ASSUME IInv, NEW j \in Jobs, Run(j) \/ ThreadRaises(j) PROVE IInv'
<1>0. TypeOK /\ HoldsSlot
  BY DEF IInv
<1>1. CASE ThreadStarts(j)
  <2>1. thread' = [thread EXCEPT ![j] = "ready"] /\ job' = job /\ thread[j] = "unstarted"
        /\ UNCHANGED <<now, kind, scores, results, previous, blind, made, orphans, bookVars, loopVars, faults>>
    BY <1>1 DEF ThreadStarts
  <2>2. TypeOK' /\ HoldsSlot'
    BY <1>0, <2>1 DEF TypeOK, HoldsSlot, bookVars, loopVars, Threads
  <2>3. job' = [job EXCEPT ![j] = job[j]] /\ job[j] \in Active
    BY <1>0, <2>1 DEF TypeOK, IInv, LiveIsActive, Live
  <2>4. \A i \in Jobs : thread'[i] = "read" /\ kind[i] = "deep" /\ i \notin blind' => previous'[i] = deepBook.reports
    BY <1>0, <2>1 DEF TypeOK, IInv, ReadIsOnDisk
  <2> QED
    BY <2>1, <2>2, <2>3, <2>4, ThreadStep DEF Live, Active
<1>2. CASE RunStarts(j)
  <2>1. thread' = [thread EXCEPT ![j] = "working"] /\ job' = [job EXCEPT ![j] = "running"] /\ thread[j] = "ready"
        /\ UNCHANGED <<now, kind, scores, results, previous, blind, made, orphans, bookVars, loopVars, faults>>
    BY <1>2 DEF RunStarts, Step
  <2>2. TypeOK' /\ HoldsSlot'
    BY <1>0, <2>1 DEF TypeOK, HoldsSlot, bookVars, loopVars, Threads
  <2>4. \A i \in Jobs : thread'[i] = "read" /\ kind[i] = "deep" /\ i \notin blind' => previous'[i] = deepBook.reports
    BY <1>0, <2>1 DEF TypeOK, IInv, ReadIsOnDisk
  <2> QED
    BY <2>1, <2>2, <2>4, ThreadStep DEF Live, Active
<1>3. ASSUME NEW b \in BOOLEAN, ScanAnalysed(j, b) PROVE IInv'
  <2>1. /\ thread' = [thread EXCEPT ![j] = "read"] /\ job' = job /\ thread[j] = "working" /\ kind[j] = "scan"
        /\ scores' = [scores EXCEPT ![j] = b]
        /\ UNCHANGED <<now, kind, results, previous, blind, made, orphans, bookVars, loopVars, faults>>
    BY <1>3 DEF ScanAnalysed, Step
  <2>2. scores' \in [Jobs -> BOOLEAN] /\ thread' \in [Jobs -> Threads]
    BY <1>0, <2>1 DEF TypeOK, Threads
  <2>3. TypeOK' /\ HoldsSlot'
    BY <1>0, <2>1, <2>2 DEF TypeOK, HoldsSlot, bookVars, loopVars
  <2>4. job' = [job EXCEPT ![j] = job[j]] /\ job[j] \in Active
    BY <1>0, <2>1 DEF TypeOK, IInv, LiveIsActive, Live
  <2>5. \A i \in Jobs : thread'[i] = "read" /\ kind[i] = "deep" /\ i \notin blind' => previous'[i] = deepBook.reports
    BY <1>0, <2>1 DEF TypeOK, IInv, ReadIsOnDisk
  <2> QED
    BY <2>1, <2>3, <2>4, <2>5, ThreadStep DEF Live, Active
<1>8. ASSUME NEW batch \in [Tickers -> Report], NEW isRead \in BOOLEAN, DeepAnalysed(j, batch, isRead) PROVE IInv'
  <2>1. /\ thread' = [thread EXCEPT ![j] = "read"] /\ job' = job /\ thread[j] = "working"
        /\ results' = [results EXCEPT ![j] = batch]
        /\ previous' = [previous EXCEPT ![j] = IF isRead THEN deepBook.reports ELSE NoReports]
        /\ blind' = (IF isRead THEN blind ELSE blind \cup {j})
        /\ UNCHANGED <<now, kind, scores, made, orphans, bookVars, loopVars, faults>>
    BY <1>8 DEF DeepAnalysed, Step
  <2>2. deepBook.reports \in [Tickers -> Report]
    BY <1>0 DEF TypeOK
  <2>3. (IF isRead THEN deepBook.reports ELSE NoReports) \in [Tickers -> Report]
    BY <2>2, ReportTypes
  <2>4. /\ previous' \in [Jobs -> [Tickers -> Report]] /\ results' \in [Jobs -> [Tickers -> Report]]
        /\ thread' \in [Jobs -> Threads] /\ blind' \subseteq Jobs
    BY <1>0, <2>1, <2>3 DEF TypeOK, Threads
  <2>5. TypeOK' /\ HoldsSlot'
    BY <1>0, <2>1, <2>4 DEF TypeOK, HoldsSlot, bookVars, loopVars
  <2>6. job' = [job EXCEPT ![j] = job[j]] /\ job[j] \in Active
    BY <1>0, <2>1 DEF TypeOK, IInv, LiveIsActive, Live
  <2>7. \A i \in Jobs : thread'[i] = "read" /\ kind[i] = "deep" /\ i \notin blind' => previous'[i] = deepBook.reports
    <3>1. j \in blind' \/ previous'[j] = deepBook.reports
      BY <1>0, <2>1 DEF TypeOK
    <3>2. \A i \in Jobs \ {j} : /\ thread'[i] = thread[i] /\ previous'[i] = previous[i]
                                /\ i \notin blind' => i \notin blind
      BY <1>0, <2>1 DEF TypeOK
    <3> QED
      BY <3>1, <3>2 DEF IInv, ReadIsOnDisk
  <2> QED
    BY <2>1, <2>5, <2>6, <2>7, ThreadStep DEF Live, Active
<1>4. CASE Write(j)
  BY <1>4, WriteStep
<1>5. CASE Finish(j)
  <2>1. thread' = [thread EXCEPT ![j] = "ended"] /\ job' = [job EXCEPT ![j] = "done"] /\ thread[j] = "written"
        /\ UNCHANGED <<now, kind, scores, results, previous, blind, made, orphans, bookVars, loopVars, faults>>
    BY <1>5 DEF Finish, Step
  <2>2. TypeOK' /\ HoldsSlot'
    BY <1>0, <2>1 DEF TypeOK, HoldsSlot, bookVars, loopVars, Threads
  <2>3. j \in saved
    BY <2>1 DEF IInv, WrittenIsSaved
  <2>4. \A i \in Jobs : thread'[i] = "read" /\ kind[i] = "deep" /\ i \notin blind' => previous'[i] = deepBook.reports
    BY <1>0, <2>1 DEF TypeOK, IInv, ReadIsOnDisk
  <2> QED
    BY <2>1, <2>2, <2>3, <2>4, ThreadStep DEF Live, Active
<1>6. CASE RunRaises(j)
  <2>1. /\ thread' = [thread EXCEPT ![j] = "ended"] /\ job' = [job EXCEPT ![j] = "error"]
        /\ thread[j] \in {"working", "read"}
        /\ scores' = [scores EXCEPT ![j] = FALSE] /\ blind' = blind \ {j}
        /\ results' = [results EXCEPT ![j] = NoReports] /\ previous' = [previous EXCEPT ![j] = NoReports]
        /\ UNCHANGED <<now, kind, made, orphans, bookVars, loopVars, faults>>
    BY <1>6 DEF RunRaises, RaisesIn
  <2>2. /\ thread' \in [Jobs -> Threads] /\ blind' \subseteq Jobs /\ scores' \in [Jobs -> BOOLEAN]
        /\ job' \in [Jobs -> {"none", "queued", "running", "done", "error"}]
        /\ results' \in [Jobs -> [Tickers -> Report]] /\ previous' \in [Jobs -> [Tickers -> Report]]
    BY <1>0, <2>1, ReportTypes DEF TypeOK, Threads
  <2>3. TypeOK' /\ HoldsSlot'
    BY <1>0, <2>1, <2>2 DEF TypeOK, HoldsSlot, bookVars, loopVars
  <2>4. \A i \in Jobs : thread'[i] = "read" /\ kind[i] = "deep" /\ i \notin blind' => previous'[i] = deepBook.reports
    BY <1>0, <2>1 DEF TypeOK, IInv, ReadIsOnDisk
  <2> QED
    BY <2>1, <2>3, <2>4, ThreadStep DEF Live, Active
<1>7. CASE ThreadRaises(j)
  <2>1. /\ thread' = [thread EXCEPT ![j] = "none"] /\ job' = job /\ thread[j] = "unstarted"
        /\ orphans' = orphans \cup {j} /\ hindered' = hindered \cup {s \in Slots : InWindow(s)}
        /\ loop' = (IF loop = "starting" /\ kind[j] = "scan" THEN "wait" ELSE loop)
        /\ faults < MaxFaults /\ faults' = faults + 1
        /\ UNCHANGED <<now, kind, scores, results, previous, blind, made, bookVars, slot, polled, last, fires>>
    BY <1>7 DEF ThreadRaises, Fault
  <2>5. thread' \in [Jobs -> Threads] /\ orphans' \subseteq Jobs /\ hindered' \subseteq Slots
    BY <1>0, <2>1 DEF TypeOK, Threads
  <2>6. loop' = loop \/ loop' = "wait"
    BY <2>1
  <2>7. faults' \in 0..MaxFaults
    BY <1>0, <2>1 DEF TypeOK
  <2>8. /\ UNCHANGED <<now, kind, scores, results, previous, blind, made, scanBook, deepBook, saved>>
        /\ UNCHANGED <<slot, polled, last, fires, job>>
    BY <2>1 DEF bookVars
  <2>2. TypeOK' /\ HoldsSlot'
    BY ONLY <1>0, <2>5, <2>6, <2>7, <2>8 DEF TypeOK, HoldsSlot
  <2>3. job' = [job EXCEPT ![j] = job[j]] /\ job[j] \in Active
    BY <1>0, <2>1 DEF TypeOK, IInv, LiveIsActive, Live
  <2>4. \A i \in Jobs : thread'[i] = "read" /\ kind[i] = "deep" /\ i \notin blind' => previous'[i] = deepBook.reports
    BY <1>0, <2>1 DEF TypeOK, IInv, ReadIsOnDisk
  <2> QED
    BY <2>1, <2>2, <2>3, <2>4, ThreadStep DEF Live, Active
<1> QED
  BY <1>1, <1>2, <1>3, <1>4, <1>5, <1>6, <1>7, <1>8 DEF Run

LEMMA RestartStep == IInv /\ Restart => IInv'
<1> SUFFICES ASSUME IInv, Restart PROVE IInv'
  OBVIOUS
<1>1. /\ job' = [j \in Jobs |-> "none"] /\ thread' = [j \in Jobs |-> "none"]
      /\ orphans' = orphans \cup 1..made
      /\ scores' = [j \in Jobs |-> FALSE] /\ blind' = {}
      /\ results' = [j \in Jobs |-> NoReports] /\ previous' = [j \in Jobs |-> NoReports]
      /\ loop' = "wait" /\ slot' = None /\ last' = None
      /\ hindered' = hindered \cup {s \in Slots : InWindow(s)}
      /\ faults < MaxFaults /\ faults' = faults + 1
      /\ UNCHANGED <<now, kind, made, bookVars, fires>>
  BY DEF Restart, Fault
<1>2. polled' \in BOOLEAN
  BY Zenon DEF Restart
<1>3. TypeOK
  BY DEF IInv
<1>4. TypeOK' /\ HoldsSlot'
  <2>1. /\ job' \in [Jobs -> {"none", "queued", "running", "done", "error"}]
        /\ thread' \in [Jobs -> Threads] /\ scores' \in [Jobs -> BOOLEAN] /\ blind' \subseteq Jobs
        /\ results' \in [Jobs -> [Tickers -> Report]] /\ previous' \in [Jobs -> [Tickers -> Report]]
    BY <1>1, ReportTypes DEF Threads
  <2>5. 1..made \subseteq Jobs
    BY <1>3 DEF TypeOK
  <2>6. faults' \in 0..MaxFaults
    BY <1>1, <1>3 DEF TypeOK
  <2>7. orphans \subseteq Jobs /\ hindered \subseteq Slots
    BY <1>3 DEF TypeOK
  <2>2. orphans' \subseteq Jobs /\ hindered' \subseteq Slots /\ faults' \in 0..MaxFaults
    BY <1>1, <2>5, <2>6, <2>7
  <2>3. UNCHANGED <<now, kind, made, scanBook, deepBook, saved, fires>>
    BY <1>1 DEF bookVars
  <2>4. loop' = "wait" /\ slot' = 0 /\ last' = 0
    BY <1>1
  <2> QED
    BY ONLY <1>2, <1>3, <2>1, <2>2, <2>3, <2>4, TimeAssumption DEF TypeOK, HoldsSlot
<1> QED
  BY <1>1, <1>4 DEF IInv, NoneAhead, LiveIsActive, NoneAfterActive, WrittenIsSaved, BooksAreSaved,
                    ReadIsOnDisk, Live, Active, bookVars

LEMMA LoopStartsStep == IInv /\ LoopStarts => IInv'
<1> SUFFICES ASSUME IInv, LoopStarts PROVE IInv'
  OBVIOUS
<1>1. TypeOK /\ slot \in Slots /\ "scan" \in Kinds
  BY DEF IInv, HoldsSlot, LoopStarts, Kinds
<1>2. /\ fires' = [fires EXCEPT ![slot] = @ \cup {now}] /\ loop' = "starting"
      /\ UNCHANGED <<now, bookVars, slot, polled, last, hindered, faults>> /\ Enqueue("scan")
  BY DEF LoopStarts
<1>3. fires' \in [Slots -> SUBSET (0..MaxTick)]
  BY <1>1, <1>2 DEF TypeOK
<1>4. /\ kind' \in [Jobs -> Kinds]
      /\ job' \in [Jobs -> {"none", "queued", "running", "done", "error"}]
      /\ thread' \in [Jobs -> Threads] /\ made' \in 0..MaxJobs
      /\ UNCHANGED <<scores, results, previous, blind, orphans>>
  BY <1>1, <1>2, EnqueueType
<1>5. TypeOK' /\ HoldsSlot'
  BY <1>1, <1>2, <1>3, <1>4 DEF TypeOK, HoldsSlot, bookVars
<1> QED
  BY <1>1, <1>2, <1>5, EnqueueStep

LEMMA DeskStep == ASSUME IInv, NEW k \in Kinds, DeskStart(k) PROVE IInv'
<1>1. TypeOK /\ HoldsSlot
  BY DEF IInv
<1>2. /\ kind' \in [Jobs -> Kinds]
      /\ job' \in [Jobs -> {"none", "queued", "running", "done", "error"}]
      /\ thread' \in [Jobs -> Threads] /\ made' \in 0..MaxJobs
      /\ UNCHANGED <<scores, results, previous, blind, orphans>>
  BY <1>1, EnqueueType DEF DeskStart
<1>3. UNCHANGED <<now, bookVars, loopVars, faults>> /\ Enqueue(k)
  BY DEF DeskStart
<1>4. TypeOK' /\ HoldsSlot'
  BY <1>1, <1>2, <1>3 DEF TypeOK, HoldsSlot, bookVars, loopVars
<1> QED
  BY <1>3, <1>4, EnqueueStep

LEMMA InvStep == IInv /\ [Next]_vars => IInv'
<1> SUFFICES ASSUME IInv, [Next]_vars PROVE IInv'
  OBVIOUS
<1>1. ASSUME NEW j \in Jobs, Run(j) \/ ThreadRaises(j) PROVE IInv'
  BY <1>1, RunStep
<1>2. ASSUME NEW k \in Kinds, DeskStart(k) PROVE IInv'
  BY <1>2, DeskStep
<1>3. ASSUME LoopOnly \/ Tick PROVE IInv'
  <2>1. TypeOK' /\ HoldsSlot'
    BY <1>3, LoopType DEF IInv
  <2>2. UNCHANGED <<jobVars, bookVars>>
    BY <1>3 DEF LoopOnly, Poll, FindsScan, FindsNone, LoopJoins, Notes, LoopReturns, Tick
  <2> QED
    BY <2>1, <2>2, JobsStay
<1>4. CASE UNCHANGED vars
  <2>1. TypeOK' /\ HoldsSlot'
    BY <1>4 DEF IInv, TypeOK, HoldsSlot, vars, jobVars, bookVars, loopVars
  <2> QED
    BY <1>4, <2>1, JobsStay DEF vars
<1> QED
  BY <1>1, <1>2, <1>3, <1>4, RestartStep, LoopStartsStep DEF Next, Scheduler, LoopOnly

THEOREM Always == Spec => []IInv
<1> QED
  BY InitInv, InvStep, PTL DEF Spec

-----------------------------------------------------------------------------
\* Every reachable state is well typed.
THEOREM TypeCorrect == Spec => []TypeOK
<1>1. IInv => TypeOK
  BY DEF IInv
<1> QED
  BY <1>1, Always, PTL

\* Nobody is told "done" of a job that left no book (resolve_job), restarts
\* between the write and the status included.
THEOREM DoneIsSaved == Spec => []DoneWasSaved
<1>1. IInv => DoneWasSaved
  <2> SUFFICES ASSUME IInv, NEW j \in 1..made, Resolve(j) = "done" PROVE j \in saved
    BY DEF DoneWasSaved
  <2>1. j \in Jobs /\ j # 0 /\ TypeOK
    BY DEF IInv, TypeOK
  <2>2. CASE job[j] = "done"
    BY <2>1, <2>2 DEF IInv, WrittenIsSaved
  <2>3. CASE job[j] # "done"
    BY <2>1, <2>3 DEF Resolve, IInv, BooksAreSaved
  <2> QED
    BY <2>2, <2>3
<1> QED
  BY <1>1, Always, PTL

\* No step but Write touches the books.
LEMMA BooksStay == IInv /\ [Next]_vars => UNCHANGED <<scanBook, deepBook>> \/ \E j \in Jobs : Write(j)
<1> SUFFICES ASSUME IInv, [Next]_vars, ~\E j \in Jobs : Write(j) PROVE UNCHANGED <<scanBook, deepBook>>
  OBVIOUS
<1>1. ASSUME NEW j \in Jobs, Run(j) \/ ThreadRaises(j) PROVE UNCHANGED <<scanBook, deepBook>>
  BY <1>1 DEF Run, ThreadStarts, RunStarts, ScanAnalysed, DeepAnalysed, Finish, RunRaises,
                RaisesIn, ThreadRaises, bookVars
<1>2. ASSUME NEW k \in Kinds, DeskStart(k) PROVE UNCHANGED <<scanBook, deepBook>>
  BY <1>2 DEF DeskStart, bookVars
<1>3. ASSUME Scheduler \/ Tick \/ Restart PROVE UNCHANGED <<scanBook, deepBook>>
  BY <1>3 DEF Scheduler, Poll, FindsScan, FindsNone, LoopStarts, LoopJoins, Notes, LoopReturns,
              Tick, Restart, bookVars
<1>4. CASE UNCHANGED vars
  BY <1>4 DEF vars, bookVars
<1> QED
  BY <1>1, <1>2, <1>3, <1>4 DEF Next

\* The books never go back to an older job: start_scan and start_deep make no
\* job while one of its kind is active.
THEOREM BooksAlwaysForward == Spec => BooksMoveForward
<1>1. IInv /\ [Next]_vars => [scanBook'.job >= scanBook.job /\ deepBook'.job >= deepBook.job]_vars
  <2> SUFFICES ASSUME IInv, [Next]_vars PROVE scanBook'.job >= scanBook.job /\ deepBook'.job >= deepBook.job
    OBVIOUS
  <2>0. scanBook.job \in Nat /\ deepBook.job \in Nat /\ \A j \in Jobs : kind[j] \in {"scan", "deep"}
    BY DEF IInv, TypeOK, Kinds
  <2>1. CASE UNCHANGED <<scanBook, deepBook>>
    BY <2>0, <2>1
  <2>2. ASSUME NEW j \in Jobs, Write(j) PROVE scanBook'.job >= scanBook.job /\ deepBook'.job >= deepBook.job
    <3>1. /\ kind[j] = "scan" => scanBook.job <= j
          /\ kind[j] = "deep" => deepBook.job <= j
      BY <2>2, WriteFacts
    <3> QED
      BY <2>0, <2>2, <3>1 DEF Write
  <2> QED
    BY <2>1, <2>2, BooksStay
<1> QED
  BY <1>1, Always, PTL DEF Spec, BooksMoveForward

\* What merging keeps of the deep book (_run_deep_job): nothing is written between
\* a read of the old book and the write of the merged one, so a report is lost only
\* to the batch itself or to a read that failed.
THEOREM ReportsAlwaysKept == Spec => ReportsAreKept
<1> DEFINE Kept(t) ==
      \/ deepBook'.reports[t] = deepBook.reports[t]
      \/ /\ deepBook'.job # None
         /\ \/ results[deepBook'.job][t] # "none" /\ deepBook'.reports[t] = results[deepBook'.job][t]
            \/ deepBook'.job \in blind
<1>1. IInv /\ [Next]_vars => [\A t \in Tickers : Kept(t)]_vars
  <2> SUFFICES ASSUME IInv, [Next]_vars, NEW t \in Tickers PROVE Kept(t)
    OBVIOUS
  <2>1. ASSUME NEW j \in Jobs, Write(j) PROVE Kept(t)
    <3>1. kind[j] = "deep" => j \in blind \/ previous[j] = deepBook.reports
      BY <2>1, WriteFacts
    <3>2. kind[j] = "scan" => deepBook' = deepBook
      BY <2>1 DEF Write
    <3>3. kind[j] = "deep" => deepBook'.job = j /\ deepBook'.reports[t] = Merged(j)[t]
      BY <2>1 DEF Write
    <3>4. Merged(j)[t] = IF results[j][t] # "none" THEN results[j][t] ELSE previous[j][t]
      BY DEF Merged
    <3>5. kind[j] \in {"scan", "deep"} /\ j # None
      BY DEF IInv, TypeOK, Kinds
    <3> QED
      BY <3>1, <3>2, <3>3, <3>4, <3>5
  <2> QED
    BY <2>1, BooksStay
<1> QED
  BY <1>1, Always, PTL DEF Spec, ReportsAreKept
-----------------------------------------------------------------------------
(* The slots of the scheduler.                                             *)

Triggering == {"trigger", "start", "starting"}

\* A scan is started for a slot, and noted, once the slot has come.
NotAhead ==
    /\ last <= now
    /\ \A s \in Slots : \A t \in fires[s] : s <= t /\ t <= now

\* A slot is triggered in its window, or the loop was held up.
HoldsDue ==
    loop \in Triggering =>
        /\ slot \in Slots /\ slot <= now
        /\ now < slot + Window \/ slot \in hindered

\* A loop that is still busy with an older slot has hindered the one at hand.
LateHinders ==
    loop \in Triggering => InWindow(slot) \/ (\A s \in Slots : InWindow(s) => s \in hindered)

\* due_slot let a slot pass only if its minute saw no start of it.
FirstInMinute ==
    loop \in Triggering /\ slot \notin hindered =>
        \A t \in fires[slot] : t >= slot + Minute \/ (loop = "starting" /\ t = now)

JustStarted == loop = "starting" => fires[slot] # {} \/ slot \in hindered

\* What was started in the minute of a slot is what the last trigger says, but
\* between start_scan and the note.
Noted(s) == s <= last /\ last < s + Minute

FireIsNoted ==
    \A s \in Slots : InWindow(s) /\ s \notin hindered =>
        \A t \in fires[s] : t < s + Minute => Noted(s) \/ (loop = "starting" /\ slot = s)

NoteIsFire == \A s \in Slots : InWindow(s) /\ Noted(s) => fires[s] # {} \/ s \in hindered

\* The first poll of a slot's window starts it.
PollStarts ==
    \A s \in Slots : s < Close /\ (s < now \/ (s = now /\ polled)) =>
        \/ fires[s] # {} \/ s \in hindered
        \/ loop \in {"trigger", "start"} /\ slot = s

SlotInv ==
    /\ NotAhead /\ HoldsDue /\ LateHinders /\ FirstInMinute /\ JustStarted
    /\ FireIsNoted /\ NoteIsFire /\ PollStarts /\ SlotNotRepeated

LEMMA SlotInit == Init => SlotInv
<1> SUFFICES ASSUME Init PROVE SlotInv
  OBVIOUS
<1>1. /\ now = 0 /\ last = 0 /\ loop = "wait" /\ \A s \in Slots : fires[s] = {}
      /\ \A s \in Slots : s > 0 /\ s \in Nat
  BY DEF Init
<1>2. ~polled
  BY Zenon DEF Init
<1>3. NotAhead
  BY <1>1 DEF NotAhead
<1>4. FirstInMinute /\ FireIsNoted
  BY <1>1 DEF FirstInMinute, FireIsNoted, Triggering
<1>5. SlotNotRepeated
  BY <1>1 DEF SlotNotRepeated
<1>6. HoldsDue /\ LateHinders /\ JustStarted
  BY <1>1 DEF HoldsDue, LateHinders, JustStarted, Triggering
<1>7. NoteIsFire
  BY <1>1 DEF NoteIsFire, Noted, InWindow
<1>8. PollStarts
  BY <1>1, <1>2 DEF PollStarts
<1> QED
  BY <1>3, <1>4, <1>5, <1>6, <1>7, <1>8 DEF SlotInv

\* The types of what the slots are told by.
LEMMA SlotTypes ==
    ASSUME TypeOK
    PROVE  /\ now \in Nat /\ last \in Nat /\ Slots \subseteq Nat
           /\ \A s \in Slots : s # 0 /\ s \in Nat /\ fires[s] \subseteq Nat
           /\ Window \in Nat \ {0} /\ Minute \in Nat \ {0} /\ Close \in Nat
<1>1. now \in Nat /\ last \in Nat
  BY DEF TypeOK
<1>2. \A s \in Slots : s # 0 /\ s \in Nat
  OBVIOUS
<1>3. ASSUME NEW s \in Slots PROVE fires[s] \subseteq Nat
  <2>1. fires[s] \in SUBSET (0..MaxTick)
    BY DEF TypeOK
  <2> QED
    BY <2>1
<1> QED
  BY <1>1, <1>2, <1>3

\* A step that leaves clock and loop alone.
LEMMA SlotsStay == SlotInv /\ UNCHANGED <<now, loopVars>> => SlotInv'
  BY DEF loopVars, SlotInv, NotAhead, HoldsDue, LateHinders, FirstInMinute, JustStarted, FireIsNoted,
     NoteIsFire, PollStarts, SlotNotRepeated, Triggering, Noted, InWindow

\* A step that hinders what is in its window and makes the loop wait, or leaves it.
LEMMA SlotsHindered ==
    ASSUME TypeOK, SlotInv, UNCHANGED <<now, fires>>,
           hindered' = hindered \cup {s \in Slots : InWindow(s)},
           loop' = "wait" \/ UNCHANGED <<loop, slot>>,
           last' \in {last, None}, polled' \in {polled, FALSE}
    PROVE  SlotInv'
<1>1. /\ now' = now /\ fires' = fires /\ \A s \in hindered : s \in hindered'
      /\ \A s \in Slots : InWindow(s)' => s \in hindered'
  BY DEF InWindow
<1>2. loop' \in Triggering => loop' = loop /\ slot' = slot
  BY DEF Triggering
<1>3. last' <= now'
  BY <1>1, SlotTypes DEF SlotInv, NotAhead
<1>4. polled' => polled
  BY Zenon
<1>5. NotAhead'
  BY <1>1, <1>3 DEF SlotInv, NotAhead
<1>6. HoldsDue'
  BY <1>1, <1>2 DEF SlotInv, HoldsDue
<1>7. NotAhead' /\ HoldsDue' /\ LateHinders'
  BY <1>1, <1>2, <1>5, <1>6 DEF LateHinders
<1>8. FirstInMinute' /\ JustStarted'
  BY <1>1, <1>2 DEF SlotInv, FirstInMinute, JustStarted, Triggering
<1>9. FireIsNoted' /\ NoteIsFire'
  BY <1>1 DEF FireIsNoted, NoteIsFire
<1>10. PollStarts'
  <2> SUFFICES ASSUME NEW s \in Slots, s < Close, s < now \/ (s = now /\ polled)
               PROVE  fires[s] # {} \/ s \in hindered'
    BY <1>1, <1>4 DEF PollStarts
  <2>1. CASE loop \in {"trigger", "start"} /\ slot = s
    BY <1>1, <2>1 DEF SlotInv, HoldsDue, Triggering, InWindow
  <2>2. CASE ~(loop \in {"trigger", "start"} /\ slot = s)
    BY <1>1, <2>2 DEF SlotInv, PollStarts
  <2> QED
    BY <2>1, <2>2
<1>11. SlotNotRepeated'
  BY <1>1 DEF SlotInv, SlotNotRepeated
<1> QED
  BY <1>7, <1>8, <1>9, <1>10, <1>11 DEF SlotInv

\* Two slots are never in their windows together.
LEMMA OneInWindow ==
    ASSUME TypeOK, NEW s \in Slots, NEW t \in Slots, InWindow(s), InWindow(t)
    PROVE  s = t
  BY SlotsAssumption, SlotTypes DEF InWindow

LEMMA PollSlots == ASSUME TypeOK, SlotInv, Poll PROVE SlotInv'
<1>1. /\ loop = "wait" /\ now' = now /\ last' = last /\ fires' = fires /\ hindered' = hindered
      /\ loop' \in {"wait", "trigger"}
  BY DEF Poll
<1>2. ASSUME NEW s \in Slots PROVE InWindow(s)' <=> InWindow(s)
  BY <1>1 DEF InWindow
<1>3. ASSUME loop' = "trigger" PROVE slot' \in Slots /\ Due(slot')
  BY <1>1, <1>3 DEF Poll
<1>4. NotAhead' /\ SlotNotRepeated' /\ JustStarted'
  BY <1>1 DEF SlotInv, NotAhead, SlotNotRepeated, JustStarted
<1>5. HoldsDue' /\ LateHinders'
  BY <1>1, <1>3, SlotTypes DEF HoldsDue, LateHinders, Triggering, Due, InWindow
<1>6. FirstInMinute'
  <2>1. ASSUME NEW s \in Slots, Due(s), s \notin hindered, NEW t \in fires[s] PROVE t >= s + Minute
    <3>1. ~(t < s + Minute)
      BY <1>1, <2>1 DEF SlotInv, FireIsNoted, Due, Noted
    <3> QED
      BY <3>1, SlotTypes
  <2> QED
    BY <1>1, <1>3, <2>1 DEF FirstInMinute, Triggering
<1>7. FireIsNoted' /\ NoteIsFire'
  BY <1>1, <1>2 DEF SlotInv, FireIsNoted, NoteIsFire, Noted
<1>8. PollStarts'
  <2> SUFFICES ASSUME NEW s \in Slots, s < Close, s < now \/ s = now, ~(loop' = "trigger" /\ slot' = s)
               PROVE  fires[s] # {} \/ s \in hindered
    <3>1. /\ now' = now /\ fires' = fires /\ hindered' = hindered /\ Slots' = Slots
          /\ loop' = "trigger" \/ loop' = "wait"
      BY <1>1
    <3> QED
      BY <3>1 DEF PollStarts
  <2>1. CASE s < now
    BY <1>1, <2>1 DEF SlotInv, PollStarts
  <2>2. CASE s = now
    <3>1. InWindow(s)
      BY <2>2, SlotTypes DEF InWindow
    <3>2. loop' # "trigger"
      BY <1>3, <3>1, OneInWindow DEF Due
    <3>3. \A r \in Slots : ~Due(r)
      <4>1. now < Close /\ now <= Close
        BY <2>2, SlotTypes
      <4>2. PICK open \in BOOLEAN : /\ InSession(open)
                                   /\ \/ open /\ \E r \in Slots : Due(r) /\ slot' = r /\ loop' = "trigger"
                                      \/ ~(open /\ \E r \in Slots : Due(r)) /\ UNCHANGED <<slot, loop>>
        BY Zenon DEF Poll
      <4>3. open
        BY <4>1, <4>2 DEF InSession
      <4> QED
        BY <3>2, <4>2, <4>3
    <3>4. Noted(s)
      BY <3>1, <3>3 DEF Due, Noted
    <3> QED
      BY <3>1, <3>4 DEF SlotInv, NoteIsFire
  <2> QED
    BY <2>1, <2>2
<1> QED
  BY <1>4, <1>5, <1>6, <1>7, <1>8 DEF SlotInv

\* The loop drops its slot, carries it on, or comes back from its notices.
LEMMA CarrySlots == ASSUME TypeOK, SlotInv, FindsScan \/ FindsNone \/ LoopJoins \/ LoopReturns PROVE SlotInv'
<1>1. /\ now' = now /\ last' = last /\ fires' = fires
      /\ hindered' = hindered \/ (loop \in {"trigger", "start"} /\ hindered' = hindered \cup {slot})
      /\ loop' \in Triggering => loop \in {"trigger", "start"} /\ slot' = slot
      /\ loop \in {"trigger", "start"} => (loop' = "start" /\ slot' = slot) \/ slot \in hindered'
      /\ loop' = "starting" => slot \in hindered'
      /\ loop # "starting"
  BY DEF FindsScan, FindsNone, LoopJoins, LoopReturns, Triggering
<1>2. polled' = polled
  BY Zenon DEF FindsScan, FindsNone, LoopJoins, LoopReturns
<1>3. ASSUME NEW s \in Slots PROVE InWindow(s)' <=> InWindow(s)
  BY <1>1 DEF InWindow
<1>4. hindered \subseteq hindered'
  BY <1>1
<1>5. NotAhead' /\ SlotNotRepeated' /\ JustStarted'
  BY <1>1, <1>4 DEF SlotInv, NotAhead, SlotNotRepeated, JustStarted, Triggering
<1>6. HoldsDue'
  BY <1>1, <1>4 DEF SlotInv, HoldsDue, Triggering
<1>7. LateHinders'
  <2> SUFFICES ASSUME loop' \in Triggering
               PROVE  InWindow(slot) \/ \A s \in Slots : InWindow(s) => s \in hindered
    BY <1>1, <1>4 DEF LateHinders, InWindow
  <2> QED
    BY <1>1 DEF SlotInv, LateHinders, Triggering
<1>8. FirstInMinute'
  BY <1>1, <1>4 DEF SlotInv, FirstInMinute, Triggering
<1>9. FireIsNoted' /\ NoteIsFire'
  BY <1>1, <1>3, <1>4 DEF SlotInv, FireIsNoted, NoteIsFire, Noted
<1>10. PollStarts'
  BY <1>1, <1>2, <1>4 DEF SlotInv, PollStarts
<1> QED
  BY <1>5, <1>6, <1>7, <1>8, <1>9, <1>10 DEF SlotInv

LEMMA StartsSlots == ASSUME TypeOK, SlotInv, LoopStarts PROVE SlotInv'
<1>1. /\ now' = now /\ last' = last /\ hindered' = hindered /\ slot' = slot
      /\ loop = "start" /\ loop' = "starting"
      /\ fires' = [fires EXCEPT ![slot] = @ \cup {now}]
  BY DEF LoopStarts
<1>2. polled' = polled
  BY Zenon DEF LoopStarts
<1>3. slot \in Slots /\ slot <= now /\ (now < slot + Window \/ slot \in hindered)
  BY <1>1 DEF SlotInv, HoldsDue, Triggering
<1>4. /\ fires'[slot] = fires[slot] \cup {now}
      /\ \A s \in Slots \ {slot} : fires'[s] = fires[s]
  BY <1>1, <1>3 DEF TypeOK
<1>5. ASSUME NEW s \in Slots PROVE InWindow(s)' <=> InWindow(s)
  BY <1>1 DEF InWindow
<1>6. slot \notin hindered => \A t \in fires[slot] : t >= slot + Minute
  BY <1>1 DEF SlotInv, FirstInMinute, Triggering
<1>7. NotAhead'
  BY <1>1, <1>3, <1>4, SlotTypes DEF SlotInv, NotAhead
<1>8. HoldsDue' /\ LateHinders'
  BY <1>1, <1>3 DEF SlotInv, HoldsDue, LateHinders, Triggering, InWindow
<1>9. FirstInMinute' /\ JustStarted'
  BY <1>1, <1>4, <1>6 DEF FirstInMinute, JustStarted
<1>10. FireIsNoted' /\ NoteIsFire'
  <2>1. ASSUME NEW s \in Slots \ {slot} PROVE fires'[s] = fires[s]
    BY <1>4
  <2> QED
    BY <1>1, <1>4, <1>5, <2>1 DEF SlotInv, FireIsNoted, NoteIsFire, Noted
<1>11. PollStarts'
  BY <1>1, <1>2, <1>4 DEF SlotInv, PollStarts
<1>12. SlotNotRepeated'
  <2> SUFFICES ASSUME NEW s \in Slots, s \notin hindered, NEW t \in fires'[s], NEW u \in fires'[s], t < u
               PROVE  t >= s + Minute
    BY <1>1 DEF SlotNotRepeated
  <2>1. CASE s # slot
    BY <1>4, <2>1 DEF SlotInv, SlotNotRepeated
  <2>2. CASE s = slot
    <3>1. u <= now
      BY <1>4, <2>2, SlotTypes DEF SlotInv, NotAhead
    <3>2. t # now /\ t \in fires[slot]
      BY <1>4, <2>2, <3>1, SlotTypes
    <3> QED
      BY <1>6, <2>2, <3>2
  <2> QED
    BY <2>1, <2>2
<1> QED
  BY <1>7, <1>8, <1>9, <1>10, <1>11, <1>12 DEF SlotInv

LEMMA NotesSlots == ASSUME TypeOK, SlotInv, Notes PROVE SlotInv'
<1>1. /\ now' = now /\ last' = now /\ hindered' = hindered /\ fires' = fires
      /\ loop = "starting" /\ loop' = "busy"
  BY DEF Notes
<1>2. polled' = polled
  BY Zenon DEF Notes
<1>3. slot \in Slots /\ slot <= now
  BY <1>1 DEF SlotInv, HoldsDue, Triggering
<1>4. ASSUME NEW s \in Slots PROVE InWindow(s)' <=> InWindow(s)
  BY <1>1 DEF InWindow
<1>5. ASSUME NEW s \in Slots, InWindow(s), s \notin hindered PROVE s = slot
  BY <1>1, <1>3, <1>5, OneInWindow DEF SlotInv, LateHinders, Triggering
<1>6. NotAhead' /\ HoldsDue' /\ LateHinders' /\ FirstInMinute' /\ JustStarted' /\ SlotNotRepeated'
  BY <1>1, SlotTypes DEF SlotInv, NotAhead, HoldsDue, LateHinders, FirstInMinute, JustStarted,
                         SlotNotRepeated, Triggering
<1>7. FireIsNoted'
  <2> SUFFICES ASSUME NEW s \in Slots, InWindow(s), s \notin hindered, NEW t \in fires[s], t < s + Minute
               PROVE  s <= now /\ now < s + Minute
    BY <1>1, <1>4 DEF FireIsNoted, Noted
  <2>1. s = slot
    BY <1>5
  <2>2. t >= slot + Minute \/ t = now
    BY <1>1, <2>1 DEF SlotInv, FirstInMinute, Triggering
  <2> QED
    BY <1>3, <2>1, <2>2, SlotTypes
<1>8. NoteIsFire'
  BY <1>1, <1>4, <1>5 DEF SlotInv, NoteIsFire, JustStarted
<1>9. PollStarts'
  BY <1>1, <1>2 DEF SlotInv, PollStarts
<1> QED
  BY <1>6, <1>7, <1>8, <1>9 DEF SlotInv

LEMMA TickSlots == ASSUME TypeOK, SlotInv, Tick PROVE SlotInv'
<1>1. /\ now' = now + 1 /\ last' = last /\ fires' = fires /\ loop' = loop /\ slot' = slot
      /\ loop = "wait" => hindered' = hindered
      /\ loop # "wait" => hindered' = hindered \cup {s \in Slots : s <= now + 1 /\ now < s + Window}
  BY DEF Tick
<1>2. ~polled' /\ (polled \/ loop # "wait")
  BY Zenon DEF Tick
<1>3. hindered \subseteq hindered'
  BY <1>1
<1>4. ASSUME loop # "wait", NEW s \in Slots, s <= now + 1, now < s + Window PROVE s \in hindered'
  BY <1>1, <1>4
<1>5. ASSUME NEW s \in Slots, InWindow(s)' PROVE (s <= now /\ InWindow(s)) \/ s = now + 1
  BY <1>1, <1>5, SlotTypes DEF InWindow
<1>6. NotAhead' /\ SlotNotRepeated'
  BY <1>1, <1>3, SlotTypes DEF SlotInv, NotAhead, SlotNotRepeated
<1>7. ASSUME loop \in Triggering PROVE slot \in Slots /\ slot <= now + 1 /\ slot \in hindered'
  <2>1. slot \in Slots /\ slot <= now /\ (now < slot + Window \/ slot \in hindered)
    BY <1>7 DEF SlotInv, HoldsDue
  <2> QED
    BY <1>3, <1>4, <1>7, <2>1, SlotTypes DEF Triggering
<1>8. ASSUME loop # "wait", NEW s \in Slots, InWindow(s)' PROVE s \in hindered'
  BY <1>1, <1>4, <1>8, SlotTypes DEF InWindow
<1>9. HoldsDue' /\ FirstInMinute' /\ JustStarted'
  BY <1>1, <1>7 DEF HoldsDue, FirstInMinute, JustStarted, Triggering
<1>10. LateHinders'
  BY <1>1, <1>8 DEF LateHinders, Triggering
<1>11. ASSUME NEW s \in Slots, s = now + 1 PROVE fires[s] = {} /\ ~(s <= last)
  BY <1>11, SlotTypes DEF SlotInv, NotAhead
<1>12. FireIsNoted'
  <2> SUFFICES ASSUME NEW s \in Slots, InWindow(s)', s \notin hindered', NEW t \in fires[s], t < s + Minute
               PROVE  Noted(s)
    BY <1>1 DEF FireIsNoted, Noted
  <2>1. loop = "wait" /\ s \notin hindered
    BY <1>3, <1>8
  <2>2. InWindow(s)
    BY <1>5, <1>11
  <2> QED
    BY <2>1, <2>2 DEF SlotInv, FireIsNoted
<1>13. NoteIsFire'
  <2> SUFFICES ASSUME NEW s \in Slots, InWindow(s)', Noted(s) PROVE fires[s] # {} \/ s \in hindered'
    BY <1>1 DEF NoteIsFire, Noted
  <2>1. InWindow(s)
    BY <1>5, <1>11 DEF Noted
  <2> QED
    BY <1>3, <2>1 DEF SlotInv, NoteIsFire
<1>14. PollStarts'
  <2> SUFFICES ASSUME NEW s \in Slots, s < Close, s <= now PROVE fires[s] # {} \/ s \in hindered'
    BY <1>1, <1>2, SlotTypes DEF PollStarts
  <2>1. CASE loop \in {"trigger", "start"} /\ slot = s
    BY <1>7, <2>1 DEF Triggering
  <2>2. CASE s < now \/ (s = now /\ polled)
    <3>1. fires[s] # {} \/ s \in hindered \/ (loop \in {"trigger", "start"} /\ slot = s)
      BY <2>2 DEF SlotInv, PollStarts
    <3> QED
      BY <1>3, <2>1, <3>1
  <2>3. CASE s = now /\ loop # "wait"
    <3>1. s <= now + 1 /\ now < s + Window
      BY <2>3, SlotTypes
    <3> QED
      BY <1>4, <2>3, <3>1
  <2> QED
    BY <1>2, <2>2, <2>3, SlotTypes
<1> QED
  BY <1>6, <1>9, <1>10, <1>12, <1>13, <1>14 DEF SlotInv

LEMMA SlotStep == IInv /\ SlotInv /\ [Next]_vars => SlotInv'
<1> SUFFICES ASSUME IInv, SlotInv, [Next]_vars PROVE SlotInv'
  OBVIOUS
<1>1. TypeOK
  BY DEF IInv
<1>2. ASSUME NEW j \in Jobs, Run(j) PROVE SlotInv'
  <2>1. UNCHANGED <<now, loopVars>>
    BY <1>2 DEF Run, ThreadStarts, RunStarts, ScanAnalysed, DeepAnalysed, Write, Finish, RunRaises, RaisesIn
  <2> QED
    BY <2>1, SlotsStay
<1>3. ASSUME NEW j \in Jobs, ThreadRaises(j) PROVE SlotInv'
  <2>1. /\ UNCHANGED <<now, fires>> /\ hindered' = hindered \cup {s \in Slots : InWindow(s)}
        /\ loop' = "wait" \/ UNCHANGED <<loop, slot>>
        /\ last' \in {last, None}
    BY <1>3 DEF ThreadRaises
  <2>2. polled' \in {polled, FALSE}
    BY <1>3, Zenon DEF ThreadRaises
  <2> QED
    BY <1>1, <2>1, <2>2, SlotsHindered
<1>4. ASSUME NEW k \in Kinds, DeskStart(k) PROVE SlotInv'
  BY <1>4, SlotsStay DEF DeskStart
<1>5. CASE Restart
  <2>1. /\ UNCHANGED <<now, fires>> /\ hindered' = hindered \cup {s \in Slots : InWindow(s)}
        /\ loop' = "wait" \/ UNCHANGED <<loop, slot>>
        /\ last' \in {last, None}
    BY <1>5 DEF Restart
  <2>2. polled' \in {polled, FALSE}
    BY <1>5, Zenon DEF Restart
  <2> QED
    BY <1>1, <2>1, <2>2, SlotsHindered
<1>6. CASE UNCHANGED vars
  BY <1>6, SlotsStay DEF vars
<1> QED
  BY <1>1, <1>2, <1>3, <1>4, <1>5, <1>6, PollSlots, CarrySlots, StartsSlots, NotesSlots, TickSlots
  DEF Next, Scheduler

\* No slot is started twice in its minute: while the first start is on its way the
\* loop is held, and once it is noted due_slot passes the slot over.
THEOREM SlotsStartOnce == Spec => []SlotNotRepeated
<1>1. SlotInv => SlotNotRepeated
  BY DEF SlotInv
<1> QED
  BY <1>1, SlotInit, SlotStep, Always, PTL DEF Spec

\* A slot before the close is started by the first poll of its window (_loop),
\* unless that window was hindered.
THEOREM SlotsAreStarted == Spec => []SlotIsFired
<1>1. TypeOK /\ SlotInv => SlotIsFired
  <2> SUFFICES ASSUME TypeOK, SlotInv, NEW s \in Slots, s < Close, now >= s + Window
               PROVE  fires[s] # {} \/ s \in hindered
    BY DEF SlotIsFired
  <2>1. s < now
    BY SlotTypes
  <2>2. CASE loop \in {"trigger", "start"} /\ slot = s
    BY <2>2, SlotTypes DEF SlotInv, HoldsDue, Triggering
  <2> QED
    BY <2>1, <2>2 DEF SlotInv, PollStarts
<1> QED
  BY <1>1, SlotInit, SlotStep, Always, TypeCorrect, PTL DEF Spec
=============================================================================
