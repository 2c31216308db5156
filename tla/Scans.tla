-------------------------------- MODULE Scans --------------------------------
(***************************************************************************)
(* The research jobs of the API process (market scans and deep reports),   *)
(* the books they leave on disk, and the scheduler that starts scans.      *)
(*                                                                         *)
(* Jobs live in memory and run on daemon threads; a restart forgets them   *)
(* and the scheduler's last trigger, and keeps the books.  A tick is half  *)
(* a minute: the scheduler polls every 20 seconds, a slot may be fired in  *)
(* its first 90 seconds, and counts as fired when the last trigger was in  *)
(* its minute.                                                             *)
(***************************************************************************)
EXTENDS Naturals, FiniteSets

CONSTANTS
    Slots,      \* ticks at which a scan is scheduled
    Close,      \* tick that begins with the last instant of the scan window (16:10)
    Window,     \* ticks of the 90 seconds in which a slot may be fired
    Minute,     \* ticks of a minute
    Tickers,    \* stocks there are deep reports of
    MaxTick,    \* bound of the clock
    MaxJobs,    \* bound of the jobs
    MaxFaults   \* bound of restarts and threads that cannot be started

ASSUME TimeAssumption ==
    /\ MaxTick \in Nat /\ Window \in Nat \ {0} /\ Minute \in Nat \ {0}
    /\ Slots \subseteq 1..MaxTick /\ Close \in Nat
\* The slots of a day are at least ten minutes apart, whatever the interval.
ASSUME SlotsAssumption == \A s, t \in Slots : s < t => s + Window <= t
ASSUME BoundAssumption == MaxJobs \in Nat /\ MaxFaults \in Nat

Jobs == 1..MaxJobs
None == 0
Kinds == {"scan", "deep"}
\* A deep report, one that says why there is none, or no report.
Report == {"none", "good", "error"}
NoReports == [t \in Tickers |-> "none"]
Active == {"queued", "running"}

VARIABLES
    now,
    kind,      \* kind of each job
    job,       \* status of each job in memory, "none" if there is no such job
    thread,    \* where the thread of each job is
    scores,    \* whether the result each job holds has any scores
    results,   \* the reports each deep job made of the tickers of its batch
    previous,  \* the reports each deep job read before it merges its own
    blind,     \* deep jobs whose read of the book failed
    made,      \* number of jobs so far
    scanBook,  \* last_scan.json: the job that wrote it, whether it has scores
    deepBook,  \* last_deep.json: the job that wrote it, the report it has of each ticker
    loop,      \* where the scheduler's loop is
    slot,      \* the slot the loop found due
    polled,    \* the loop has polled in this tick
    last,      \* last_trigger_at
    fires,     \* history: the ticks at which a scan was started for each slot
    hindered,  \* history: slots whose window saw a restart, a fault, a busy loop or a scan
    saved,     \* history: jobs that wrote their book
    orphans,   \* history: jobs without a thread, forgotten at a restart or never started
    faults

jobVars == <<kind, job, thread, scores, results, previous, blind, made, orphans>>
bookVars == <<scanBook, deepBook, saved>>
loopVars == <<loop, slot, polled, last, fires, hindered>>
vars == <<now, jobVars, bookVars, loopVars, faults>>

Threads == {"none", "unstarted", "ready", "working", "read", "written", "ended"}

TypeOK ==
    /\ now \in 0..MaxTick
    /\ kind \in [Jobs -> Kinds]
    /\ job \in [Jobs -> {"none", "queued", "running", "done", "error"}]
    /\ thread \in [Jobs -> Threads]
    /\ scores \in [Jobs -> BOOLEAN]
    /\ results \in [Jobs -> [Tickers -> Report]]
    /\ previous \in [Jobs -> [Tickers -> Report]]
    /\ blind \subseteq Jobs
    /\ made \in 0..MaxJobs
    /\ scanBook \in [job : 0..MaxJobs, scores : BOOLEAN]
    /\ deepBook \in [job : 0..MaxJobs, reports : [Tickers -> Report]]
    /\ loop \in {"wait", "trigger", "start", "starting", "busy"}
    /\ slot \in 0..MaxTick
    /\ polled \in BOOLEAN
    /\ last \in 0..MaxTick
    /\ fires \in [Slots -> SUBSET (0..MaxTick)]
    /\ hindered \subseteq Slots
    /\ saved \subseteq Jobs
    /\ orphans \subseteq Jobs
    /\ faults \in 0..MaxFaults

Init ==
    /\ now = 0
    /\ kind = [j \in Jobs |-> "scan"]
    /\ job = [j \in Jobs |-> "none"]
    /\ thread = [j \in Jobs |-> "none"]
    /\ scores = [j \in Jobs |-> FALSE]
    /\ results = [j \in Jobs |-> NoReports] /\ previous = [j \in Jobs |-> NoReports]
    /\ blind = {}
    /\ made = 0
    /\ scanBook = [job |-> None, scores |-> FALSE]
    /\ deepBook = [job |-> None, reports |-> NoReports]
    /\ loop = "wait" /\ slot = None /\ polled = FALSE /\ last = None
    /\ fires = [s \in Slots |-> {}]
    /\ hindered = {}
    /\ saved = {} /\ orphans = {}
    /\ faults = 0

InWindow(s) == s <= now /\ now < s + Window
IsActive(k) == \E j \in Jobs : kind[j] = k /\ job[j] \in Active
Fault == faults < MaxFaults /\ faults' = faults + 1

-----------------------------------------------------------------------------
(* start_scan and start_deep: under the lock the active job of the kind is *)
(* returned or a new one is queued; its thread is started after the lock.  *)

\* Mutant: a job that is queued does not keep the next one out.
CanStart_NotRunning(k) == ~\E j \in Jobs : kind[j] = k /\ job[j] = "running"
CanStart(k) == ~IsActive(k)

Enqueue(k) ==
    /\ made < MaxJobs
    /\ CanStart(k)
    /\ made' = made + 1
    /\ kind' = [kind EXCEPT ![made + 1] = k]
    /\ job' = [job EXCEPT ![made + 1] = "queued"]
    /\ thread' = [thread EXCEPT ![made + 1] = "unstarted"]
    /\ UNCHANGED <<scores, results, previous, blind, orphans>>

\* The Desk or the chat starts a job; if one is active they are handed that.
DeskStart(k) ==
    /\ Enqueue(k)
    /\ UNCHANGED <<now, bookVars, loopVars, faults>>

ThreadStarts(j) ==
    /\ thread[j] = "unstarted"
    /\ thread' = [thread EXCEPT ![j] = "ready"]
    /\ UNCHANGED <<now, kind, job, scores, results, previous, blind, made, orphans, bookVars, loopVars, faults>>

\* thread.start() raises: the job stays queued in memory.
ThreadRaises(j) ==
    /\ thread[j] = "unstarted" /\ Fault
    /\ thread' = [thread EXCEPT ![j] = "none"]
    /\ orphans' = orphans \cup {j}
    /\ loop' = IF loop = "starting" /\ kind[j] = "scan" THEN "wait" ELSE loop
    /\ hindered' = hindered \cup {s \in Slots : InWindow(s)}
    /\ UNCHANGED <<now, kind, job, scores, results, previous, blind, made, bookVars, slot, polled, last, fires>>

-----------------------------------------------------------------------------
(* The thread of a job: _run_scan_job and _run_deep_job.                   *)

Step(j, from, to) == thread[j] = from /\ thread' = [thread EXCEPT ![j] = to]

RunStarts(j) ==
    /\ Step(j, "ready", "working")
    /\ job' = [job EXCEPT ![j] = "running"]
    /\ UNCHANGED <<now, kind, scores, results, previous, blind, made, orphans, bookVars, loopVars, faults>>

\* The engine returns.  A scan that could fetch nothing returns an error field
\* and no rankings; it does not raise.
ScanAnalysed(j, hasScores) ==
    /\ kind[j] = "scan"
    /\ Step(j, "working", "read")
    /\ scores' = [scores EXCEPT ![j] = hasScores]
    /\ UNCHANGED <<now, kind, job, results, previous, blind, made, orphans, bookVars, loopVars, faults>>

\* A deep job has a report of every ticker of its batch, an error report where the
\* analysis failed.  It then reads the last book: a read that fails is taken for
\* a book without reports.
DeepAnalysed(j, batch, isRead) ==
    /\ Step(j, "working", "read")
    /\ kind[j] = "deep"
    /\ batch # NoReports
    /\ results' = [results EXCEPT ![j] = batch]
    /\ previous' = [previous EXCEPT ![j] = IF isRead THEN deepBook.reports ELSE NoReports]
    /\ blind' = IF isRead THEN blind ELSE blind \cup {j}
    /\ UNCHANGED <<now, kind, job, scores, made, orphans, bookVars, loopVars, faults>>

\* Mutant: the reports of the batch replace the book.
Merged_BatchOnly(j) == results[j]
Merged(j) == [t \in Tickers |-> IF results[j][t] # "none" THEN results[j][t] ELSE previous[j][t]]

Write(j) ==
    /\ Step(j, "read", "written")
    /\ IF kind[j] = "scan"
       THEN scanBook' = [job |-> j, scores |-> scores[j]] /\ UNCHANGED deepBook
       ELSE deepBook' = [job |-> j, reports |-> Merged(j)] /\ UNCHANGED scanBook
    /\ saved' = saved \cup {j}
    /\ scores' = [scores EXCEPT ![j] = FALSE] /\ blind' = blind \ {j}
    /\ results' = [results EXCEPT ![j] = NoReports] /\ previous' = [previous EXCEPT ![j] = NoReports]
    /\ UNCHANGED <<now, kind, job, made, orphans, loopVars, faults>>

Finish(j) ==
    /\ Step(j, "written", "ended")
    /\ job' = [job EXCEPT ![j] = "done"]
    /\ UNCHANGED <<now, kind, scores, results, previous, blind, made, orphans, bookVars, loopVars, faults>>

\* The engine or the write raises, and what the thread held is gone.
RaisesIn(j) ==
    /\ thread[j] \in {"working", "read"}
    /\ thread' = [thread EXCEPT ![j] = "ended"]
    /\ scores' = [scores EXCEPT ![j] = FALSE] /\ blind' = blind \ {j}
    /\ results' = [results EXCEPT ![j] = NoReports] /\ previous' = [previous EXCEPT ![j] = NoReports]
    /\ UNCHANGED <<now, kind, made, orphans, bookVars, loopVars, faults>>

\* Mutant: the error is logged and the status left.
RunRaises_KeepsStatus(j) == RaisesIn(j) /\ UNCHANGED job
RunRaises(j) == RaisesIn(j) /\ job' = [job EXCEPT ![j] = "error"]

\* resolve_job: what a page that asks for a job by its id is told.
\* Mutant: the last book is taken for that of the job.
Resolve_AnyBook(j) ==
    LET book == IF kind[j] = "scan" THEN scanBook.job ELSE deepBook.job IN
    IF job[j] # "none" THEN job[j]
    ELSE IF book # None THEN "done" ELSE "error"
Resolve(j) ==
    LET book   == IF kind[j] = "scan" THEN scanBook.job ELSE deepBook.job
        hasAny == kind[j] = "deep" \/ scanBook.scores IN
    IF job[j] # "none" THEN job[j]
    ELSE IF book = j /\ hasAny THEN "done" ELSE "error"

-----------------------------------------------------------------------------
(* The scheduler: due_slot, trigger_scan and _loop.                        *)

\* Mutant: one trigger counts for every slot of the day.
Due_OncePerDay(s) == InWindow(s) /\ last = None
Due(s) == InWindow(s) /\ ~(s <= last /\ last < s + Minute)

\* in_scan_window: of the tick that begins at the close only the first instant
\* is still in the window, and a poll may or may not meet it.
InSession(open) == open \in {now < Close, now <= Close}

Poll ==
    /\ loop = "wait"
    /\ polled' = TRUE
    /\ \E open \in BOOLEAN :
          /\ InSession(open)
          /\ \/ open /\ \E s \in Slots : Due(s) /\ slot' = s /\ loop' = "trigger"
             \/ ~(open /\ \E s \in Slots : Due(s)) /\ UNCHANGED <<slot, loop>>
    /\ UNCHANGED <<now, jobVars, bookVars, last, fires, hindered, faults>>

\* latest_job finds an active scan: the slot is not recorded as fired.
FindsScan ==
    /\ loop = "trigger" /\ IsActive("scan")
    /\ loop' = "wait" /\ slot' = None
    /\ hindered' = hindered \cup {slot}
    /\ UNCHANGED <<now, jobVars, bookVars, polled, last, fires, faults>>

FindsNone ==
    /\ loop = "trigger" /\ ~IsActive("scan")
    /\ loop' = "start"
    /\ UNCHANGED <<now, jobVars, bookVars, slot, polled, last, fires, hindered, faults>>

LoopStarts ==
    /\ loop = "start"
    /\ Enqueue("scan")
    /\ fires' = [fires EXCEPT ![slot] = @ \cup {now}]
    /\ loop' = "starting"
    /\ UNCHANGED <<now, bookVars, slot, polled, last, hindered, faults>>

\* Someone else started a scan meanwhile: start_scan returns that job.
LoopJoins ==
    /\ loop = "start" /\ ~CanStart("scan")
    /\ hindered' = hindered \cup {slot}
    /\ loop' = "starting"
    /\ UNCHANGED <<now, jobVars, bookVars, slot, polled, last, fires, faults>>

\* The trigger is recorded; then notices and the digest are sent.
\* Mutant: the trigger is not recorded.
Notes_Nothing ==
    /\ loop = "starting" /\ \A j \in Jobs : kind[j] = "scan" => thread[j] # "unstarted"
    /\ loop' = "busy" /\ slot' = None
    /\ UNCHANGED <<now, jobVars, bookVars, polled, last, fires, hindered, faults>>
Notes ==
    /\ loop = "starting" /\ \A j \in Jobs : kind[j] = "scan" => thread[j] # "unstarted"
    /\ last' = now
    /\ loop' = "busy" /\ slot' = None
    /\ UNCHANGED <<now, jobVars, bookVars, polled, fires, hindered, faults>>

LoopReturns ==
    /\ loop = "busy"
    /\ loop' = "wait"
    /\ UNCHANGED <<now, jobVars, bookVars, slot, polled, last, fires, hindered, faults>>

\* Half a minute passes.  A loop that is not in a trigger has polled in it.
Tick ==
    /\ now < MaxTick
    /\ polled \/ loop # "wait"
    /\ now' = now + 1
    /\ polled' = FALSE
    /\ hindered' = IF loop = "wait" THEN hindered
                   ELSE hindered \cup {s \in Slots : s <= now + 1 /\ now < s + Window}
    /\ UNCHANGED <<jobVars, bookVars, loop, slot, last, fires, faults>>

\* The process dies and comes up again: jobs and the last trigger are gone.
Restart ==
    /\ Fault
    /\ job' = [j \in Jobs |-> "none"]
    /\ thread' = [j \in Jobs |-> "none"]
    /\ orphans' = orphans \cup 1..made
    /\ scores' = [j \in Jobs |-> FALSE] /\ blind' = {}
    /\ results' = [j \in Jobs |-> NoReports] /\ previous' = [j \in Jobs |-> NoReports]
    /\ loop' = "wait" /\ slot' = None /\ polled' = FALSE /\ last' = None
    /\ hindered' = hindered \cup {s \in Slots : InWindow(s)}
    /\ UNCHANGED <<now, kind, made, bookVars, fires>>

-----------------------------------------------------------------------------
Run(j) ==
    \/ ThreadStarts(j) \/ RunStarts(j) \/ (\E b \in BOOLEAN : ScanAnalysed(j, b))
    \/ (\E batch \in [Tickers -> Report], isRead \in BOOLEAN : DeepAnalysed(j, batch, isRead))
    \/ Write(j) \/ Finish(j) \/ RunRaises(j)

Scheduler == Poll \/ FindsScan \/ FindsNone \/ LoopStarts \/ LoopJoins \/ Notes \/ LoopReturns

Next ==
    \/ \E j \in Jobs : Run(j) \/ ThreadRaises(j)
    \/ \E k \in Kinds : DeskStart(k)
    \/ Scheduler \/ Tick \/ Restart

\* A thread that runs gets on, and the engine bounds its network calls.
Spec == Init /\ [][Next]_vars /\ \A j \in Jobs : WF_vars(Run(j))

-----------------------------------------------------------------------------
\* The books never go back to an older job, whoever starts jobs and however
\* they end: no scan or deep job outlives the start of the next one.
BooksMoveForward ==
    [][scanBook'.job >= scanBook.job /\ deepBook'.job >= deepBook.job]_vars

\* "Merge with previous deep cache so older names remain available"
\* (research_jobs.py:873): the report of a ticker gives way only to one made by a
\* job that was asked for that ticker, be it an error report that replaces a good
\* one, or to a job whose read of the book failed: it drops all it was not asked for.
ReportsAreKept ==
    [][\A t \in Tickers :
          \/ deepBook'.reports[t] = deepBook.reports[t]
          \/ /\ deepBook'.job # None
             /\ \/ results[deepBook'.job][t] # "none" /\ deepBook'.reports[t] = results[deepBook'.job][t]
                \/ deepBook'.job \in blind]_vars

\* A page is told "done" of a job only if that job wrote its book, also when the
\* process died before the job was marked.
DoneWasSaved == \A j \in 1..made : Resolve(j) = "done" => j \in saved

\* A slot is started a second time only after a restart, or when it was first
\* started later than its minute, which the check of the last trigger overlooks.
SlotNotRepeated ==
    \A s \in Slots :
        \A t, u \in fires[s] : t < u => t >= s + Minute \/ s \in hindered

\* A slot before the close is started unless its window saw a restart, a failed
\* start, a scan that was already running or a loop still busy with the one before.
\* The slot at the close is started only by a poll at its very first instant.
SlotIsFired ==
    \A s \in Slots : s < Close /\ now >= s + Window => fires[s] # {} \/ s \in hindered

\* Every job ends unless its thread was never started: once the last of them is
\* made, there comes a time from which on no page shows one as queued or running.
JobsEnd == <>[](\A j \in Jobs : job[j] \in Active => j \in orphans)
=============================================================================
