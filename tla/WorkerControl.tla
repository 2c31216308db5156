----------------------------- MODULE WorkerControl -----------------------------
(***************************************************************************)
(* Starting and stopping the paper worker from the API process: the Desk   *)
(* and the chat thread call start, restart, follow and stop, which work on *)
(* operating system processes, a pid file and the heartbeat file.  Nothing *)
(* locks these calls against each other.                                   *)
(*                                                                         *)
(* The worker is a child of the API process.  When it dies it stays a      *)
(* zombie, which os.kill(pid, 0) takes for a live process, until the API   *)
(* process opens its next subprocess or is restarted; workers survive a    *)
(* restart of the API process.  POSIX, pids are not reused.                *)
(***************************************************************************)
EXTENDS Naturals, FiniteSets

CONSTANTS
    Callers,     \* requests of the Desk and the thread that reads the chat
    Strategies,
    MaxPid,      \* bound of the workers launched
    MaxTries,    \* polls before the deadline of a stop or of a start
    MaxFaults    \* bound of crashes, API restarts and failed process listings

ASSUME BoundAssumption == MaxPid \in Nat /\ MaxTries \in Nat /\ MaxFaults \in Nat
ASSUME StrategyAssumption == Strategies # {}

Pids == 1..MaxPid
None == 0

VARIABLES
    proc,      \* what each process is doing
    mine,      \* the processes that are children of the running API process
    runs,      \* strategy each worker was launched with
    beat,      \* the heartbeat file
    pidFile,   \* the pid file
    call,      \* where each call of start, restart, follow or stop is
    tangled,   \* history: two calls have been under way at once
    unnamed,   \* history: workers whose start was cut off before the pid file
    blind,     \* history: a listing has failed while such a worker lived
    faults

vars == <<proc, mine, runs, beat, pidFile, call, tangled, unnamed, blind, faults>>

Live == {p \in Pids : proc[p] \in {"launched", "building", "up", "exiting"}}
Answers == {"stopped", "started", "already", "raised"}
Steps == {"kill", "killed", "unlink", "mark", "status", "scan", "launch", "spawned",
          "wait", "abandon"}

TypeOK ==
    /\ proc \in [Pids -> {"unborn", "launched", "building", "up", "exiting", "zombie", "gone"}]
    /\ mine \subseteq Pids
    /\ runs \in [Pids -> Strategies]
    /\ beat \in [pid : Pids \cup {None}, strategy : Strategies]
    /\ pidFile \in Pids \cup {None}
    /\ call \in [Callers -> [at : Steps \cup Answers \cup {"idle"},
                             next : {"answer", "status", "launch"},
                             strategy : Strategies,
                             same : BOOLEAN,
                             pid : Pids \cup {None},
                             tries : 0..MaxTries]]
    /\ tangled \in BOOLEAN /\ blind \in BOOLEAN /\ unnamed \subseteq Pids \cup {None}
    /\ faults \in 0..MaxFaults

Idle == [at |-> "idle", next |-> "answer", strategy |-> CHOOSE s \in Strategies : TRUE,
         same |-> FALSE, pid |-> None, tries |-> 0]

Init ==
    /\ proc = [p \in Pids |-> "unborn"]
    /\ mine = {}
    /\ runs = [p \in Pids |-> CHOOSE s \in Strategies : TRUE]
    /\ beat = [pid |-> None, strategy |-> CHOOSE s \in Strategies : TRUE]
    /\ pidFile = None
    /\ call = [c \in Callers |-> Idle]
    /\ tangled = FALSE /\ unnamed = {} /\ blind = FALSE
    /\ faults = 0

Fault == faults < MaxFaults /\ faults' = faults + 1

-----------------------------------------------------------------------------
(* What the API process can tell about processes.                          *)

\* os.kill(pid, 0) succeeds for a zombie.
PidAlive(p) == p # None /\ (p \in Live \/ proc[p] = "zombie")

\* status(): the heartbeat's pid, or else the one of the pid file.
ShownPid == IF beat.pid # None THEN beat.pid ELSE pidFile
Running == PidAlive(ShownPid)

\* A child whose start() has returned, or has not yet been polled by it.
Held(p) == \E c \in Callers : call[c].pid = p /\ call[c].at \in {"spawned", "wait", "abandon"}
\* Opening a subprocess reaps the zombies that no start() in progress holds.
Reaped == [p \in Pids |-> IF proc[p] = "zombie" /\ ~Held(p) THEN "gone" ELSE proc[p]]

\* _all_worker_pids: pid file, heartbeat and the process listing, which reaps
\* as it is opened and which yields nothing when it fails.
WorkerPids(listed) ==
    {p \in Pids : \/ listed /\ p \in Live
                  \/ p \in {pidFile, beat.pid} /\ (p \in Live \/ Reaped[p] = "zombie")}

Listing(listed) ==
    IF listed THEN UNCHANGED <<faults, blind>>
    ELSE Fault /\ blind' = (blind \/ unnamed \cap Live # {})

\* A child that dies becomes a zombie, one adopted after an API restart is reaped.
Dead(p) == IF p \in mine THEN "zombie" ELSE "gone"

\* SIGTERM ends a worker at once until main() installs its handler.
Terminated(p, procs) ==
    CASE procs[p] \in {"launched", "building"} -> Dead(p)
      [] procs[p] = "up" -> "exiting"
      [] OTHER -> procs[p]

-----------------------------------------------------------------------------
(* Calls.                                                                   *)

Begin(c, at, s) ==
    /\ call[c].at = "idle"
    /\ Cardinality({p \in Pids : proc[p] = "unborn"})
         > Cardinality({d \in Callers : call[d].at # "idle"})   \* the bound of Pids
    /\ call' = [call EXCEPT ![c] = [Idle EXCEPT !.at = at, !.strategy = s,
                   !.next = IF at = "kill" THEN "status" ELSE "answer"]]
    /\ tangled' = (tangled \/ \E d \in Callers : call[d].at # "idle")
    /\ UNCHANGED <<proc, mine, runs, beat, pidFile, unnamed, blind, faults>>

Start(c, s) == Begin(c, "status", s)
Restart(c, s) == Begin(c, "kill", s)
\* The chat's follow command restarts a running worker and starts a missing one.
Follow(c, s) == IF Running THEN Restart(c, s) ELSE Start(c, s)

Stop(c) ==
    /\ call[c].at = "idle"
    /\ call' = [call EXCEPT ![c] = [Idle EXCEPT !.at = "kill"]]
    /\ tangled' = (tangled \/ \E d \in Callers : call[d].at # "idle")
    /\ UNCHANGED <<proc, mine, runs, beat, pidFile, unnamed, blind, faults>>

Goto(c, at) == call' = [call EXCEPT ![c].at = at]

\* stop(): SIGTERM to every worker found, until a listing finds none.
Kill(c) ==
    /\ call[c].at = "kill"
    /\ \E listed \in BOOLEAN :
         LET left == WorkerPids(listed) IN
         /\ Listing(listed)
         /\ Goto(c, IF left = {} THEN "unlink" ELSE "killed")
         /\ proc' = [p \in Pids |-> IF p \in left THEN Terminated(p, Reaped) ELSE Reaped[p]]
    /\ UNCHANGED <<mine, runs, beat, pidFile, tangled, unnamed>>

\* Mutant: one round of signals is taken for a stop.
AfterKill_NoWait(left, tries) == "unlink"
\* Mutant: the deadline is never reached.
AfterKill_NoDeadline(left, tries) == IF left = {} THEN "unlink" ELSE "kill"
AfterKill(left, tries) ==
    IF left = {} THEN "unlink" ELSE IF tries = MaxTries THEN "raised" ELSE "kill"

Recheck(c) ==
    /\ call[c].at = "killed"
    /\ \E listed \in BOOLEAN :
         LET left == WorkerPids(listed)
             at == AfterKill(left, call[c].tries) IN
         /\ Listing(listed)
         /\ call' = [call EXCEPT ![c].at = at,
                       ![c].tries = IF at = "kill" /\ @ < MaxTries THEN @ + 1 ELSE @]
         /\ proc' = Reaped
    /\ UNCHANGED <<mine, runs, beat, pidFile, tangled, unnamed>>

Unlink(c) ==
    /\ call[c].at = "unlink"
    /\ pidFile' = None
    /\ Goto(c, "mark")
    /\ UNCHANGED <<proc, mine, runs, beat, tangled, unnamed, blind, faults>>

\* _mark_heartbeat_stopped, then what the call was stopping for.
Mark(c) ==
    /\ call[c].at = "mark"
    /\ beat' = [beat EXCEPT !.pid = None]
    /\ call' = [call EXCEPT ![c].tries = 0,
                  ![c].at = IF call[c].next = "answer" THEN "stopped" ELSE call[c].next]
    /\ UNCHANGED <<proc, mine, runs, pidFile, tangled, unnamed, blind, faults>>

\* start(): what status() shows, before the process listing.
LookUp(c) ==
    /\ call[c].at = "status"
    /\ call' = [call EXCEPT ![c].at = "scan",
                            ![c].same = Running /\ beat.strategy = call[c].strategy]
    /\ UNCHANGED <<proc, mine, runs, beat, pidFile, tangled, unnamed, blind, faults>>

\* Mutant: a worker of another strategy is left running.
AfterScan_NoStop(same, live) == IF same /\ Cardinality(live) <= 2 THEN "already" ELSE "launch"
AfterScan(same, live) ==
    IF same /\ Cardinality(live) <= 2 THEN "already" ELSE IF live # {} THEN "kill" ELSE "launch"

Scan(c) ==
    /\ call[c].at = "scan"
    /\ \E listed \in BOOLEAN :
         /\ Listing(listed)
         /\ call' = [call EXCEPT ![c].at = AfterScan(call[c].same, WorkerPids(listed)),
                                 ![c].next = "launch"]
         /\ proc' = Reaped
    /\ UNCHANGED <<mine, runs, beat, pidFile, tangled, unnamed>>

\* Popen has returned: the worker runs, and the pid file is yet to be written.
Launch(c) ==
    /\ call[c].at = "launch"
    /\ \E p \in Pids :
         /\ proc[p] = "unborn" /\ \A q \in 1..(p - 1) : proc[q] # "unborn"
         /\ proc' = [Reaped EXCEPT ![p] = "launched"]
         /\ mine' = mine \cup {p}
         /\ runs' = [runs EXCEPT ![p] = call[c].strategy]
         /\ call' = [call EXCEPT ![c].at = "spawned", ![c].pid = p]
    /\ UNCHANGED <<beat, pidFile, tangled, unnamed, blind, faults>>

WritePid(c) ==
    /\ call[c].at = "spawned"
    /\ pidFile' = call[c].pid
    /\ Goto(c, "wait")
    /\ UNCHANGED <<proc, mine, runs, beat, tangled, unnamed, blind, faults>>

\* The write fails as the file is opened or after it was emptied: start() raises
\* and leaves the worker it launched.
WriteRaises(c) ==
    /\ call[c].at = "spawned"
    /\ pidFile' \in {pidFile, None}
    /\ unnamed' = unnamed \cup {call[c].pid}
    /\ Goto(c, "raised")
    /\ UNCHANGED <<proc, mine, runs, beat, tangled, blind, faults>>

\* One poll: any live pid in the heartbeat is taken for the new worker; a child
\* that has ended, or the deadline, ends the wait.  proc.poll() reaps the child,
\* and so does the release of the Popen object as start() returns.
Seen == PidAlive(beat.pid)

PollsSpent(tries) == tries = MaxTries

Poll(c) ==
    /\ call[c].at = "wait"
    /\ LET ended == call[c].pid \notin Live IN
       /\ proc' = [proc EXCEPT ![call[c].pid] = IF @ = "zombie" THEN "gone" ELSE @]
       /\ IF Seen
          THEN pidFile' = beat.pid /\ Goto(c, "started")
          ELSE /\ UNCHANGED pidFile
               /\ IF ended \/ PollsSpent(call[c].tries)
                  THEN Goto(c, "abandon")
                  ELSE call' = [call EXCEPT ![c].tries = @ + 1]
    /\ UNCHANGED <<mine, runs, beat, tangled, unnamed, blind, faults>>

\* The child and every worker found are sent SIGTERM, and start() raises.
Abandon(c) ==
    /\ call[c].at = "abandon"
    /\ \E listed \in BOOLEAN :
         LET found == WorkerPids(listed) \cup {call[c].pid} IN
         /\ Listing(listed)
         /\ proc' = [p \in Pids |->
                       IF p \notin found THEN Reaped[p]
                       ELSE IF p = call[c].pid /\ Reaped[p] \in {"launched", "building", "zombie"}
                       THEN "gone" ELSE Terminated(p, Reaped)]
    /\ Goto(c, "raised")
    /\ UNCHANGED <<mine, runs, beat, pidFile, tangled, unnamed>>

\* The caller has its answer.
Return(c) ==
    /\ call[c].at \in Answers
    /\ call' = [call EXCEPT ![c] = Idle]
    /\ UNCHANGED <<proc, mine, runs, beat, pidFile, tangled, unnamed, blind, faults>>

-----------------------------------------------------------------------------
(* The worker and the environment.                                         *)

\* main() advertises itself before it builds the worker.
FirstBeat(p) ==
    /\ proc[p] = "launched"
    /\ proc' = [proc EXCEPT ![p] = "building"]
    /\ beat' = [pid |-> p, strategy |-> runs[p]]
    /\ UNCHANGED <<mine, runs, pidFile, call, tangled, unnamed, blind, faults>>

\* The worker is built and the SIGTERM handler installed.
Built(p) ==
    /\ proc[p] = "building"
    /\ proc' = [proc EXCEPT ![p] = "up"]
    /\ UNCHANGED <<mine, runs, beat, pidFile, call, tangled, unnamed, blind, faults>>

Beat(p) ==
    /\ proc[p] = "up"
    /\ beat' = [pid |-> p, strategy |-> runs[p]]
    /\ UNCHANGED <<proc, mine, runs, pidFile, call, tangled, unnamed, blind, faults>>

\* The loop is joined for up to 10 seconds, a last heartbeat written.
Exit(p) ==
    /\ proc[p] = "exiting"
    /\ proc' = [proc EXCEPT ![p] = Dead(p)]
    /\ beat' = [pid |-> p, strategy |-> runs[p]]
    /\ UNCHANGED <<mine, runs, pidFile, call, tangled, unnamed, blind, faults>>

\* The worker cannot be built (credentials, broker), or is killed.
Crash(p) ==
    /\ p \in Live
    /\ Fault
    /\ proc' = [proc EXCEPT ![p] = Dead(p)]
    /\ UNCHANGED <<mine, runs, beat, pidFile, call, tangled, unnamed, blind>>

\* Calls end with the API process; workers go on in their own session.
RestartApi ==
    /\ Fault
    /\ call' = [c \in Callers |-> Idle]
    /\ proc' = [p \in Pids |-> IF proc[p] = "zombie" THEN "gone" ELSE proc[p]]
    /\ mine' = {}
    /\ unnamed' = unnamed \cup {call[c].pid : c \in {d \in Callers : call[d].at = "spawned"}}
    /\ UNCHANGED <<runs, beat, pidFile, tangled, blind>>

-----------------------------------------------------------------------------
Step(c) ==
    \/ Kill(c) \/ Recheck(c) \/ Unlink(c) \/ Mark(c) \/ LookUp(c) \/ Scan(c)
    \/ Launch(c) \/ WritePid(c) \/ Poll(c) \/ Abandon(c) \/ Return(c)

Next ==
    \/ \E c \in Callers : Step(c) \/ Stop(c) \/ WriteRaises(c)
    \/ \E c \in Callers, s \in Strategies : Start(c, s) \/ Restart(c, s) \/ Follow(c, s)
    \/ \E p \in Pids : FirstBeat(p) \/ Built(p) \/ Beat(p) \/ Exit(p) \/ Crash(p)
    \/ RestartApi

\* A call is a running thread.
Fairness == \A c \in Callers : WF_vars(Step(c))

Spec == Init /\ [][Next]_vars /\ Fairness

-----------------------------------------------------------------------------
(* Properties.                                                              *)

\* There is at most one worker, whatever crashes, API restarts and failed
\* listings lie between and within the calls: stop() goes on until it finds none
\* and start() launches after it.  Two things break this.  Calls may overlap; and
\* a start cut off between the launch and the pid file (the write raises or the
\* API process ends) leaves a worker that no file names before its first
\* heartbeat, so that a listing that fails afterwards may hide it.
OneWorkerUnlessTangled == ~tangled /\ ~blind => Cardinality(Live) <= 1

\* A stop that answers without raising has left no worker and nothing that the
\* status shows as running ("cannot report a successful stop while a venv stub
\* or interpreter survives"), but for the same two exceptions.
StoppedIsStopped ==
    \A c \in Callers : call[c].at = "stopped" /\ ~tangled /\ ~blind => Live = {} /\ ~Running

\* Every call answers, also when a worker does not end or none comes up.
CallsEnd == \A c \in Callers : call[c].at # "idle" ~> call[c].at = "idle"
=============================================================================
