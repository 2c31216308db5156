------------------------------- MODULE ChatInbox -------------------------------
(***************************************************************************)
(* The commands an operator sends in the Telegram chat, the thread of the  *)
(* API process that carries them out, and the kill switch it shares with   *)
(* the Desk.                                                               *)
(*                                                                         *)
(* The thread asks Telegram for the updates from the stored offset on,     *)
(* handles the whole batch and stores the next offset only at its end, so  *)
(* an exception or a restart in between has the batch delivered again.     *)
(* The kill switch is a file; resuming tests for it and then unlinks it.   *)
(* The worker is stopped by a signal and some time after it, started, and  *)
(* only then are the settings saved: in the chat as on the Desk, which     *)
(* also saves settings by themselves.                                      *)
(***************************************************************************)
EXTENDS Naturals, FiniteSets

CONSTANTS
    MaxUpdates,   \* bound of the commands sent
    MaxDesk,      \* bound of the Desk's calls
    MaxFaults     \* bound of exceptions, restarts and crashes of the worker

ASSUME BoundAssumption == MaxUpdates \in Nat /\ MaxDesk \in Nat /\ MaxFaults \in Nat

Updates == 1..MaxUpdates
Commands == {"halt", "resume", "start", "stop", "follow", "ask"}
Worker == {"on", "off", "ending"}

VARIABLES
    sent,      \* the number of commands sent so far
    command,   \* what each update asks for
    offset,    \* the stored offset: the next update to ask for
    last,      \* last update of the batch
    pos,       \* update of the batch being handled
    at,        \* where the thread is
    killed,    \* the KILL_SWITCH file exists
    worker,    \* the worker is on, off, or ending after its signal
    enabled,   \* worker_enabled of the saved settings
    deskAt,    \* where the Desk's call on the worker is
    deskDoes,  \* whether that call starts or stops it
    handled,   \* history: how often each command was carried out
    word,      \* history: the kill switch as the last Desk call or first handling left it
    crossed,   \* history: the Desk used the switch while a handled update was not yet passed
    astray,    \* history: since the last call on the worker began, a call failed, met another
               \* one or was cut off by a restart, the worker crashed, or settings were put
    breaks,    \* history: how often a batch was broken off
    desk,
    faults

inputVars == <<sent, command>>
batchVars == <<offset, last, pos, at>>
killVars == <<killed, word, crossed>>
deskVars == <<deskAt, deskDoes>>
workerVars == <<worker, enabled, astray>>
vars == <<inputVars, batchVars, killVars, workerVars, deskVars, handled, breaks, desk, faults>>

TypeOK ==
    /\ sent \in 0..MaxUpdates
    /\ command \in [Updates -> Commands]
    /\ offset \in 1..(MaxUpdates + 1)
    /\ last \in 0..MaxUpdates
    /\ pos \in 1..(MaxUpdates + 1)
    /\ at \in {"poll", "handle", "unlink", "apply", "stopping", "launch", "save", "pause"}
    /\ killed \in BOOLEAN /\ word \in BOOLEAN /\ crossed \in BOOLEAN
    /\ worker \in Worker /\ enabled \in BOOLEAN /\ astray \in BOOLEAN
    /\ deskAt \in {"idle", "stopping", "launch", "save"} /\ deskDoes \in {"start", "stop"}
    /\ handled \in [Updates -> Nat]
    /\ breaks \in Nat
    /\ desk \in 0..MaxDesk
    /\ faults \in 0..MaxFaults

Init ==
    /\ sent = 0
    /\ command = [u \in Updates |-> "ask"]
    /\ offset = 1 /\ last = 0 /\ pos = 1 /\ at = "poll"
    /\ killed = FALSE /\ word = FALSE /\ crossed = FALSE
    /\ worker = "off" /\ enabled = FALSE /\ astray = FALSE
    /\ deskAt = "idle" /\ deskDoes = "start"
    /\ handled = [u \in Updates |-> 0]
    /\ breaks = 0
    /\ desk = 0
    /\ faults = 0

Fault == faults < MaxFaults /\ faults' = faults + 1

-----------------------------------------------------------------------------
(* The operator: commands in the chat, kill and resume on the Desk.         *)

Send ==
    /\ sent < MaxUpdates
    /\ sent' = sent + 1
    /\ \E k \in Commands : command' = [command EXCEPT ![sent + 1] = k]
    /\ UNCHANGED <<batchVars, killVars, workerVars, deskVars, handled, breaks, desk, faults>>

Unpassed == {u \in Updates : u >= offset /\ handled[u] > 0}

DeskSets(halt) ==
    /\ desk < MaxDesk
    /\ desk' = desk + 1
    /\ killed' = halt
    /\ word' = halt
    /\ crossed' = (crossed \/ Unpassed # {})
    /\ UNCHANGED <<inputVars, batchVars, workerVars, deskVars, handled, breaks, faults>>

-----------------------------------------------------------------------------
(* poll_once.                                                               *)

\* Mutant: the offset is stored as the batch is fetched.
OffsetAtFetch_Early == sent + 1
OffsetAtFetch == offset

Fetch ==
    /\ at = "poll"
    /\ offset <= sent
    /\ at' = "handle"
    /\ pos' = offset
    /\ last' = sent
    /\ offset' = OffsetAtFetch
    /\ UNCHANGED <<inputVars, killVars, workerVars, deskVars, handled, breaks, desk, faults>>

\* Handling of the update at pos is over, and the thread goes on to the next.
Onward == at' = "handle" /\ pos' = pos + 1 /\ UNCHANGED <<offset, last>>
Count == handled' = [handled EXCEPT ![pos] = @ + 1]
Goto(step) == at' = step /\ UNCHANGED <<offset, last, pos>>
Handling(ks) == at = "handle" /\ pos <= last /\ command[pos] \in ks

\* The last word is that of the first handling; a repetition is no new one.
Says(halt) == word' = IF handled[pos] = 0 THEN halt ELSE word

Ask ==
    /\ Handling({"ask"})
    /\ Count /\ Onward
    /\ UNCHANGED <<inputVars, killVars, workerVars, deskVars, breaks, desk, faults>>

\* Mutant: a halt that was carried out before is not carried out again.
Engaged_Once == killed \/ handled[pos] = 0
Engaged == TRUE

Halt ==
    /\ Handling({"halt"})
    /\ killed' = Engaged
    /\ Says(TRUE)
    /\ Count /\ Onward
    /\ UNCHANGED <<inputVars, workerVars, deskVars, crossed, breaks, desk, faults>>

\* disengage: nothing to do without the file, else it is unlinked.
Resume ==
    /\ Handling({"resume"})
    /\ IF killed
       THEN Goto("unlink") /\ UNCHANGED <<word, handled>>
       ELSE Count /\ Onward /\ Says(FALSE)
    /\ UNCHANGED <<inputVars, workerVars, deskVars, killed, crossed, breaks, desk, faults>>

\* The Desk may have removed the file since: unlink raises.
Unlink ==
    /\ at = "unlink"
    /\ IF killed
       THEN killed' = FALSE /\ Says(FALSE) /\ Count /\ Onward /\ UNCHANGED breaks
       ELSE Goto("pause") /\ breaks' = breaks + 1 /\ UNCHANGED <<killed, word, handled>>
    /\ UNCHANGED <<inputVars, workerVars, deskVars, crossed, desk, faults>>

(* The worker: each call is a stop that begins with a signal to the worker   *)
(* and waits for its end, a start, or one after the other.                   *)

Stopped == worker = "off"
Signalled == IF worker = "off" THEN "off" ELSE "ending"

ChatCalls == at \in {"apply", "stopping", "launch", "save"}

\* "start" restarts the worker with the saved strategy, "stop" stops it.
CallWorker ==
    /\ Handling({"start", "stop"})
    /\ worker' = Signalled
    /\ astray' = (deskAt # "idle")
    /\ Goto("stopping")
    /\ UNCHANGED <<inputVars, killVars, enabled, deskVars, handled, breaks, desk, faults>>

\* "follow" saves the settings first.
FollowSaves ==
    /\ Handling({"follow"})
    /\ enabled' = TRUE
    /\ astray' = (deskAt # "idle")
    /\ Goto("apply")
    /\ UNCHANGED <<inputVars, killVars, worker, deskVars, handled, breaks, desk, faults>>

\* It restarts a worker that runs, and starts one if none does.
FollowApplies ==
    /\ at = "apply"
    /\ worker' = Signalled
    /\ Goto(IF Stopped THEN "launch" ELSE "stopping")
    /\ UNCHANGED <<inputVars, killVars, enabled, astray, deskVars, handled, breaks, desk, faults>>

\* The rounds of signals go on until no worker is left.
KeepsStopping ==
    /\ at = "stopping" /\ worker = "on"
    /\ worker' = "ending"
    /\ UNCHANGED <<inputVars, batchVars, killVars, enabled, astray, deskVars, handled, breaks, desk, faults>>

StopEnds ==
    /\ at = "stopping" /\ Stopped
    /\ Goto(IF command[pos] = "stop" THEN "save" ELSE "launch")
    /\ UNCHANGED <<inputVars, killVars, workerVars, deskVars, handled, breaks, desk, faults>>

\* "start" saves the settings once the worker is there, "follow" has done so.
StartEnds ==
    /\ at = "launch"
    /\ worker' = "on"
    /\ IF command[pos] = "start" THEN Goto("save") /\ UNCHANGED handled ELSE Count /\ Onward
    /\ UNCHANGED <<inputVars, killVars, enabled, astray, deskVars, breaks, desk, faults>>

\* stop() or start() raises: the answer says so and the settings stay.  After its
\* signal the worker ends all the same; of a start that raises there may be a
\* worker left, one that is ending, or none.
CallFails ==
    /\ at \in {"stopping", "launch"}
    /\ worker' \in IF at = "launch" THEN Worker ELSE {Signalled}
    /\ astray' = TRUE
    /\ Count /\ Onward
    /\ UNCHANGED <<inputVars, killVars, enabled, deskVars, breaks, desk, faults>>

\* Mutant: a stop saves the settings of a start.
Saved_Enabled == TRUE
Saved == command[pos] = "start"

Save ==
    /\ at = "save"
    /\ enabled' = Saved
    /\ Count /\ Onward
    /\ UNCHANGED <<inputVars, killVars, worker, astray, deskVars, breaks, desk, faults>>

\* A signalled worker ends in its time.
Ends ==
    /\ worker = "ending"
    /\ worker' = "off"
    /\ UNCHANGED <<inputVars, batchVars, killVars, enabled, astray, deskVars, handled, breaks, desk, faults>>

Crash ==
    /\ worker = "on" /\ Fault
    /\ worker' = "off"
    /\ astray' = TRUE
    /\ UNCHANGED <<inputVars, batchVars, killVars, enabled, deskVars, handled, breaks, desk>>

-----------------------------------------------------------------------------
(* The Desk's start, restart and stop, on threads of their own, and its      *)
(* settings page.                                                            *)

Meets == astray' = ChatCalls

\* A start that finds the worker running as it should does not stop it.
DeskCalls(does) ==
    /\ deskAt = "idle" /\ desk < MaxDesk
    /\ desk' = desk + 1
    /\ deskDoes' = does
    /\ \/ deskAt' = "stopping" /\ worker' = Signalled
       \/ does = "start" /\ worker = "on" /\ deskAt' = "save" /\ UNCHANGED worker
    /\ Meets
    /\ UNCHANGED <<inputVars, batchVars, killVars, enabled, handled, breaks, faults>>

DeskKeepsStopping ==
    /\ deskAt = "stopping" /\ worker = "on"
    /\ worker' = "ending"
    /\ UNCHANGED <<inputVars, batchVars, killVars, enabled, astray, deskVars, handled, breaks, desk, faults>>

DeskStopEnds ==
    /\ deskAt = "stopping" /\ Stopped
    /\ deskAt' = IF deskDoes = "stop" THEN "save" ELSE "launch"
    /\ UNCHANGED <<inputVars, batchVars, killVars, workerVars, deskDoes, handled, breaks, desk, faults>>

DeskStartEnds ==
    /\ deskAt = "launch"
    /\ worker' = "on" /\ deskAt' = "save"
    /\ UNCHANGED <<inputVars, batchVars, killVars, enabled, astray, deskDoes, handled, breaks, desk, faults>>

\* The call raises, or the settings cannot be written.
DeskFails ==
    /\ deskAt # "idle"
    /\ worker' \in CASE deskAt = "launch" -> Worker [] deskAt = "stopping" -> {Signalled} [] OTHER -> {worker}
    /\ deskAt' = "idle" /\ astray' = TRUE
    /\ UNCHANGED <<inputVars, batchVars, killVars, enabled, deskDoes, handled, breaks, desk, faults>>

DeskSaves ==
    /\ deskAt = "save"
    /\ enabled' = (deskDoes = "start")
    /\ deskAt' = "idle"
    /\ UNCHANGED <<inputVars, batchVars, killVars, worker, astray, deskDoes, handled, breaks, desk, faults>>

\* The settings page saves worker_enabled as it shows it, and touches no worker.
DeskPuts(shown) ==
    /\ desk < MaxDesk
    /\ desk' = desk + 1
    /\ enabled' = shown /\ astray' = TRUE
    /\ UNCHANGED <<inputVars, batchVars, killVars, worker, deskVars, handled, breaks, faults>>

-----------------------------------------------------------------------------
(* The end of a batch.                                                       *)

\* The batch is through: its updates are passed.
OffsetAtEnd == last + 1

Ack ==
    /\ at = "handle" /\ pos > last
    /\ offset' = OffsetAtEnd
    /\ at' = "poll"
    /\ UNCHANGED <<inputVars, last, pos, killVars, workerVars, deskVars, handled, breaks, desk, faults>>

\* An exception leaves the batch where it is; after a pause the loop polls again.
Raise ==
    /\ at \in {"handle", "unlink", "save"}
    /\ Fault
    /\ breaks' = breaks + 1
    /\ at' = "pause"
    /\ UNCHANGED <<inputVars, offset, last, pos, killVars, workerVars, deskVars, handled, desk>>

\* Mutant: the exception ends the loop.
AfterPause_Ends == "pause"
AfterPause == "poll"

Again ==
    /\ at = "pause"
    /\ Goto(AfterPause)
    /\ UNCHANGED <<inputVars, killVars, workerVars, deskVars, handled, breaks, desk, faults>>

\* A restart of the API process; the worker and the files survive it, also a
\* worker whose start was under way.
Restart ==
    /\ Fault
    /\ breaks' = breaks + 1
    /\ at' = "poll"
    /\ worker' \in IF "launch" \in {at, deskAt} THEN {worker, "on"} ELSE {worker}
    /\ deskAt' = "idle"
    /\ astray' = (astray \/ deskAt # "idle")
    /\ UNCHANGED <<inputVars, offset, last, pos, killVars, enabled, deskDoes, handled, desk>>

-----------------------------------------------------------------------------
Handle == \/ Ask \/ Halt \/ Resume \/ Unlink
          \/ CallWorker \/ FollowSaves \/ FollowApplies
          \/ KeepsStopping \/ StopEnds \/ StartEnds \/ CallFails \/ Save

Desk ==
    \/ \E does \in {"start", "stop"} : DeskCalls(does)
    \/ DeskKeepsStopping \/ DeskStopEnds \/ DeskStartEnds \/ DeskFails \/ DeskSaves
    \/ \E shown \in BOOLEAN : DeskPuts(shown)

Next ==
    \/ Send
    \/ \E halt \in BOOLEAN : DeskSets(halt)
    \/ Desk \/ Ends \/ Crash
    \/ Fetch \/ Handle \/ Ack \/ Raise \/ Again \/ Restart

\* The inbox is a thread of the running API process.
Fairness == WF_vars(Fetch \/ Handle \/ Ack \/ Again)

Spec == Init /\ [][Next]_vars /\ Fairness

-----------------------------------------------------------------------------
(* Properties.                                                              *)

Drained == at = "poll" /\ offset = sent + 1

\* No command is lost: an update the offset has passed was carried out, also
\* when the batch it came in was broken off.
PassedIsHandled == \A u \in Updates : u < offset => handled[u] > 0

\* A command is carried out again only for a batch that was broken off.
AgainOnlyAfterBreak == \A u \in Updates : handled[u] <= 1 + breaks

\* When all commands are through, the kill switch is as the last word left it,
\* although a batch may have been carried out twice; only a Desk call between
\* the handling of an update and the storing of the offset can be undone.
LastWordHolds == Drained /\ ~crossed => killed = word

\* When no call is under way and no command is left, the saved settings say
\* whether a worker runs, also when the thread broke off between the worker and
\* the settings: the repetition repairs it.  What can set them apart until the
\* next call: a call that raised (a stop that raises has sent its signal, and the
\* worker ends although the settings stay), calls of chat and Desk at once, a
\* restart of the API process within a call of the Desk, which nobody repeats, a
\* crash of the worker, and settings that were put by hand.
SettingsMatchWorker ==
    Drained /\ deskAt = "idle" /\ ~astray => enabled = (worker = "on")

\* Every command sent is carried out and passed in the end.
CommandsSettle == \A u \in Updates : sent >= u ~> offset > u
=============================================================================
