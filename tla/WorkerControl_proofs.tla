------------------------- MODULE WorkerControl_proofs -------------------------
(***************************************************************************)
(* Proofs about starting and stopping the worker: as long as no two calls  *)
(* overlap, the pid file leads to every worker that lives, but for one     *)
(* whose start was cut off before the file was written, and that one the   *)
(* process listing shows.  So neither crashes, nor restarts of the API     *)
(* process, nor any number of listings that fail while no such worker      *)
(* lives let a second worker start.                                        *)
(***************************************************************************)
EXTENDS WorkerControl, FiniteSetTheorems, TLAPS

USE BoundAssumption DEF Pids, None

Procs == {"unborn", "launched", "building", "up", "exiting", "zombie", "gone"}
Ats == Steps \cup Answers \cup {"idle"}
Calls == [at : Ats, next : {"answer", "status", "launch"}, strategy : Strategies,
          same : BOOLEAN, pid : Pids \cup {None}, tries : 0..MaxTries]

Busy(c) == call[c].at # "idle"
\* Processes that os.kill finds.
Found == {p \in Pids : p \in Live \/ proc[p] = "zombie"}

Serial == \A c, d \in Callers : Busy(c) /\ Busy(d) => c = d

\* Every worker is named by the pid file, or its start was cut off before it
\* could be, or the start is about to name it.
Known ==
    Live \subseteq {pidFile} \cup unnamed
                   \cup {p \in Pids : \E c \in Callers : call[c].at = "spawned" /\ call[c].pid = p}

Single == \A p, q \in Live : p = q

\* Between the round that found nothing and the launch there is no worker.
Cleared ==
    \A c \in Callers : call[c].at \in {"unlink", "mark", "launch", "stopped"} => Live = {}

\* From its launch until start() ends its wait, the child is all there is.
Own ==
    \A c \in Callers :
        /\ call[c].at \in {"spawned", "wait"} => Found \subseteq {call[c].pid}
        /\ call[c].at = "wait" => call[c].pid = pidFile

\* What stop() leaves of the two files.
Marked ==
    \A c \in Callers :
        /\ call[c].at \in {"mark", "stopped"} => pidFile = None
        /\ call[c].at = "stopped" => beat.pid = None

InTurn == Serial /\ Known /\ Single /\ Cleared /\ Own /\ Marked
IInv == TypeOK /\ (~tangled /\ ~blind => InTurn)

-----------------------------------------------------------------------------
(* Types.                                                                  *)

LEMMA CallType == TypeOK <=>
    /\ proc \in [Pids -> Procs] /\ mine \subseteq Pids /\ runs \in [Pids -> Strategies]
    /\ beat \in [pid : Pids \cup {None}, strategy : Strategies]
    /\ pidFile \in Pids \cup {None} /\ call \in [Callers -> Calls]
    /\ tangled \in BOOLEAN /\ blind \in BOOLEAN /\ unnamed \subseteq Pids \cup {None}
    /\ faults \in 0..MaxFaults
BY DEF TypeOK, Procs, Calls, Ats

\* A strategy to begin with exists.
LEMMA SomeStrategy == (CHOOSE s \in Strategies : TRUE) \in Strategies
BY StrategyAssumption

LEMMA IdleType == Idle \in Calls /\ Idle.at = "idle"
BY SomeStrategy DEF Idle, Calls, Ats, Steps, Answers

\* A call that gets another label is a call.
LEMMA AtType ==
    ASSUME TypeOK, NEW c \in Callers, NEW at \in Ats
    PROVE  /\ [call EXCEPT ![c].at = at] \in [Callers -> Calls]
           /\ [call EXCEPT ![c].at = at][c] = [call[c] EXCEPT !.at = at]
           /\ [call EXCEPT ![c].at = at][c].at = at
           /\ [call EXCEPT ![c].at = at][c].pid = call[c].pid
           /\ \A d \in Callers \ {c} : [call EXCEPT ![c].at = at][d] = call[d]
<1>1. call \in [Callers -> Calls]
  BY CallType
<1> QED
  BY <1>1 DEF Calls

\* The same with a call as a whole.
LEMMA Moved ==
    ASSUME TypeOK, NEW c \in Callers, NEW to \in Calls, call' = [call EXCEPT ![c] = to]
    PROVE  /\ call' \in [Callers -> Calls] /\ call'[c] = to
           /\ \A d \in Callers \ {c} : call'[d] = call[d]
BY CallType

LEMMA ReapedType ==
    ASSUME TypeOK
    PROVE  /\ Reaped \in [Pids -> Procs]
           /\ \A p \in Pids : Reaped[p] = proc[p] \/ (proc[p] = "zombie" /\ Reaped[p] = "gone")
           /\ \A p \in Pids : proc[p] = "zombie" /\ ~Held(p) => Reaped[p] = "gone"
BY CallType DEF Reaped, Procs

LEMMA TerminatedType ==
    ASSUME NEW procs \in [Pids -> Procs], NEW p \in Pids
    PROVE  /\ Terminated(p, procs) \in Procs
           /\ procs[p] \notin {"launched", "building", "up"} => Terminated(p, procs) = procs[p]
           /\ procs[p] \in {"launched", "building", "up"} => Terminated(p, procs) \in {"exiting", "zombie", "gone"}
BY DEF Terminated, Procs, Dead

LEMMA InitInv == Init => IInv
<1> SUFFICES ASSUME Init PROVE IInv
  OBVIOUS
<1>1. TypeOK
  <2>1. /\ proc \in [Pids -> Procs] /\ mine \subseteq Pids /\ runs \in [Pids -> Strategies]
        /\ beat \in [pid : Pids \cup {None}, strategy : Strategies]
        /\ pidFile \in Pids \cup {None} /\ faults \in 0..MaxFaults
    BY SomeStrategy DEF Init, Procs
  <2>2. call \in [Callers -> Calls]
    BY IdleType DEF Init
  <2>3. tangled \in BOOLEAN /\ blind \in BOOLEAN /\ unnamed \subseteq Pids \cup {None}
    BY Zenon DEF Init
  <2> QED
    BY <2>1, <2>2, <2>3, CallType
<1>2. Live = {} /\ \A c \in Callers : call[c].at = "idle"
  BY IdleType DEF Init, Live
<1> QED
  BY <1>1, <1>2 DEF IInv, InTurn, Serial, Known, Single, Cleared, Own, Marked, Busy

-----------------------------------------------------------------------------
(* One call at a time.                                                     *)

\* What a step of the only call has to establish.
LEMMA TurnStep ==
    ASSUME InTurn, NEW c \in Callers, Busy(c), \A d \in Callers \ {c} : call'[d] = call[d],
           Live' \subseteq {pidFile'} \cup unnamed'
               \/ (call'[c].at = "spawned" /\ Live' \subseteq {call'[c].pid}),
           \A p, q \in Live' : p = q,
           call'[c].at \in {"unlink", "mark", "launch", "stopped"} => Live' = {},
           call'[c].at \in {"spawned", "wait"} => Found' \subseteq {call'[c].pid},
           call'[c].at = "wait" => call'[c].pid = pidFile',
           call'[c].at \in {"mark", "stopped"} => pidFile' = None,
           call'[c].at = "stopped" => beat'.pid = None
    PROVE  InTurn'
<1>1. \A d \in Callers \ {c} : call'[d].at = "idle"
  BY DEF InTurn, Serial, Busy
<1>2. Serial' /\ Single'
  BY <1>1 DEF Serial, Busy, Single
<1>5. Known'
  BY DEF Known, Live
<1>3. Cleared'
  BY <1>1 DEF Cleared
<1>4. Own' /\ Marked'
  BY <1>1 DEF Own, Marked
<1> QED
  BY <1>2, <1>3, <1>4, <1>5 DEF InTurn

\* What a call that is not launching knows of the workers.
LEMMA TurnKnows ==
    ASSUME InTurn, NEW c \in Callers, Busy(c), call[c].at # "spawned"
    PROVE  Live \subseteq {pidFile} \cup unnamed /\ \A p, q \in Live : p = q
<1>1. \A d \in Callers : call[d].at # "spawned"
  BY DEF InTurn, Serial, Busy
<1> QED
  BY <1>1 DEF InTurn, Known, Single

\* Processes only end, but for the one that is launched.
Ending == Live' \subseteq Live /\ Found' \subseteq Found

LEMMA ReapedEnds == ASSUME TypeOK, proc' = Reaped PROVE Ending /\ proc' \in [Pids -> Procs]
BY ReapedType, CallType DEF Ending, Live, Found

\* The processes signalled after a listing, or reaped by a call.
LEMMA SignalledEnds ==
    ASSUME TypeOK, proc' = [p \in Pids |-> proc'[p]],
           \A p \in Pids : proc'[p] = Terminated(p, Reaped) \/ proc'[p] = Reaped[p] \/ proc'[p] = "gone"
    PROVE  Ending /\ proc' \in [Pids -> Procs]
<1>1. Reaped \in [Pids -> Procs] /\ \A p \in Pids : Reaped[p] = proc[p] \/ (proc[p] = "zombie" /\ Reaped[p] = "gone")
  BY ReapedType
<1>2. ASSUME NEW p \in Pids
      PROVE  /\ proc'[p] \in Procs
             /\ p \in Live' => p \in Live
             /\ proc'[p] = "zombie" => p \in Found
  <2>1. proc'[p] = Terminated(p, Reaped) \/ proc'[p] = Reaped[p] \/ proc'[p] = "gone"
    OBVIOUS
  <2>2. /\ Terminated(p, Reaped) \in Procs
        /\ Reaped[p] \notin {"launched", "building", "up"} => Terminated(p, Reaped) = Reaped[p]
        /\ Reaped[p] \in {"launched", "building", "up"} => Terminated(p, Reaped) \in {"exiting", "zombie", "gone"}
    BY <1>1, TerminatedType
  <2>3. proc'[p] \in Procs /\ Reaped[p] \in Procs
    BY <1>1, <2>1, <2>2 DEF Procs
  <2>4. CASE Reaped[p] \in {"launched", "building", "up"}
    <3>1. proc[p] = Reaped[p]
      BY <1>1, <2>4
    <3> QED
      BY <2>3, <2>4, <3>1 DEF Live, Found
  <2>5. CASE Reaped[p] \notin {"launched", "building", "up"}
    <3>1. proc'[p] = Reaped[p] \/ proc'[p] = "gone"
      BY <2>1, <2>2, <2>5
    <3> QED
      BY <1>1, <2>3, <3>1 DEF Live, Found
  <2> QED
    BY <2>4, <2>5
<1>3. proc' \in [Pids -> Procs]
  BY <1>2
<1>4. Live' \subseteq Live
  BY <1>2 DEF Live
<1>5. Found' \subseteq Found
  BY <1>2, <1>4 DEF Found
<1> QED
  BY <1>3, <1>4, <1>5 DEF Ending

\* A round that finds nothing means that there is nothing: the listing shows
\* every worker, and where it fails every worker is one that the pid file names.
LEMMA NoneFound ==
    ASSUME TypeOK, Live \subseteq {pidFile} \cup unnamed, NEW listed \in BOOLEAN, Listing(listed), ~blind',
           WorkerPids(listed) = {}
    PROVE  Live = {}
<1>1. CASE listed
  BY <1>1 DEF WorkerPids, Live
<1>2. CASE ~listed
  <2>1. unnamed \cap Live = {}
    BY <1>2, Zenon DEF Listing
  <2> QED
    BY <2>1 DEF WorkerPids, Live
<1> QED
  BY <1>1, <1>2

LEMMA FaultType == TypeOK /\ faults < MaxFaults /\ faults' = faults + 1 => faults' \in 0..MaxFaults
BY CallType

LEMMA ListingType ==
    ASSUME TypeOK, NEW listed \in BOOLEAN, Listing(listed)
    PROVE  faults' \in 0..MaxFaults /\ blind' \in BOOLEAN /\ (~blind' => ~blind)
<1>1. faults' \in 0..MaxFaults
  BY FaultType, CallType DEF Listing, Fault
<1>2. blind' = blind \/ blind' = (blind \/ unnamed \cap Live # {})
  BY DEF Listing
<1>3. blind' \in BOOLEAN
  BY <1>2, CallType, Zenon
<1>4. ~blind' => ~blind
  BY <1>2, Zenon
<1> QED
  BY <1>1, <1>3, <1>4

-----------------------------------------------------------------------------
(* The steps of a call, one lemma for each.                                *)

LEMMA CallTypeNext == TypeOK' <=>
    /\ proc' \in [Pids -> Procs] /\ mine' \subseteq Pids /\ runs' \in [Pids -> Strategies]
    /\ beat' \in [pid : Pids \cup {None}, strategy : Strategies]
    /\ pidFile' \in Pids \cup {None} /\ call' \in [Callers -> Calls]
    /\ tangled' \in BOOLEAN /\ blind' \in BOOLEAN /\ unnamed' \subseteq Pids \cup {None}
    /\ faults' \in 0..MaxFaults
BY DEF TypeOK, Procs, Calls, Ats

LEMMA KillStep == ASSUME IInv, NEW c \in Callers, Kill(c) PROVE IInv'
<1>1. PICK listed \in BOOLEAN :
        /\ Listing(listed) /\ Goto(c, IF WorkerPids(listed) = {} THEN "unlink" ELSE "killed")
        /\ proc' = [p \in Pids |-> IF p \in WorkerPids(listed) THEN Terminated(p, Reaped) ELSE Reaped[p]]
        /\ call[c].at = "kill" /\ UNCHANGED <<mine, runs, beat, pidFile, tangled, unnamed>>
  BY DEF Kill
<1>2. PICK at \in {"unlink", "killed"} :
        call' = [call EXCEPT ![c].at = at] /\ (at = "unlink" => WorkerPids(listed) = {})
  BY <1>1 DEF Goto
<1>3. TypeOK /\ at \in Ats /\ WorkerPids(listed) \in SUBSET Pids
  BY <1>2 DEF IInv, Ats, Steps, WorkerPids
<1>4. /\ call' \in [Callers -> Calls] /\ call'[c].at = at /\ \A d \in Callers \ {c} : call'[d] = call[d]
  BY <1>2, <1>3, AtType
<1>5. Ending /\ proc' \in [Pids -> Procs]
  <2>1. proc' = [p \in Pids |-> proc'[p]]
        /\ \A p \in Pids : proc'[p] = Terminated(p, Reaped) \/ proc'[p] = Reaped[p]
    BY <1>1
  <2> QED
    BY <1>3, <2>1, SignalledEnds
<1>6. TypeOK'
  <2>1. faults' \in 0..MaxFaults /\ blind' \in BOOLEAN
    BY <1>1, <1>3, ListingType
  <2> QED
    BY <1>1, <1>3, <1>4, <1>5, <2>1, CallType, CallTypeNext
<1>7. ASSUME ~tangled', ~blind' PROVE InTurn'
  <2>0. ~tangled /\ ~blind
    BY <1>1, <1>3, <1>7, ListingType
  <2>1. InTurn /\ Busy(c) /\ call[c].at # "spawned" /\ pidFile' = pidFile /\ unnamed' = unnamed
    BY <1>1, <2>0 DEF IInv, Busy
  <2>2. Live \subseteq {pidFile} \cup unnamed /\ \A p, q \in Live : p = q
    BY <2>1, TurnKnows
  <2>3. Live' \subseteq {pidFile'} \cup unnamed' /\ \A p, q \in Live' : p = q
    BY <1>5, <2>1, <2>2 DEF Ending
  <2>4. at = "unlink" => Live = {}
    BY <1>1, <1>2, <1>3, <1>7, <2>2, NoneFound
  <2>5. call'[c].at = "unlink" => Live' = {}
    BY <1>4, <1>5, <2>4 DEF Ending
  <2> QED
    BY <1>2, <1>4, <2>1, <2>3, <2>5, TurnStep
<1> QED
  BY <1>1, <1>6, <1>7 DEF IInv

LEMMA RecheckStep == ASSUME IInv, NEW c \in Callers, Recheck(c) PROVE IInv'
<1>1. PICK listed \in BOOLEAN :
        LET at == AfterKill(WorkerPids(listed), call[c].tries) IN
        /\ Listing(listed) /\ proc' = Reaped
        /\ call' = [call EXCEPT ![c].at = at,
                       ![c].tries = IF at = "kill" /\ @ < MaxTries THEN @ + 1 ELSE @]
        /\ call[c].at = "killed" /\ UNCHANGED <<mine, runs, beat, pidFile, tangled, unnamed>>
  BY DEF Recheck
<1>2. PICK at \in {"unlink", "raised", "kill"} :
        /\ at = "unlink" => WorkerPids(listed) = {}
        /\ call' = [call EXCEPT ![c].at = at,
                       ![c].tries = IF at = "kill" /\ @ < MaxTries THEN @ + 1 ELSE @]
  BY <1>1 DEF AfterKill
<1>3. TypeOK /\ at \in Ats /\ call \in [Callers -> Calls]
  BY <1>2, CallType DEF IInv, Ats, Steps, Answers
<1>8. PICK tries \in 0..MaxTries : call' = [call EXCEPT ![c].at = at, ![c].tries = tries]
  <2> DEFINE tries == IF at = "kill" /\ call[c].tries < MaxTries THEN call[c].tries + 1 ELSE call[c].tries
  <2>1. tries \in 0..MaxTries
    BY <1>3 DEF Calls
  <2>2. call' = [call EXCEPT ![c].at = at, ![c].tries = tries]
    BY <1>2, <1>3
  <2> HIDE DEF tries
  <2> QED
    BY <2>1, <2>2
<1>4. /\ call' \in [Callers -> Calls] /\ call'[c].at = at /\ \A d \in Callers \ {c} : call'[d] = call[d]
  <2> DEFINE to == [call[c] EXCEPT !.at = at, !.tries = tries]
  <2>1. call' = [call EXCEPT ![c] = to] /\ call[c] \in Calls
    BY <1>3, <1>8 DEF Calls
  <2>2. to \in Calls /\ to.at = at
    BY <1>3, <1>8, <2>1 DEF Calls
  <2> HIDE DEF to
  <2> QED
    BY ONLY <1>3, <2>1, <2>2, Moved
<1>5. Ending /\ proc' \in [Pids -> Procs]
  BY <1>1, <1>3, ReapedEnds
<1>6. TypeOK'
  <2>1. faults' \in 0..MaxFaults /\ blind' \in BOOLEAN
    BY <1>1, <1>3, ListingType
  <2> QED
    BY <1>1, <1>3, <1>4, <1>5, <2>1, CallType, CallTypeNext
<1>7. ASSUME ~tangled', ~blind' PROVE InTurn'
  <2>0. ~tangled /\ ~blind
    BY <1>1, <1>3, <1>7, ListingType
  <2>1. InTurn /\ Busy(c) /\ call[c].at # "spawned" /\ pidFile' = pidFile /\ unnamed' = unnamed
    BY <1>1, <2>0 DEF IInv, Busy
  <2>2. Live \subseteq {pidFile} \cup unnamed /\ \A p, q \in Live : p = q
    BY <2>1, TurnKnows
  <2>3. Live' \subseteq {pidFile'} \cup unnamed' /\ \A p, q \in Live' : p = q
    BY <1>5, <2>1, <2>2 DEF Ending
  <2>4. at = "unlink" => Live = {}
    BY <1>1, <1>2, <1>3, <1>7, <2>2, NoneFound
  <2>5. call'[c].at = "unlink" => Live' = {}
    BY <1>4, <1>5, <2>4 DEF Ending
  <2> QED
    BY <1>2, <1>4, <2>1, <2>3, <2>5, TurnStep
<1> QED
  BY <1>1, <1>6, <1>7 DEF IInv

LEMMA UnlinkStep == ASSUME IInv, NEW c \in Callers, Unlink(c) PROVE IInv'
<1>1. /\ call[c].at = "unlink" /\ pidFile' = None /\ call' = [call EXCEPT ![c].at = "mark"]
      /\ UNCHANGED <<proc, mine, runs, beat, tangled, unnamed, blind, faults>>
  BY DEF Unlink, Goto
<1>2. TypeOK /\ "mark" \in Ats
  BY DEF IInv, Ats, Steps
<1>3. /\ call' \in [Callers -> Calls] /\ call'[c].at = "mark" /\ \A d \in Callers \ {c} : call'[d] = call[d]
  BY <1>1, <1>2, AtType
<1>4. TypeOK'
  BY <1>1, <1>2, <1>3, CallType, CallTypeNext
<1>5. ASSUME ~tangled, ~blind PROVE InTurn'
  <2>1. InTurn /\ Busy(c) /\ Live = {} /\ Live' = Live
    BY <1>1, <1>5 DEF IInv, InTurn, Cleared, Busy, Live
  <2> QED
    BY <1>1, <1>3, <2>1, TurnStep
<1> QED
  BY <1>1, <1>4, <1>5 DEF IInv

LEMMA MarkStep == ASSUME IInv, NEW c \in Callers, Mark(c) PROVE IInv'
<1>1. /\ call[c].at = "mark" /\ beat' = [beat EXCEPT !.pid = None]
      /\ call' = [call EXCEPT ![c].tries = 0,
                     ![c].at = IF call[c].next = "answer" THEN "stopped" ELSE call[c].next]
      /\ UNCHANGED <<proc, mine, runs, pidFile, tangled, unnamed, blind, faults>>
  BY DEF Mark
<1>2. TypeOK /\ call \in [Callers -> Calls] /\ beat \in [pid : Pids \cup {None}, strategy : Strategies]
  BY CallType DEF IInv
<1>3. PICK at \in {"stopped", "status", "launch"} : call' = [call EXCEPT ![c].tries = 0, ![c].at = at]
  BY <1>1, <1>2 DEF Calls
<1>4. at \in Ats
  BY <1>3 DEF Ats, Steps, Answers
<1>5. /\ call' \in [Callers -> Calls] /\ call'[c].at = at /\ \A d \in Callers \ {c} : call'[d] = call[d]
  <2> DEFINE to == [call[c] EXCEPT !.tries = 0, !.at = at]
  <2>1. call' = [call EXCEPT ![c] = to] /\ call[c] \in Calls
    BY <1>2, <1>3 DEF Calls
  <2>3. 0 \in 0..MaxTries
    OBVIOUS
  <2>2. to \in Calls /\ to.at = at
    BY <1>4, <2>1, <2>3 DEF Calls
  <2> HIDE DEF to
  <2> QED
    BY ONLY <1>2, <2>1, <2>2, Moved
<1>6. beat' \in [pid : Pids \cup {None}, strategy : Strategies] /\ beat'.pid = None
  BY <1>1, <1>2
<1>7. TypeOK'
  BY <1>1, <1>2, <1>5, <1>6, CallType, CallTypeNext
<1>8. ASSUME ~tangled, ~blind PROVE InTurn'
  <2>1. InTurn /\ Busy(c) /\ Live = {} /\ Live' = Live /\ pidFile = None
    BY <1>1, <1>8 DEF IInv, InTurn, Cleared, Marked, Busy, Live
  <2> QED
    BY <1>1, <1>3, <1>5, <1>6, <2>1, TurnStep
<1> QED
  BY <1>1, <1>7, <1>8 DEF IInv

LEMMA LookUpStep == ASSUME IInv, NEW c \in Callers, LookUp(c) PROVE IInv'
<1>1. PICK same : /\ call[c].at = "status"
        /\ same = (Running /\ beat.strategy = call[c].strategy)
        /\ call' = [call EXCEPT ![c].at = "scan", ![c].same = same]
        /\ UNCHANGED <<proc, mine, runs, beat, pidFile, tangled, unnamed, blind, faults>>
  BY DEF LookUp
<1>2. TypeOK /\ call \in [Callers -> Calls] /\ "scan" \in Ats
  BY CallType DEF IInv, Ats, Steps
<1>3. same \in BOOLEAN
  BY <1>1, Zenon
<1>4. /\ call' \in [Callers -> Calls] /\ call'[c].at = "scan" /\ \A d \in Callers \ {c} : call'[d] = call[d]
  <2> DEFINE to == [call[c] EXCEPT !.at = "scan", !.same = same]
  <2>1. call' = [call EXCEPT ![c] = to] /\ call[c] \in Calls
    BY <1>1, <1>2, <1>3 DEF Calls
  <2>2. to \in Calls /\ to.at = "scan"
    BY <1>1, <1>2, <1>3, <2>1 DEF Calls
  <2> HIDE DEF to
  <2> QED
    BY ONLY <1>2, <2>1, <2>2, Moved
<1>5. TypeOK'
  BY <1>1, <1>2, <1>4, CallType, CallTypeNext
<1>6. ASSUME ~tangled, ~blind PROVE InTurn'
  <2>1. InTurn /\ Busy(c) /\ call[c].at # "spawned" /\ Live' = Live
    BY <1>1, <1>6 DEF IInv, Busy, Live
  <2>2. Live \subseteq {pidFile} \cup unnamed /\ \A p, q \in Live : p = q
    BY <2>1, TurnKnows
  <2> QED
    BY <1>1, <1>4, <2>1, <2>2, TurnStep
<1> QED
  BY <1>1, <1>5, <1>6 DEF IInv

LEMMA ScanStep == ASSUME IInv, NEW c \in Callers, Scan(c) PROVE IInv'
<1>1. PICK listed \in BOOLEAN :
        /\ Listing(listed) /\ proc' = Reaped
        /\ call' = [call EXCEPT ![c].at = AfterScan(call[c].same, WorkerPids(listed)), ![c].next = "launch"]
        /\ call[c].at = "scan" /\ UNCHANGED <<mine, runs, beat, pidFile, tangled, unnamed>>
  BY DEF Scan
<1>2. PICK at \in {"already", "kill", "launch"} :
        /\ at = "launch" => WorkerPids(listed) = {}
        /\ call' = [call EXCEPT ![c].at = at, ![c].next = "launch"]
  <2> DEFINE at == AfterScan(call[c].same, WorkerPids(listed))
  <2>1. at \in {"already", "kill", "launch"} /\ (at = "launch" => WorkerPids(listed) = {})
    BY Zenon DEF AfterScan
  <2>2. call' = [call EXCEPT ![c].at = at, ![c].next = "launch"]
    BY <1>1
  <2> HIDE DEF at
  <2> QED
    BY <2>1, <2>2
<1>3. TypeOK /\ at \in Ats /\ call \in [Callers -> Calls]
  BY <1>2, CallType DEF IInv, Ats, Steps, Answers
<1>4. /\ call' \in [Callers -> Calls] /\ call'[c].at = at /\ \A d \in Callers \ {c} : call'[d] = call[d]
  <2> DEFINE to == [call[c] EXCEPT !.at = at, !.next = "launch"]
  <2>1. call' = [call EXCEPT ![c] = to] /\ call[c] \in Calls
    BY <1>2, <1>3 DEF Calls
  <2>2. to \in Calls /\ to.at = at
    BY <1>2, <1>3, <2>1 DEF Calls
  <2> HIDE DEF to
  <2> QED
    BY ONLY <1>3, <2>1, <2>2, Moved
<1>5. Ending /\ proc' \in [Pids -> Procs]
  BY <1>1, <1>3, ReapedEnds
<1>6. TypeOK'
  <2>1. faults' \in 0..MaxFaults /\ blind' \in BOOLEAN
    BY <1>1, <1>3, ListingType
  <2> QED
    BY <1>1, <1>3, <1>4, <1>5, <2>1, CallType, CallTypeNext
<1>7. ASSUME ~tangled', ~blind' PROVE InTurn'
  <2>0. ~tangled /\ ~blind
    BY <1>1, <1>3, <1>7, ListingType
  <2>1. InTurn /\ Busy(c) /\ call[c].at # "spawned" /\ pidFile' = pidFile /\ unnamed' = unnamed
    BY <1>1, <2>0 DEF IInv, Busy
  <2>2. Live \subseteq {pidFile} \cup unnamed /\ \A p, q \in Live : p = q
    BY <2>1, TurnKnows
  <2>3. Live' \subseteq {pidFile'} \cup unnamed' /\ \A p, q \in Live' : p = q
    BY <1>5, <2>1, <2>2 DEF Ending
  <2>4. at = "launch" => Live = {}
    BY <1>1, <1>2, <1>3, <1>7, <2>2, NoneFound
  <2>5. call'[c].at = "launch" => Live' = {}
    BY <1>4, <1>5, <2>4 DEF Ending
  <2> QED
    BY <1>2, <1>4, <2>1, <2>3, <2>5, TurnStep
<1> QED
  BY <1>1, <1>6, <1>7 DEF IInv

LEMMA LaunchStep == ASSUME IInv, NEW c \in Callers, Launch(c) PROVE IInv'
<1>1. PICK p \in Pids :
        /\ proc' = [Reaped EXCEPT ![p] = "launched"] /\ mine' = mine \cup {p}
        /\ runs' = [runs EXCEPT ![p] = call[c].strategy]
        /\ call' = [call EXCEPT ![c].at = "spawned", ![c].pid = p]
        /\ call[c].at = "launch" /\ UNCHANGED <<beat, pidFile, tangled, unnamed, blind, faults>>
  BY DEF Launch
<1>2. /\ TypeOK /\ call \in [Callers -> Calls] /\ "spawned" \in Ats /\ Reaped \in [Pids -> Procs]
      /\ mine \subseteq Pids /\ runs \in [Pids -> Strategies]
  BY CallType, ReapedType DEF IInv, Ats, Steps
<1>3. /\ call' \in [Callers -> Calls] /\ call'[c].at = "spawned" /\ call'[c].pid = p
      /\ \A d \in Callers \ {c} : call'[d] = call[d]
  <2> DEFINE to == [call[c] EXCEPT !.at = "spawned", !.pid = p]
  <2>1. call' = [call EXCEPT ![c] = to] /\ call[c] \in Calls
    BY <1>1, <1>2 DEF Calls
  <2>2. to \in Calls /\ to.at = "spawned" /\ to.pid = p
    BY <1>1, <1>2, <2>1 DEF Calls
  <2> HIDE DEF to
  <2> QED
    BY ONLY <1>2, <2>1, <2>2, Moved
<1>4. proc' \in [Pids -> Procs] /\ runs' \in [Pids -> Strategies] /\ mine' \subseteq Pids
  BY <1>1, <1>2 DEF Procs, Calls
<1>5. TypeOK'
  BY <1>1, <1>2, <1>3, <1>4, CallType, CallTypeNext
<1>6. ASSUME ~tangled, ~blind PROVE InTurn'
  <2>1. InTurn /\ Busy(c) /\ Live = {}
    BY <1>1, <1>6 DEF IInv, InTurn, Cleared, Busy
  <2>2. \A q \in Pids : ~Held(q)
    BY <1>1, <2>1 DEF InTurn, Serial, Held, Busy
  <2>3. \A q \in Pids \ {p} : q \notin Live' /\ proc'[q] # "zombie"
    <3>1. ASSUME NEW q \in Pids \ {p} PROVE q \notin Live' /\ proc'[q] # "zombie"
      <4>1. proc'[q] = Reaped[q]
        BY <1>1, <1>2
      <4>2. Reaped[q] = proc[q] \/ Reaped[q] = "gone"
        BY <1>2, ReapedType
      <4>3. proc[q] = "zombie" => Reaped[q] = "gone"
        BY <1>2, <2>2, ReapedType
      <4>4. proc[q] \notin {"launched", "building", "up", "exiting"}
        BY <2>1 DEF Live
      <4> QED
        BY <4>1, <4>2, <4>3, <4>4 DEF Live
    <3> QED
      BY <3>1
  <2>4. Live' \subseteq {p} /\ Found' \subseteq {p}
    BY <1>1, <2>3 DEF Live, Found
  <2> QED
    BY <1>1, <1>3, <2>1, <2>4, TurnStep
<1> QED
  BY <1>1, <1>5, <1>6 DEF IInv

\* start() writes the pid of the worker it has launched.
LEMMA WritePidStep == ASSUME IInv, NEW c \in Callers, WritePid(c) PROVE IInv'
<1>1. /\ call[c].at = "spawned" /\ pidFile' = call[c].pid /\ call' = [call EXCEPT ![c].at = "wait"]
      /\ UNCHANGED <<proc, mine, runs, beat, tangled, unnamed, blind, faults>>
  BY DEF WritePid, Goto
<1>2. TypeOK /\ call \in [Callers -> Calls] /\ "wait" \in Ats
  BY CallType DEF IInv, Ats, Steps
<1>3. /\ call' \in [Callers -> Calls] /\ call'[c].at = "wait" /\ call'[c].pid = call[c].pid
      /\ \A d \in Callers \ {c} : call'[d] = call[d]
  BY <1>1, <1>2, AtType
<1>4. TypeOK'
  <2>1. pidFile' \in Pids \cup {None}
    BY <1>1, <1>2 DEF Calls
  <2> QED
    BY <1>1, <1>2, <1>3, <2>1, CallType, CallTypeNext
<1>5. ASSUME ~tangled, ~blind PROVE InTurn'
  <2>1. InTurn /\ Busy(c) /\ Found \subseteq {call[c].pid}
    BY <1>1, <1>5 DEF IInv, InTurn, Own, Busy
  <2>2. Found' \subseteq {pidFile'} /\ Live' \subseteq {pidFile'}
    BY <1>1, <2>1 DEF Found, Live
  <2> QED
    BY <1>1, <1>3, <2>1, <2>2, TurnStep
<1> QED
  BY <1>1, <1>4, <1>5 DEF IInv

\* start() raises instead: nobody names its worker.
LEMMA WriteRaisesStep == ASSUME IInv, NEW c \in Callers, WriteRaises(c) PROVE IInv'
<1>1. /\ call[c].at = "spawned" /\ pidFile' \in {pidFile, None} /\ unnamed' = unnamed \cup {call[c].pid}
      /\ call' = [call EXCEPT ![c].at = "raised"]
      /\ UNCHANGED <<proc, mine, runs, beat, tangled, blind, faults>>
  BY DEF WriteRaises, Goto
<1>2. TypeOK /\ call \in [Callers -> Calls] /\ "raised" \in Ats
  BY CallType DEF IInv, Ats, Answers
<1>3. /\ call' \in [Callers -> Calls] /\ call'[c].at = "raised"
      /\ \A d \in Callers \ {c} : call'[d] = call[d]
  BY <1>1, <1>2, AtType
<1>4. TypeOK'
  <2>1. pidFile' \in Pids \cup {None} /\ unnamed' \subseteq Pids \cup {None}
    BY <1>1, <1>2, CallType DEF Calls
  <2> QED
    BY <1>1, <1>2, <1>3, <2>1, CallType, CallTypeNext
<1>5. ASSUME ~tangled, ~blind PROVE InTurn'
  <2>1. InTurn /\ Busy(c) /\ Found \subseteq {call[c].pid}
    BY <1>1, <1>5 DEF IInv, InTurn, Own, Busy
  <2>2. Live' \subseteq {call[c].pid}
    BY <1>1, <2>1 DEF Found, Live
  <2> QED
    BY <1>1, <1>3, <2>1, <2>2, TurnStep
<1> QED
  BY <1>1, <1>4, <1>5 DEF IInv

LEMMA PollStep == ASSUME IInv, NEW c \in Callers, Poll(c) PROVE IInv'
<1>0. TypeOK /\ call \in [Callers -> Calls] /\ proc \in [Pids -> Procs] /\ call[c].at = "wait"
  BY CallType DEF IInv, Poll
<1>1. /\ proc' = [proc EXCEPT ![call[c].pid] = IF @ = "zombie" THEN "gone" ELSE @]
      /\ UNCHANGED <<mine, runs, beat, tangled, unnamed, blind, faults>>
      /\ \/ Seen /\ pidFile' = beat.pid /\ Goto(c, "started")
         \/ pidFile' = pidFile /\ Goto(c, "abandon")
         \/ /\ pidFile' = pidFile /\ call[c].tries # MaxTries
            /\ call' = [call EXCEPT ![c].tries = @ + 1]
  BY DEF Poll, PollsSpent
<1>2. \A q \in Pids : proc'[q] \in Procs /\ (proc'[q] = proc[q] \/ proc'[q] = "gone")
  BY <1>0, <1>1 DEF Procs
<1>3. Ending /\ proc' \in [Pids -> Procs]
  <2>1. Live' \subseteq Live
    BY <1>2 DEF Live
  <2>2. Found' \subseteq Found
    BY <1>2, <2>1 DEF Found
  <2> QED
    BY <1>0, <1>1, <1>2, <2>1, <2>2 DEF Ending
<1>4. /\ call' \in [Callers -> Calls] /\ call'[c].pid = call[c].pid
      /\ call'[c].at \in {"started", "abandon", "wait"}
      /\ call'[c].at = "wait" => pidFile' = pidFile
      /\ \A d \in Callers \ {c} : call'[d] = call[d]
  <2>1. ASSUME NEW at \in {"started", "abandon"}, Goto(c, at)
        PROVE  /\ call' \in [Callers -> Calls] /\ call'[c].at = at /\ call'[c].pid = call[c].pid
               /\ \A d \in Callers \ {c} : call'[d] = call[d]
    <3>1. at \in Ats
      BY <2>1 DEF Ats, Steps, Answers
    <3> QED
      BY <1>0, <2>1, <3>1, AtType DEF Goto
  <2>2. ASSUME call[c].tries # MaxTries, call' = [call EXCEPT ![c].tries = @ + 1]
        PROVE  /\ call' \in [Callers -> Calls] /\ call'[c].at = "wait" /\ call'[c].pid = call[c].pid
               /\ \A d \in Callers \ {c} : call'[d] = call[d]
    <3>1. call[c].tries + 1 \in 0..MaxTries /\ call[c] \in Calls
      BY <1>0, <2>2 DEF Calls
    <3> DEFINE tries == call[c].tries + 1
    <3>2. call' = [call EXCEPT ![c] = [call[c] EXCEPT !.tries = tries]]
      BY <1>0, <2>2 DEF Calls
    <3>3. tries \in 0..MaxTries
      BY <3>1
    <3> HIDE DEF tries
    <3> QED
      BY <1>0, <3>1, <3>2, <3>3 DEF Calls
  <2> QED
    BY <1>1, <2>1, <2>2
<1>5. TypeOK'
  <2>1. pidFile' \in Pids \cup {None}
    BY <1>0, <1>1, CallType
  <2> QED
    BY <1>0, <1>1, <1>3, <1>4, <2>1, CallType, CallTypeNext
<1>6. ASSUME ~tangled, ~blind PROVE InTurn'
  <2>1. InTurn /\ Busy(c) /\ call[c].pid = pidFile /\ Found \subseteq {pidFile}
    BY <1>0, <1>6 DEF IInv, InTurn, Own, Busy
  <2>2. Seen => beat.pid = pidFile
    BY <1>0, <2>1, CallType DEF Seen, PidAlive, Found
  <2>3. pidFile' = pidFile
    BY <1>1, <2>2
  <2>4. Live' \subseteq {pidFile'} /\ Found' \subseteq {pidFile'}
    BY <1>3, <2>1, <2>3 DEF Ending, Found, Live
  <2> QED
    BY <1>4, <2>1, <2>3, <2>4, TurnStep
<1> QED
  BY <1>1, <1>5, <1>6 DEF IInv

LEMMA AbandonStep == ASSUME IInv, NEW c \in Callers, Abandon(c) PROVE IInv'
<1>0. TypeOK
  BY DEF IInv
<1>1. PICK listed \in BOOLEAN :
        LET found == WorkerPids(listed) \cup {call[c].pid} IN
        /\ Listing(listed)
        /\ proc' = [p \in Pids |->
                      IF p \notin found THEN Reaped[p]
                      ELSE IF p = call[c].pid /\ Reaped[p] \in {"launched", "building", "zombie"}
                      THEN "gone" ELSE Terminated(p, Reaped)]
  BY DEF Abandon
<1>2. /\ call' = [call EXCEPT ![c].at = "raised"] /\ call[c].at = "abandon" /\ "raised" \in Ats
      /\ UNCHANGED <<mine, runs, beat, pidFile, tangled, unnamed>>
  BY DEF Abandon, Goto, Ats, Answers
<1>3. /\ proc' = [p \in Pids |-> proc'[p]]
      /\ \A p \in Pids : proc'[p] = Terminated(p, Reaped) \/ proc'[p] = Reaped[p] \/ proc'[p] = "gone"
  BY <1>1
<1>4. Ending /\ proc' \in [Pids -> Procs]
  BY <1>0, <1>3, SignalledEnds
<1>5. /\ call' \in [Callers -> Calls] /\ call'[c].at = "raised" /\ \A d \in Callers \ {c} : call'[d] = call[d]
  BY <1>0, <1>2, AtType
<1>6. faults' \in 0..MaxFaults /\ blind' \in BOOLEAN /\ (~blind' => ~blind)
  BY <1>0, <1>1, ListingType
<1>7. TypeOK'
  BY <1>0, <1>2, <1>4, <1>5, <1>6, CallType, CallTypeNext
<1>8. ASSUME ~tangled, ~blind PROVE InTurn'
  <2>1. InTurn /\ Busy(c) /\ call[c].at # "spawned"
    BY <1>2, <1>8 DEF IInv, Busy
  <2>2. Live \subseteq {pidFile} \cup unnamed /\ \A p, q \in Live : p = q
    BY <2>1, TurnKnows
  <2>3. Live' \subseteq {pidFile'} \cup unnamed' /\ \A p, q \in Live' : p = q
    BY <1>2, <1>4, <2>2 DEF Ending
  <2> QED
    BY <1>5, <2>1, <2>3, TurnStep
<1> QED
  BY <1>2, <1>6, <1>7, <1>8 DEF IInv

LEMMA ReturnStep == ASSUME IInv, NEW c \in Callers, Return(c) PROVE IInv'
<1>1. /\ call[c].at \in Answers /\ call' = [call EXCEPT ![c] = Idle]
      /\ UNCHANGED <<proc, mine, runs, beat, pidFile, tangled, unnamed, blind, faults>> /\ TypeOK
  BY DEF Return, IInv
<1>2. /\ call' \in [Callers -> Calls] /\ call'[c].at = "idle" /\ \A d \in Callers \ {c} : call'[d] = call[d]
  BY <1>1, IdleType, CallType
<1>3. TypeOK'
  BY <1>1, <1>2, CallType, CallTypeNext
<1>4. ASSUME ~tangled, ~blind PROVE InTurn'
  <2>1. InTurn /\ Busy(c) /\ call[c].at # "spawned" /\ Live' = Live
    BY <1>1, <1>4 DEF IInv, Busy, Answers, Live
  <2>2. Live \subseteq {pidFile} \cup unnamed /\ \A p, q \in Live : p = q
    BY <2>1, TurnKnows
  <2> QED
    BY <1>1, <1>2, <2>1, <2>2, TurnStep
<1> QED
  BY <1>1, <1>3, <1>4 DEF IInv

\* A call begins: alone, or the calls are tangled from here on.
LEMMA BeginStep ==
    ASSUME IInv, NEW c \in Callers, NEW to \in Calls, to.at \in {"kill", "status"},
           call[c].at = "idle", call' = [call EXCEPT ![c] = to],
           tangled' = (tangled \/ \E d \in Callers : call[d].at # "idle"),
           UNCHANGED <<proc, mine, runs, beat, pidFile, unnamed, blind, faults>>
    PROVE  IInv'
<1>1. TypeOK
  BY DEF IInv
<1>2. call' \in [Callers -> Calls] /\ call'[c] = to /\ \A d \in Callers \ {c} : call'[d] = call[d]
  BY <1>1, CallType
<1>3. tangled' \in BOOLEAN
  BY Zenon
<1>4. TypeOK'
  BY <1>1, <1>2, <1>3, CallType, CallTypeNext
<1>5. ASSUME ~tangled', ~blind' PROVE InTurn'
  <2>1. ~tangled /\ ~blind /\ \A d \in Callers : call[d].at = "idle"
    BY <1>5, Zenon
  <2>2. \A d \in Callers \ {c} : call'[d].at = "idle"
    BY <1>2, <2>1
  <2>3. Serial' /\ Cleared' /\ Own' /\ Marked'
    BY <1>2, <2>2 DEF Serial, Busy, Cleared, Own, Marked
  <2>4. Known' /\ Single'
    BY <2>1 DEF IInv, InTurn, Known, Single, Live
  <2> QED
    BY <2>3, <2>4 DEF InTurn
<1> QED
  BY <1>4, <1>5 DEF IInv

LEMMA CallBegins ==
    ASSUME IInv, NEW c \in Callers, NEW s \in Strategies,
           Stop(c) \/ Start(c, s) \/ Restart(c, s) \/ Follow(c, s)
    PROVE  IInv'
<1>1. ASSUME Stop(c) PROVE IInv'
  <2> DEFINE to == [Idle EXCEPT !.at = "kill"]
  <2>1. to \in Calls /\ to.at = "kill"
    BY IdleType DEF Calls, Ats, Steps
  <2>2. /\ call[c].at = "idle" /\ call' = [call EXCEPT ![c] = to]
        /\ UNCHANGED <<proc, mine, runs, beat, pidFile, unnamed, blind, faults>>
    BY <1>1 DEF Stop
  <2>3. tangled' = (tangled \/ \E d \in Callers : call[d].at # "idle")
    BY <1>1, Zenon DEF Stop
  <2> HIDE DEF to
  <2> QED
    BY <2>1, <2>2, <2>3, BeginStep
<1>2. ASSUME NEW at \in {"kill", "status"}, Begin(c, at, s) PROVE IInv'
  <2> DEFINE to == [Idle EXCEPT !.at = at, !.strategy = s, !.next = IF at = "kill" THEN "status" ELSE "answer"]
  <2>1. to \in Calls /\ to.at = at
    BY IdleType DEF Calls, Ats, Steps
  <2>2. /\ call[c].at = "idle" /\ call' = [call EXCEPT ![c] = to]
        /\ UNCHANGED <<proc, mine, runs, beat, pidFile, unnamed, blind, faults>>
    BY <1>2 DEF Begin
  <2>3. tangled' = (tangled \/ \E d \in Callers : call[d].at # "idle")
    BY <1>2, Zenon DEF Begin
  <2> HIDE DEF to
  <2> QED
    BY <2>1, <2>2, <2>3, BeginStep
<1> QED
  BY <1>1, <1>2, Zenon DEF Start, Restart, Follow

-----------------------------------------------------------------------------
(* Workers and the environment.                                            *)

\* A worker gets on, writes its heartbeat or ends; no call moves.
LEMMA WorkerEnds ==
    ASSUME IInv, NEW p \in Pids, p \in Live, NEW to \in Procs \ {"unborn"},
           to \in {"building", "up", "zombie", "gone"},
           proc' = [proc EXCEPT ![p] = to],
           beat' = beat \/ beat' = [pid |-> p, strategy |-> runs[p]],
           faults' \in 0..MaxFaults, UNCHANGED <<mine, runs, pidFile, call, tangled, unnamed, blind>>
    PROVE  IInv'
<1>1. TypeOK /\ proc \in [Pids -> Procs] /\ runs \in [Pids -> Strategies]
  BY CallType DEF IInv
<1>2. proc' \in [Pids -> Procs] /\ proc'[p] = to /\ \A q \in Pids \ {p} : proc'[q] = proc[q]
  BY <1>1
<1>3. Ending
  BY <1>1, <1>2 DEF Ending, Live, Found
<1>4. beat' \in [pid : Pids \cup {None}, strategy : Strategies]
  BY <1>1, CallType
<1>5. TypeOK'
  BY <1>1, <1>2, <1>4, CallType, CallTypeNext
<1>6. ASSUME ~tangled, ~blind PROVE InTurn'
  <2>1. Serial' /\ Known' /\ Single' /\ Cleared' /\ Own'
    BY <1>3, <1>6 DEF IInv, InTurn, Serial, Known, Single, Cleared, Own, Busy, Ending
  <2>2. Marked'
    BY <1>6 DEF IInv, InTurn, Cleared, Marked
  <2> QED
    BY <2>1, <2>2 DEF InTurn
<1> QED
  BY <1>5, <1>6 DEF IInv

LEMMA WorkerStep ==
    ASSUME IInv, NEW p \in Pids, FirstBeat(p) \/ Built(p) \/ Beat(p) \/ Exit(p) \/ Crash(p) PROVE IInv'
<1>0. TypeOK /\ faults \in 0..MaxFaults /\ proc \in [Pids -> Procs]
  BY CallType DEF IInv
<1>1. CASE FirstBeat(p)
  BY <1>0, <1>1, WorkerEnds DEF FirstBeat, Live, Procs
<1>2. CASE Built(p)
  BY <1>0, <1>2, WorkerEnds DEF Built, Live, Procs
<1>3. CASE Beat(p)
  <2>1. proc' = [proc EXCEPT ![p] = "up"] /\ p \in Live
    BY <1>0, <1>3 DEF Beat, Live
  <2> QED
    BY <1>0, <1>3, <2>1, WorkerEnds DEF Beat, Procs
<1>4. CASE Exit(p)
  <2>1. p \in Live /\ Dead(p) \in {"zombie", "gone"}
    BY <1>4 DEF Exit, Live, Dead
  <2> QED
    BY <1>0, <1>4, <2>1, WorkerEnds DEF Exit, Procs
<1>5. CASE Crash(p)
  <2>1. p \in Live /\ Dead(p) \in {"zombie", "gone"} /\ faults' \in 0..MaxFaults
    BY <1>0, <1>5, FaultType DEF Crash, Dead, Fault
  <2> QED
    BY <1>5, <2>1, WorkerEnds DEF Crash, Procs
<1> QED
  BY <1>1, <1>2, <1>3, <1>4, <1>5

LEMMA RestartApiStep == IInv /\ RestartApi => IInv'
<1> SUFFICES ASSUME IInv, RestartApi PROVE IInv'
  OBVIOUS
<1>1. /\ call' = [c \in Callers |-> Idle] /\ mine' = {}
      /\ proc' = [p \in Pids |-> IF proc[p] = "zombie" THEN "gone" ELSE proc[p]]
      /\ unnamed' = unnamed \cup {call[c].pid : c \in {d \in Callers : call[d].at = "spawned"}}
      /\ UNCHANGED <<runs, beat, pidFile, tangled, blind>>
  BY DEF RestartApi
<1>2. TypeOK /\ faults' \in 0..MaxFaults
  BY FaultType DEF IInv, RestartApi, Fault
<1>3. proc' \in [Pids -> Procs] /\ Live' = Live
  BY <1>1, <1>2, CallType DEF Procs, Live
<1>4. call' \in [Callers -> Calls] /\ \A c \in Callers : call'[c].at = "idle"
  BY <1>1, IdleType
<1>5. TypeOK'
  <2>1. unnamed' \subseteq Pids \cup {None}
    BY <1>1, <1>2, CallType DEF Calls
  <2> QED
    BY <1>1, <1>2, <1>3, <1>4, <2>1, CallType, CallTypeNext
<1>6. ASSUME ~tangled, ~blind PROVE InTurn'
  <2>1. Known' /\ Single'
    BY <1>1, <1>3, <1>6 DEF IInv, InTurn, Known, Single
  <2> QED
    BY <1>4, <2>1 DEF InTurn, Serial, Busy, Cleared, Own, Marked
<1> QED
  BY <1>1, <1>5, <1>6 DEF IInv

-----------------------------------------------------------------------------
LEMMA InvStep == IInv /\ [Next]_vars => IInv'
<1> SUFFICES ASSUME IInv, [Next]_vars PROVE IInv'
  OBVIOUS
<1>1. ASSUME NEW c \in Callers, Step(c) PROVE IInv'
  BY <1>1, KillStep, RecheckStep, UnlinkStep, MarkStep, LookUpStep, ScanStep, LaunchStep,
     WritePidStep, PollStep, AbandonStep, ReturnStep DEF Step
<1>2. ASSUME NEW c \in Callers, Stop(c) PROVE IInv'
  BY <1>2, SomeStrategy, CallBegins
<1>3. ASSUME NEW c \in Callers, NEW s \in Strategies, Start(c, s) \/ Restart(c, s) \/ Follow(c, s) PROVE IInv'
  BY <1>3, CallBegins
<1>4. ASSUME NEW p \in Pids, FirstBeat(p) \/ Built(p) \/ Beat(p) \/ Exit(p) \/ Crash(p) PROVE IInv'
  BY <1>4, WorkerStep
<1>5. CASE UNCHANGED vars
  <2>1. TypeOK'
    BY <1>5 DEF IInv, TypeOK, vars
  <2> QED
    BY <1>5, <2>1 DEF vars, IInv, InTurn, Serial, Known, Single, Cleared, Own, Marked, Busy, Found, Live
<1> QED
  BY <1>1, <1>2, <1>3, <1>4, <1>5, WriteRaisesStep, RestartApiStep DEF Next

THEOREM Always == Spec => []IInv
<1> QED
  BY InitInv, InvStep, PTL DEF Spec

\* Every reachable state is well typed.
THEOREM TypeCorrect == Spec => []TypeOK
<1>1. IInv => TypeOK
  BY DEF IInv
<1> QED
  BY <1>1, Always, PTL

\* At most one worker as long as no two calls overlap and no listing fails while
\* a worker lives whose start was cut off before the pid file
\* (worker_ctl.start, stop): for any number of callers, strategies, workers,
\* polls and faults.
THEOREM AlwaysOneWorker == Spec => []OneWorkerUnlessTangled
<1>1. IInv => OneWorkerUnlessTangled
  <2> SUFFICES ASSUME IInv, ~tangled, ~blind PROVE Cardinality(Live) <= 1
    BY DEF OneWorkerUnlessTangled
  <2>1. \A p, q \in Live : p = q
    BY DEF IInv, InTurn, Single
  <2>2. CASE Live = {}
    BY <2>2, FS_EmptySet
  <2>3. CASE Live # {}
    <3>1. PICK p \in Live : Live = {p}
      BY <2>1, <2>3
    <3> QED
      BY <3>1, FS_Singleton
  <2> QED
    BY <2>2, <2>3
<1> QED
  BY <1>1, Always, PTL

\* A stop that answers has left no worker (worker_ctl.stop and
\* _mark_heartbeat_stopped).
THEOREM StopAlwaysStops == Spec => []StoppedIsStopped
<1>1. IInv => StoppedIsStopped
  <2> SUFFICES ASSUME IInv, NEW c \in Callers, call[c].at = "stopped", ~tangled, ~blind PROVE Live = {} /\ ~Running
    BY DEF StoppedIsStopped
  <2> QED
    BY DEF IInv, InTurn, Cleared, Marked, Running, ShownPid, PidAlive
<1> QED
  BY <1>1, Always, PTL
===============================================================================
