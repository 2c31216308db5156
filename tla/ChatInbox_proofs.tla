--------------------------- MODULE ChatInbox_proofs ---------------------------
(***************************************************************************)
(* No command of the chat is lost, none is carried out more often than its *)
(* batch was broken off, and what is carried out again changes neither the *)
(* last word on the kill switch nor the settings: for any number of        *)
(* commands, Desk calls, exceptions and restarts.                          *)
(***************************************************************************)
EXTENDS ChatInbox, TLAPS

Working == {"handle", "unlink", "apply", "stopping", "launch", "save"}

\* The first update this delivery of the batch has not carried out.
From == IF at \in Working THEN pos ELSE offset

InBatch ==
    /\ offset <= sent + 1 /\ last <= sent
    /\ at \in Working => offset <= pos /\ pos <= last + 1
    /\ at \in Working \ {"handle"} => pos <= last
    /\ at = "unlink" => command[pos] = "resume"
    /\ at = "save" => command[pos] \in {"start", "stop"}
    /\ at = "apply" => command[pos] = "follow"
    /\ at = "stopping" => command[pos] \in {"start", "stop", "follow"}
    /\ at = "launch" => command[pos] \in {"start", "follow"}

\* Commands are first carried out in the order in which they were sent.
InOrder ==
    /\ \A u \in Updates : handled[u] > 0 => u <= sent
    /\ \A u, v \in Updates : u < v /\ handled[v] > 0 => handled[u] > 0

BehindIsHandled == \A u \in Updates : u < From => handled[u] > 0

Counted ==
    \A u \in Updates : handled[u] <= 1 + breaks /\ (u >= From => handled[u] <= breaks)

\* The kill switch: the last command on it that may be delivered again is the
\* last word, and the switch follows the word once none is left to repeat.
Switches(u) == command[u] \in {"halt", "resume"}
Repeats(u) == handled[u] > 0 /\ Switches(u)

LastRepeatIsWord ==
    ~crossed => \A u \in Updates :
        u >= offset /\ Repeats(u) /\ (\A v \in Updates : v > u => ~Repeats(v))
            => word = (command[u] = "halt")

SwitchFollowsWord ==
    ~crossed /\ (\A u \in Updates : u >= From => ~Repeats(u)) => killed = word

\* Worker and settings differ only within a call, or while a command that will
\* repair it is ahead, unless something has led them astray.
WorkerCommands == {"start", "stop", "follow"}
Ahead == \E u \in Updates : From <= u /\ u <= sent /\ command[u] \in WorkerCommands
Match == enabled = (worker = "on")

RepairIsAhead == ChatCalls \/ deskAt # "idle" \/ Match \/ Ahead

\* Within a call of the chat, and of the Desk: what is done is kept to its end.
ChatInStep ==
    /\ at = "save" => (worker = "on") = (command[pos] = "start")
    /\ ChatCalls /\ command[pos] = "follow" => enabled

DeskInStep ==
    /\ deskAt = "launch" => deskDoes = "start"
    /\ deskAt = "save" => (worker = "on") = (deskDoes = "start")

SettingsInv ==
    ~astray => RepairIsAhead /\ ChatInStep /\ DeskInStep /\ ~(ChatCalls /\ deskAt # "idle")

Delivery == TypeOK /\ InBatch /\ InOrder /\ BehindIsHandled /\ Counted
IInv == Delivery /\ LastRepeatIsWord /\ SwitchFollowsWord /\ SettingsInv

-----------------------------------------------------------------------------
LEMMA InitInv == Init => IInv
<1> SUFFICES ASSUME Init PROVE IInv
  OBVIOUS
<1> USE BoundAssumption DEF Init, Updates, Commands
<1>1. TypeOK
  <2>1. command \in [Updates -> Commands] /\ handled \in [Updates -> Nat]
    OBVIOUS
  <2>2. /\ sent \in 0..MaxUpdates /\ offset \in 1..(MaxUpdates + 1) /\ last \in 0..MaxUpdates
        /\ pos \in 1..(MaxUpdates + 1) /\ breaks \in Nat /\ desk \in 0..MaxDesk /\ faults \in 0..MaxFaults
    OBVIOUS
  <2>3. /\ killed \in BOOLEAN /\ word \in BOOLEAN /\ crossed \in BOOLEAN
        /\ enabled \in BOOLEAN /\ astray \in BOOLEAN
        /\ worker \in Worker /\ deskAt \in {"idle", "stopping", "launch", "save"} /\ deskDoes \in {"start", "stop"}
    BY DEF Worker
  <2> QED
    BY <2>1, <2>2, <2>3 DEF TypeOK
<1>2. InBatch /\ InOrder
  BY DEF InBatch, InOrder, Working
<1>3. BehindIsHandled /\ Counted
  BY DEF BehindIsHandled, Counted, From, Working
<1>4. LastRepeatIsWord /\ SwitchFollowsWord
  <2>1. \A u \in Updates : ~Repeats(u)
    BY DEF Repeats
  <2>2. killed = word
    OBVIOUS
  <2> QED
    BY <2>1, <2>2, Zenon DEF LastRepeatIsWord, SwitchFollowsWord
<1>5. SettingsInv
  BY DEF SettingsInv, RepairIsAhead, ChatInStep, DeskInStep, ChatCalls, Match
<1> QED
  BY <1>1, <1>2, <1>3, <1>4, <1>5 DEF IInv, Delivery

-----------------------------------------------------------------------------
(* Kinds of steps on the delivery of a batch.                              *)

\* The update at pos is carried out, and the thread goes on.
LEMMA Carried ==
    ASSUME Delivery, at \in Working, pos <= last, Count, Onward, UNCHANGED <<sent, command, breaks>>
    PROVE  InBatch' /\ InOrder' /\ BehindIsHandled' /\ Counted' /\ pos \in Updates
<1> USE BoundAssumption DEF Updates
<1>1. /\ pos \in 1..MaxUpdates /\ sent \in Nat /\ last \in Nat /\ offset \in Nat /\ breaks \in Nat
      /\ handled \in [1..MaxUpdates -> Nat] /\ at' = "handle" /\ pos' = pos + 1 /\ From = pos /\ From' = pos + 1
      /\ offset' = offset /\ last' = last /\ sent' = sent /\ breaks' = breaks
  BY DEF Delivery, TypeOK, InBatch, Onward, From, Working
<1>2. handled' = [handled EXCEPT ![pos] = @ + 1]
  BY DEF Count
<1>3. InBatch'
  BY <1>1 DEF Delivery, InBatch, Working
<1>4. InOrder'
  BY <1>1, <1>2 DEF Delivery, InBatch, InOrder, BehindIsHandled
<1>5. BehindIsHandled' /\ Counted'
  BY <1>1, <1>2 DEF Delivery, BehindIsHandled, Counted
<1> QED
  BY <1>1, <1>3, <1>4, <1>5

\* The thread goes on within the handling of the update at pos, or the batch
\* is begun or ended, with nothing carried out.
LEMMA Waited ==
    ASSUME Delivery, TypeOK', UNCHANGED <<sent, command, handled, breaks>>, InBatch', From' = From
    PROVE  InOrder' /\ BehindIsHandled' /\ Counted'
<1>1. sent' = sent /\ handled' = handled /\ breaks' = breaks
  OBVIOUS
<1> QED
  BY <1>1 DEF Delivery, InOrder, BehindIsHandled, Counted

\* The batch is broken off.
LEMMA Broken ==
    ASSUME Delivery, at' \notin Working, breaks' = breaks + 1, UNCHANGED <<sent, command, handled, offset, last>>
    PROVE  InBatch' /\ InOrder' /\ BehindIsHandled' /\ Counted'
<1> USE BoundAssumption DEF Updates
<1>1. /\ sent' = sent /\ handled' = handled /\ offset' = offset /\ last' = last /\ breaks \in Nat
      /\ handled \in [1..MaxUpdates -> Nat] /\ offset \in Nat /\ pos \in Nat
  BY DEF Delivery, TypeOK
<1>2. From' = offset /\ offset <= From
  BY <1>1 DEF Delivery, InBatch, From
<1>3. InBatch'
  BY <1>1 DEF Delivery, InBatch, Working
<1>4. InOrder'
  BY <1>1 DEF Delivery, InOrder
<1>5. From \in Nat
  BY <1>1 DEF From
<1>6. BehindIsHandled'
  BY <1>1, <1>2, <1>5 DEF Delivery, BehindIsHandled
<1>7. Counted'
  BY <1>1, <1>2, <1>5 DEF Delivery, Counted
<1> QED
  BY <1>3, <1>4, <1>6, <1>7

-----------------------------------------------------------------------------
LEMMA TypeStep == Delivery /\ [Next]_vars => TypeOK'
<1> SUFFICES ASSUME Delivery, [Next]_vars PROVE TypeOK'
  OBVIOUS
<1> USE BoundAssumption
<1> DEFINE BatchOK == /\ offset \in 1..(MaxUpdates + 1) /\ last \in 0..MaxUpdates /\ pos \in 1..(MaxUpdates + 1)
                      /\ at \in {"poll", "handle", "unlink", "apply", "stopping", "launch", "save", "pause"}
           InputOK == sent \in 0..MaxUpdates /\ command \in [Updates -> Commands]
           CountOK == handled \in [Updates -> Nat] /\ breaks \in Nat
           SwitchOK == killed \in BOOLEAN /\ word \in BOOLEAN /\ crossed \in BOOLEAN
           WorkerOK == worker \in Worker /\ enabled \in BOOLEAN /\ astray \in BOOLEAN
           DeskOK == deskAt \in {"idle", "stopping", "launch", "save"} /\ deskDoes \in {"start", "stop"}
           BoundOK == desk \in 0..MaxDesk /\ faults \in 0..MaxFaults
<1> SUFFICES InputOK' /\ BatchOK' /\ CountOK' /\ SwitchOK' /\ WorkerOK' /\ DeskOK' /\ BoundOK'
  BY DEF TypeOK
<1>0. /\ InputOK /\ BatchOK /\ CountOK /\ SwitchOK /\ WorkerOK /\ DeskOK /\ BoundOK
      /\ last <= sent /\ (at \in Working \ {"handle"} => pos <= last)
  BY DEF Delivery, TypeOK, InBatch
<1>1. ASSUME pos <= last, Count, Onward, UNCHANGED breaks PROVE BatchOK' /\ CountOK'
  BY <1>0, <1>1 DEF Count, Onward, Updates
<1>2. ASSUME NEW step \in {"poll", "handle", "unlink", "apply", "stopping", "launch", "save", "pause"}, Goto(step) PROVE BatchOK'
  BY <1>0, <1>2 DEF Goto
<1>3. UNCHANGED inputVars => InputOK'
  BY <1>0 DEF inputVars
<1>4. UNCHANGED <<handled, breaks>> => CountOK'
  BY <1>0
<1>5. UNCHANGED killVars => SwitchOK'
  BY <1>0 DEF killVars
<1>6. UNCHANGED workerVars => WorkerOK'
  BY <1>0 DEF workerVars
<1>25. UNCHANGED deskVars => DeskOK'
  BY <1>0 DEF deskVars
<1>7. UNCHANGED <<desk, faults>> \/ (UNCHANGED desk /\ Fault) => BoundOK'
  BY <1>0 DEF Fault
<1>8. ASSUME NEW halt \in BOOLEAN, Says(halt) PROVE word' \in BOOLEAN
  BY <1>0, <1>8, Zenon DEF Says
<1>9. CASE Send
  BY <1>0, <1>9, <1>4, <1>5, <1>6, <1>7, <1>25 DEF Send, Updates, batchVars
<1>10. ASSUME NEW halt \in BOOLEAN, DeskSets(halt) PROVE InputOK' /\ BatchOK' /\ CountOK' /\ SwitchOK' /\ WorkerOK' /\ DeskOK' /\ BoundOK'
  <2>1. BatchOK' /\ BoundOK'
    BY <1>0, <1>10 DEF DeskSets, batchVars
  <2>2. SwitchOK'
    BY <1>0, <1>10, Zenon DEF DeskSets
  <2> QED
    BY <1>3, <1>4, <1>6, <1>10, <1>25, <2>1, <2>2 DEF DeskSets
<1>11. CASE Fetch
  BY <1>0, <1>11, <1>3, <1>4, <1>5, <1>6, <1>7, <1>25 DEF Fetch, OffsetAtFetch
<1>12. CASE Ask
  BY <1>12, <1>1, <1>3, <1>5, <1>6, <1>7, <1>25 DEF Ask, Handling
<1>13. CASE Halt
  <2>1. SwitchOK'
    BY <1>0, <1>8, <1>13, Zenon DEF Halt, Engaged
  <2> QED
    BY <1>13, <1>1, <1>3, <1>6, <1>7, <1>25, <2>1 DEF Halt, Handling
<1>14. CASE Resume
  <2>1. SwitchOK'
    BY <1>0, <1>8, <1>14, Zenon DEF Resume
  <2>2. BatchOK' /\ CountOK'
    BY <1>14, <1>1, <1>2, <1>4 DEF Resume, Handling
  <2> QED
    BY <1>14, <1>3, <1>6, <1>7, <1>25, <2>1, <2>2 DEF Resume
<1>15. CASE Unlink
  <2>1. SwitchOK'
    BY <1>0, <1>8, <1>15, Zenon DEF Unlink
  <2>2. CASE killed
    BY <1>0, <1>15, <1>1, <1>3, <1>6, <1>7, <1>25, <2>1, <2>2 DEF Unlink, Working
  <2>3. CASE ~killed
    BY <1>0, <1>15, <1>2, <1>3, <1>6, <1>7, <1>25, <2>1, <2>3 DEF Unlink
  <2> QED
    BY <2>2, <2>3
<1>16. CASE CallWorker
  <2>1. worker' \in Worker /\ enabled' = enabled
    BY <1>0, <1>16 DEF CallWorker, Signalled, Worker
  <2>2. astray' \in BOOLEAN
    BY <1>16, Zenon DEF CallWorker
  <2>3. BatchOK'
    BY <1>16, <1>2 DEF CallWorker
  <2> QED
    BY <1>0, <1>16, <1>3, <1>4, <1>5, <1>7, <1>25, <2>1, <2>2, <2>3 DEF CallWorker
<1>17. CASE FollowSaves
  <2>1. enabled' \in BOOLEAN /\ worker' = worker /\ astray' \in BOOLEAN
    BY <1>17, Zenon DEF FollowSaves
  <2> QED
    BY <1>0, <1>17, <1>2, <1>3, <1>4, <1>5, <1>7, <1>25, <2>1 DEF FollowSaves
<1>18. CASE FollowApplies
  <2>1. BatchOK'
    BY <1>18, <1>2 DEF FollowApplies
  <2>2. WorkerOK'
    BY <1>0, <1>18 DEF FollowApplies, Signalled, Worker
  <2> QED
    BY <1>18, <1>3, <1>4, <1>5, <1>7, <1>25, <2>1, <2>2 DEF FollowApplies
<1>19. CASE KeepsStopping \/ Ends \/ DeskKeepsStopping
  BY <1>0, <1>19, <1>3, <1>4, <1>5, <1>7, <1>25 DEF KeepsStopping, Ends, DeskKeepsStopping, Worker, batchVars
<1>20. CASE StopEnds
  <2>1. BatchOK'
    BY <1>20, <1>2 DEF StopEnds
  <2> QED
    BY <1>20, <1>3, <1>4, <1>5, <1>6, <1>7, <1>25, <2>1 DEF StopEnds
<1>26. CASE StartEnds
  <2>1. WorkerOK'
    BY <1>0, <1>26 DEF StartEnds, Worker
  <2>2. BatchOK' /\ CountOK'
    BY <1>0, <1>26, <1>1, <1>2, <1>4 DEF StartEnds, Working
  <2> QED
    BY <1>26, <1>3, <1>5, <1>7, <1>25, <2>1, <2>2 DEF StartEnds
<1>27. CASE CallFails
  <2>1. WorkerOK'
    BY <1>0, <1>27 DEF CallFails, Worker, Signalled
  <2> QED
    BY <1>0, <1>27, <1>1, <1>3, <1>5, <1>7, <1>25, <2>1 DEF CallFails, Working
<1>28. CASE Save
  <2>1. enabled' \in BOOLEAN /\ worker' = worker /\ astray' = astray
    BY <1>28, Zenon DEF Save, Saved
  <2> QED
    BY <1>0, <1>28, <1>1, <1>3, <1>5, <1>7, <1>25, <2>1 DEF Save, Working
<1>29. CASE Crash
  BY <1>0, <1>29, <1>3, <1>4, <1>5, <1>7, <1>25 DEF Crash, Worker, batchVars
<1>30. ASSUME NEW does \in {"start", "stop"}, DeskCalls(does) PROVE InputOK' /\ BatchOK' /\ CountOK' /\ SwitchOK' /\ WorkerOK' /\ DeskOK' /\ BoundOK'
  <2>1. worker' \in Worker /\ enabled' = enabled
    BY <1>0, <1>30 DEF DeskCalls, Signalled, Worker
  <2>2. astray' \in BOOLEAN
    BY <1>30 DEF DeskCalls, Meets, ChatCalls
  <2>3. BoundOK' /\ DeskOK' /\ BatchOK'
    BY <1>0, <1>30 DEF DeskCalls, batchVars
  <2> QED
    BY <1>0, <1>30, <1>3, <1>4, <1>5, <2>1, <2>2, <2>3 DEF DeskCalls
<1>31. CASE DeskStopEnds \/ DeskStartEnds \/ DeskFails
  <2>1. CASE DeskStopEnds
    BY <1>0, <2>1, <1>3, <1>4, <1>5, <1>7 DEF DeskStopEnds, Worker, Signalled, workerVars, batchVars
  <2>2. CASE DeskStartEnds
    BY <1>0, <2>2, <1>3, <1>4, <1>5, <1>7 DEF DeskStartEnds, Worker, Signalled, workerVars, batchVars
  <2>3. CASE DeskFails
    BY <1>0, <2>3, <1>3, <1>4, <1>5, <1>7 DEF DeskFails, Worker, Signalled, workerVars, batchVars
  <2> QED
    BY <1>31, <2>1, <2>2, <2>3
<1>32. CASE DeskSaves
  <2>1. enabled' \in BOOLEAN
    BY <1>32, Zenon DEF DeskSaves
  <2> QED
    BY <1>0, <1>32, <1>3, <1>4, <1>5, <1>7, <2>1 DEF DeskSaves, batchVars
<1>33. ASSUME NEW shown \in BOOLEAN, DeskPuts(shown) PROVE InputOK' /\ BatchOK' /\ CountOK' /\ SwitchOK' /\ WorkerOK' /\ DeskOK' /\ BoundOK'
  BY <1>0, <1>33, <1>3, <1>4, <1>5, <1>25 DEF DeskPuts, batchVars
<1>21. CASE Ack
  BY <1>0, <1>21, <1>3, <1>4, <1>5, <1>6, <1>7, <1>25 DEF Ack, OffsetAtEnd
<1>22. CASE Raise
  BY <1>0, <1>22, <1>3, <1>5, <1>6, <1>7, <1>25 DEF Raise
<1>34. CASE Restart
  <2>1. worker' \in Worker /\ enabled' = enabled
    BY <1>0, <1>34 DEF Restart, Worker
  <2>2. astray' \in BOOLEAN
    BY <1>0, <1>34, Zenon DEF Restart
  <2> QED
    BY <1>0, <1>34, <1>3, <1>5, <1>7, <2>1, <2>2 DEF Restart
<1>23. CASE Again
  BY <1>23, <1>2, <1>3, <1>4, <1>5, <1>6, <1>7, <1>25 DEF Again, AfterPause
<1>24. CASE UNCHANGED vars
  BY <1>0, <1>24, <1>3, <1>4, <1>5, <1>6, <1>7, <1>25 DEF vars, batchVars
<1> QED
  BY <1>9, <1>10, <1>11, <1>12, <1>13, <1>14, <1>15, <1>16, <1>17, <1>18, <1>19, <1>20, <1>21, <1>22, <1>23, <1>24,
     <1>26, <1>27, <1>28, <1>29, <1>30, <1>31, <1>32, <1>33, <1>34
  DEF Next, Handle, Desk

LEMMA DeliveryStep == Delivery /\ [Next]_vars => Delivery'
<1> SUFFICES ASSUME Delivery, [Next]_vars PROVE InBatch' /\ InOrder' /\ BehindIsHandled' /\ Counted'
  BY TypeStep DEF Delivery
<1> USE BoundAssumption
<1>0. TypeOK /\ InBatch /\ TypeOK'
  BY TypeStep DEF Delivery
<1>1. CASE Send
  <2>1. /\ sent < MaxUpdates /\ sent' = sent + 1 /\ handled' = handled /\ breaks' = breaks
        /\ offset' = offset /\ last' = last /\ pos' = pos /\ at' = at /\ From' = From
        /\ \A u \in Updates : u <= sent => command'[u] = command[u]
    BY <1>0, <1>1 DEF TypeOK, Send, batchVars, From, Updates
  <2>2. InBatch'
    BY <1>0, <2>1 DEF TypeOK, InBatch, Updates, Working
  <2>3. InOrder'
    BY <1>0, <2>1 DEF Delivery, TypeOK, InOrder, Updates
  <2> QED
    BY <2>1, <2>2, <2>3 DEF Delivery, BehindIsHandled, Counted
<1>2. ASSUME NEW halt \in BOOLEAN, DeskSets(halt) PROVE InBatch' /\ InOrder' /\ BehindIsHandled' /\ Counted'
  <2>1. UNCHANGED <<sent, command, handled, breaks, offset, last, pos, at>>
    BY <1>2 DEF DeskSets, inputVars, batchVars
  <2> QED
    BY <1>0, <2>1, Waited DEF InBatch, From
<1>3. CASE Fetch
  <2>1. UNCHANGED <<sent, command, handled, breaks>> /\ InBatch' /\ From' = From
    BY <1>0, <1>3 DEF TypeOK, Fetch, OffsetAtFetch, inputVars, InBatch, From, Working
  <2> QED
    BY <1>0, <2>1, Waited
<1>4. CASE at \in Working /\ pos <= last /\ Count /\ Onward /\ UNCHANGED <<sent, command, breaks>>
  BY <1>4, Carried
<1>5. CASE at' \notin Working /\ breaks' = breaks + 1 /\ UNCHANGED <<sent, command, handled, offset, last>>
  BY <1>5, Broken
<1>6. CASE InBatch' /\ From' = From /\ UNCHANGED <<sent, command, handled, breaks>>
  BY <1>0, <1>6, Waited
<1>7. CASE Ask
  BY <1>4, <1>7 DEF Ask, Handling, Working, inputVars
<1>8. CASE Halt
  BY <1>4, <1>8 DEF Halt, Handling, Working, inputVars
<1>9. CASE Resume
  <2>1. CASE killed
    BY <1>0, <1>6, <1>9, <2>1 DEF Resume, Handling, Goto, Working, InBatch, From, inputVars
  <2>2. CASE ~killed
    BY <1>4, <1>9, <2>2 DEF Resume, Handling, Working, inputVars
  <2> QED
    BY <2>1, <2>2
<1>10. CASE Unlink
  <2>1. CASE killed
    BY <1>0, <1>4, <1>10, <2>1 DEF Unlink, Working, InBatch, inputVars
  <2>2. CASE ~killed
    BY <1>0, <1>5, <1>10, <2>2 DEF Unlink, Goto, Working, inputVars
  <2> QED
    BY <2>1, <2>2
<1>11. CASE CallWorker \/ FollowSaves
  BY <1>0, <1>6, <1>11 DEF CallWorker, FollowSaves, Handling, Goto, Working, InBatch, From, inputVars
<1>12. CASE FollowApplies \/ StopEnds
  BY <1>0, <1>6, <1>12 DEF FollowApplies, StopEnds, Goto, Working, InBatch, From, inputVars
<1>13. CASE StartEnds
  <2>1. CASE command[pos] = "start"
    BY <1>0, <1>6, <1>13, <2>1 DEF StartEnds, Goto, Working, InBatch, From, inputVars
  <2>2. CASE command[pos] # "start"
    BY <1>0, <1>4, <1>13, <2>2 DEF StartEnds, Working, InBatch, inputVars
  <2> QED
    BY <2>1, <2>2
<1>14. CASE CallFails \/ Save
  BY <1>0, <1>4, <1>14 DEF CallFails, Save, Working, InBatch, inputVars
<1>15. CASE KeepsStopping \/ Ends \/ Crash \/ Desk
  <2>1. UNCHANGED <<sent, command, handled, breaks, offset, last, pos, at>>
    BY <1>15 DEF KeepsStopping, Ends, Crash, Desk, DeskCalls, DeskKeepsStopping, DeskStopEnds, DeskStartEnds,
                 DeskFails, DeskSaves, DeskPuts, inputVars, batchVars
  <2> QED
    BY <1>0, <2>1, Waited DEF InBatch, From
<1>16. CASE Ack
  BY <1>0, <1>6, <1>16 DEF TypeOK, Ack, OffsetAtEnd, Working, InBatch, From, inputVars
<1>17. CASE Raise
  BY <1>5, <1>17 DEF Raise, Working, inputVars
<1>18. CASE Again
  BY <1>0, <1>6, <1>18 DEF Again, AfterPause, Goto, Working, InBatch, From, inputVars
<1>19. CASE Restart
  BY <1>5, <1>19 DEF Restart, Working, inputVars
<1>20. CASE UNCHANGED vars
  BY <1>0, <1>6, <1>20 DEF InBatch, From, vars, inputVars, batchVars
<1> QED
  BY <1>1, <1>2, <1>3, <1>7, <1>8, <1>9, <1>10, <1>11, <1>12, <1>13, <1>14, <1>15, <1>16, <1>17, <1>18, <1>19, <1>20
  DEF Next, Handle

-----------------------------------------------------------------------------
(* The kill switch.                                                        *)

SwitchInv == LastRepeatIsWord /\ SwitchFollowsWord

LEMMA PlaceFacts ==
    ASSUME Delivery
    PROVE  /\ sent \in Nat /\ last \in Nat /\ offset \in Nat /\ pos \in Nat /\ From \in Nat /\ offset <= From
           /\ handled \in [Updates -> Nat] /\ command \in [Updates -> Commands]
           /\ last <= sent /\ sent <= MaxUpdates /\ offset <= sent + 1 /\ offset >= 1
           /\ at \in Working => offset <= pos /\ pos <= last + 1
BY BoundAssumption DEF Delivery, TypeOK, InBatch, From, Updates

\* Nothing is carried out and neither the switch nor the word is touched.
LEMMA SwitchWaits ==
    ASSUME Delivery, SwitchInv, From' \in Nat, From' <= From, offset' \in Nat, offset' >= offset,
           UNCHANGED <<handled, killVars>>, \A u \in Updates : handled[u] > 0 => command'[u] = command[u]
    PROVE  SwitchInv'
<1>1. /\ From \in Nat /\ offset \in Nat /\ handled' = handled
      /\ killed' = killed /\ word' = word /\ crossed' = crossed
  BY PlaceFacts DEF killVars
<1>2. \A u \in Updates : Repeats(u)' <=> Repeats(u)
  BY <1>1 DEF Repeats, Switches
<1>3. \A u \in Updates : (u >= offset' => u >= offset) /\ (u >= From => u >= From')
  BY <1>1 DEF Updates
<1>4. LastRepeatIsWord'
  <2> SUFFICES ASSUME ~crossed, NEW u \in Updates, u >= offset', Repeats(u)', \A v \in Updates : v > u => ~Repeats(v)'
               PROVE  word = (command'[u] = "halt")
    BY <1>1, Zenon DEF LastRepeatIsWord
  <2>1. Repeats(u) /\ u >= offset /\ (\A v \in Updates : v > u => ~Repeats(v))
    BY <1>2, <1>3, Zenon
  <2>2. command'[u] = command[u]
    BY <2>1 DEF Repeats
  <2> QED
    BY <2>1, <2>2, Zenon DEF SwitchInv, LastRepeatIsWord
<1>5. SwitchFollowsWord'
  BY <1>1, <1>2, <1>3, Zenon DEF SwitchInv, SwitchFollowsWord
<1> QED
  BY <1>4, <1>5 DEF SwitchInv

\* A command that does not concern the switch is carried out.
LEMMA SwitchIsPassed ==
    ASSUME Delivery, SwitchInv, at \in Working, pos \in Updates, ~Switches(pos), Count, Onward,
           UNCHANGED <<command, killVars>>
    PROVE  SwitchInv'
<1>1. /\ From = pos /\ From' = pos + 1 /\ offset' = offset /\ command' = command
      /\ killed' = killed /\ word' = word /\ crossed' = crossed /\ pos \in Nat
      /\ handled' = [handled EXCEPT ![pos] = @ + 1] /\ handled \in [Updates -> Nat]
  BY PlaceFacts DEF killVars, From, Onward, Count, Working
<1>2. \A u \in Updates : Repeats(u)' <=> Repeats(u)
  <2> SUFFICES ASSUME NEW u \in Updates PROVE Repeats(u)' <=> Repeats(u)
    OBVIOUS
  <2>1. CASE u = pos
    BY <1>1, <2>1 DEF Repeats, Switches
  <2>2. CASE u # pos
    BY <1>1, <2>2 DEF Repeats, Switches
  <2> QED
    BY <2>1, <2>2
<1>3. \A u \in Updates : u >= From => u >= From' \/ u = pos
  BY <1>1 DEF Updates
<1>4. ~Repeats(pos)
  BY DEF Repeats
<1>5. (\A u \in Updates : u >= From' => ~Repeats(u)') => (\A u \in Updates : u >= From => ~Repeats(u))
  BY <1>2, <1>3, <1>4, Zenon
<1>6. LastRepeatIsWord'
  BY <1>1, <1>2, Zenon DEF SwitchInv, LastRepeatIsWord
<1>7. SwitchFollowsWord'
  BY <1>1, <1>5, Zenon DEF SwitchInv, SwitchFollowsWord
<1> QED
  BY <1>6, <1>7 DEF SwitchInv

\* A halt or a resume is carried out, for the first time or again.
Switched(u, halt) ==
    /\ halt = (command[u] = "halt") /\ killed' = halt /\ Says(halt)
    /\ command' = command /\ crossed' = crossed

LEMMA SwitchIsSet ==
    ASSUME Delivery, SwitchInv, at \in Working, NEW p \in Updates, p = pos, Switches(p), Count, Onward,
           NEW halt \in BOOLEAN, Switched(p, halt)
    PROVE  SwitchInv'
<1>1. /\ From' = p + 1 /\ offset' = offset /\ command' = command /\ crossed' = crossed
      /\ p \in Nat /\ p >= offset /\ offset \in Nat
      /\ handled' = [handled EXCEPT ![p] = @ + 1] /\ handled \in [Updates -> Nat]
  BY PlaceFacts DEF From, Onward, Count, Working, Switched
<1>2. Repeats(p)'
  BY <1>1 DEF Repeats, Switches
<1>3. \A u \in Updates : u # p => (Repeats(u)' <=> Repeats(u))
  BY <1>1 DEF Repeats, Switches
<1>4. \A u \in Updates : u > p => u >= From'
  BY <1>1 DEF Updates
<1>5. CASE handled[p] = 0
  <2>1. word' = halt
    BY <1>5, Zenon DEF Switched, Says
  <2>2. \A u \in Updates : u > p => handled[u] = 0
    BY <1>1, <1>5 DEF Delivery, InOrder
  <2>3. \A u \in Updates : u > p => ~Repeats(u)' /\ u # p
    BY <1>1, <2>2 DEF Repeats, Updates
  <2>4. \A u \in Updates : u = p \/ u < p \/ u > p
    BY DEF Updates
  <2>5. \A u \in Updates : Repeats(u)' /\ (\A v \in Updates : v > u => ~Repeats(v)') => u = p
    <3>1. \A u \in Updates : u < p => p > u
      BY DEF Updates
    <3> QED
      BY <1>2, <2>3, <2>4, <3>1, Zenon
  <2>6. LastRepeatIsWord'
    <3>1. word' = (command'[p] = "halt")
      BY <1>1, <2>1, Zenon DEF Switched
    <3> QED
      BY <2>5, <3>1, Zenon DEF LastRepeatIsWord
  <2>7. SwitchFollowsWord'
    <3>1. killed' = word'
      BY <2>1, Zenon DEF Switched
    <3> QED
      BY <3>1, Zenon DEF SwitchFollowsWord
  <2> QED
    BY <2>6, <2>7 DEF SwitchInv
<1>6. CASE handled[p] # 0
  <2>1. word' = word
    BY <1>6, Zenon DEF Switched, Says
  <2>2. Repeats(p)
    BY <1>1, <1>6 DEF Repeats
  <2>3. \A u \in Updates : Repeats(u)' <=> Repeats(u)
    BY <1>2, <1>3, <2>2, Zenon
  <2>0. crossed' = crossed /\ offset' = offset /\ command' = command
    BY <1>1
  <2>4. LastRepeatIsWord'
    <3> SUFFICES ASSUME ~crossed, NEW u \in Updates, u >= offset, Repeats(u)', \A v \in Updates : v > u => ~Repeats(v)'
                 PROVE  word' = (command'[u] = "halt")
      BY <2>0, Zenon DEF LastRepeatIsWord
    <3>1. Repeats(u) /\ (\A v \in Updates : v > u => ~Repeats(v))
      BY <2>3, Zenon
    <3>2. word = (command[u] = "halt")
      BY <3>1, Zenon DEF SwitchInv, LastRepeatIsWord
    <3> QED
      BY <2>0, <2>1, <3>2, Zenon
  <2>5. SwitchFollowsWord'
    <3> SUFFICES ASSUME ~crossed, \A u \in Updates : u >= From' => ~Repeats(u)' PROVE killed' = word'
      BY <2>0, Zenon DEF SwitchFollowsWord
    <3>1. \A v \in Updates : v > p => ~Repeats(v)
      BY <1>4, <2>3, Zenon
    <3>2. word = (command[p] = "halt")
      BY <1>1, <2>2, <3>1, Zenon DEF SwitchInv, LastRepeatIsWord
    <3>3. killed' = (command[p] = "halt")
      BY Zenon DEF Switched
    <3> QED
      BY <2>1, <3>2, <3>3, Zenon
  <2> QED
    BY <2>4, <2>5 DEF SwitchInv
<1> QED
  BY <1>5, <1>6

LEMMA SwitchStep == Delivery /\ SwitchInv /\ [Next]_vars => SwitchInv'
<1> SUFFICES ASSUME Delivery, SwitchInv, [Next]_vars PROVE SwitchInv'
  OBVIOUS
<1>0. /\ sent \in Nat /\ last \in Nat /\ offset \in Nat /\ pos \in Nat /\ From \in Nat /\ offset <= From
      /\ handled \in [Updates -> Nat] /\ command \in [Updates -> Commands]
      /\ last <= sent /\ sent <= MaxUpdates /\ offset <= sent + 1 /\ offset >= 1
      /\ (at \in Working => offset <= pos /\ pos <= last + 1)
  BY PlaceFacts
<1>1. InOrder /\ TypeOK /\ InBatch /\ From' \in Nat
  <2>1. TypeOK'
    BY TypeStep
  <2> QED
    BY <2>1 DEF Delivery, TypeOK, From
<1>2. CASE UNCHANGED <<handled, command, killVars, offset>> /\ From' <= From
  BY <1>0, <1>1, <1>2, SwitchWaits
<1>3. CASE at \in Working /\ pos \in Updates /\ ~Switches(pos) /\ Count /\ Onward /\ UNCHANGED <<command, killVars>>
  BY <1>3, SwitchIsPassed
<1>4. CASE at \in Working /\ pos \in Updates /\ command[pos] = "halt" /\ Count /\ Onward /\ Switched(pos, TRUE)
  <2>1. PICK p \in Updates : p = pos
    BY <1>4
  <2>2. Switches(p) /\ Switched(p, TRUE)
    BY <1>4, <2>1 DEF Switches
  <2> QED
    BY <1>4, <2>1, <2>2, SwitchIsSet
<1>5. CASE at \in Working /\ pos \in Updates /\ command[pos] = "resume" /\ Count /\ Onward /\ Switched(pos, FALSE)
  <2>1. PICK p \in Updates : p = pos
    BY <1>5
  <2>2. Switches(p) /\ Switched(p, FALSE)
    BY <1>5, <2>1 DEF Switches
  <2> QED
    BY <1>5, <2>1, <2>2, SwitchIsSet
<1>6. at \in Working /\ pos <= last => pos \in Updates
  BY <1>0, BoundAssumption DEF Updates
<1>7. CASE Send
  <2>1. /\ offset' = offset /\ From' = From /\ UNCHANGED <<handled, killVars>>
        /\ command \in [Updates -> Commands]
        /\ \E k \in Commands : command' = [command EXCEPT ![sent + 1] = k]
    BY <1>1, <1>7 DEF Send, batchVars, From, TypeOK
  <2>2. \A u \in Updates : handled[u] > 0 => command'[u] = command[u]
    <3> SUFFICES ASSUME NEW u \in Updates, handled[u] > 0 PROVE command'[u] = command[u]
      OBVIOUS
    <3>1. u # sent + 1
      BY <1>0, <1>1 DEF InOrder, Updates
    <3> QED
      BY <2>1, <3>1
  <2>3. From' \in Nat /\ From' <= From /\ offset' \in Nat /\ offset' >= offset
    BY <1>0, <2>1
  <2> QED
    BY <2>1, <2>2, <2>3, SwitchWaits
<1>8. ASSUME NEW halt \in BOOLEAN, DeskSets(halt) PROVE SwitchInv'
  <2>1. /\ killed' = word' /\ offset' = offset /\ handled' = handled /\ command' = command
        /\ crossed' = (crossed \/ Unpassed # {})
    BY <1>8 DEF DeskSets, inputVars, batchVars
  <2>2. SwitchFollowsWord'
    BY <2>1, Zenon DEF SwitchFollowsWord
  <2>3. ~crossed' => \A u \in Updates : ~(u >= offset /\ Repeats(u))
    BY <2>1 DEF Unpassed, Repeats
  <2>4. \A u \in Updates : Repeats(u)' <=> Repeats(u)
    BY <2>1 DEF Repeats, Switches
  <2>5. LastRepeatIsWord'
    BY <2>1, <2>3, <2>4, Zenon DEF LastRepeatIsWord
  <2> QED
    BY <2>2, <2>5 DEF SwitchInv
<1>9. CASE Fetch
  BY <1>0, <1>2, <1>9 DEF Fetch, OffsetAtFetch, inputVars, From, Working
<1>10. CASE Ask
  BY <1>3, <1>6, <1>10 DEF Ask, Handling, Working, Switches, inputVars
<1>11. CASE Halt
  <2>1. Switched(pos, TRUE)
    BY <1>11 DEF Halt, Handling, Engaged, Switched, inputVars
  <2> QED
    BY <1>4, <1>6, <1>11, <2>1 DEF Halt, Handling, Working
<1>12. CASE Resume
  <2>1. CASE killed
    BY <1>0, <1>1, <1>2, <1>12, <2>1 DEF Resume, Handling, Goto, Working, From, inputVars, killVars
  <2>2. CASE ~killed
    <3>1. Switched(pos, FALSE)
      <4>1. killed' = FALSE
        <5>1. killed' = killed /\ killed \in BOOLEAN
          BY <1>1, <1>12 DEF Resume, TypeOK
        <5> QED
          BY <5>1, <2>2
      <4> QED
        BY <1>12, <2>2, <4>1 DEF Resume, Handling, Switched, inputVars
    <3> QED
      BY <1>5, <1>6, <1>12, <2>2, <3>1 DEF Resume, Handling, Working
  <2> QED
    BY <2>1, <2>2
<1>13. CASE Unlink
  <2>1. command[pos] = "resume" /\ pos <= last
    BY <1>1, <1>13 DEF Unlink, InBatch, Working
  <2>2. CASE killed
    <3>1. Switched(pos, FALSE)
      BY <1>13, <2>1, <2>2 DEF Unlink, Switched, inputVars
    <3> QED
      BY <1>5, <1>6, <1>13, <2>1, <2>2, <3>1 DEF Unlink, Working
  <2>3. CASE ~killed
    BY <1>0, <1>2, <1>13, <2>3 DEF Unlink, Goto, Working, From, inputVars, killVars
  <2> QED
    BY <2>2, <2>3
<1>14. CASE CallWorker \/ FollowSaves
  BY <1>0, <1>2, <1>14 DEF CallWorker, FollowSaves, Handling, Goto, Working, From, inputVars
<1>15. CASE FollowApplies \/ StopEnds
  BY <1>0, <1>2, <1>15 DEF FollowApplies, StopEnds, Goto, Working, From, inputVars
<1>16. CASE StartEnds
  <2>1. CASE command[pos] = "start"
    BY <1>0, <1>2, <1>16, <2>1 DEF StartEnds, Goto, Working, From, inputVars
  <2>2. CASE command[pos] # "start"
    BY <1>1, <1>3, <1>6, <1>16, <2>2 DEF StartEnds, Working, InBatch, Switches, inputVars
  <2> QED
    BY <2>1, <2>2
<1>17. CASE CallFails \/ Save
  BY <1>1, <1>3, <1>6, <1>17 DEF CallFails, Save, Working, InBatch, Switches, inputVars
<1>22. CASE KeepsStopping \/ Ends \/ Crash \/ Desk
  <2>1. UNCHANGED <<inputVars, batchVars, handled, killVars>>
    BY <1>22 DEF KeepsStopping, Ends, Crash, Desk, DeskCalls, DeskKeepsStopping, DeskStopEnds, DeskStartEnds,
                 DeskFails, DeskSaves, DeskPuts
  <2> QED
    BY <1>0, <1>2, <2>1 DEF From, inputVars, batchVars
<1>18. CASE Ack
  <2>1. /\ UNCHANGED <<handled, command, killVars>> /\ offset' = last + 1 /\ From' = last + 1 /\ From = last + 1
    BY <1>0, <1>18 DEF Ack, OffsetAtEnd, Working, From, inputVars
  <2>2. From' \in Nat /\ From' <= From /\ offset' \in Nat /\ offset' >= offset
    BY <1>0, <2>1
  <2> QED
    BY <2>1, <2>2, SwitchWaits
<1>19. CASE Raise \/ Restart
  BY <1>0, <1>2, <1>19 DEF Raise, Restart, Working, From, inputVars
<1>20. CASE Again
  BY <1>0, <1>2, <1>20 DEF Again, AfterPause, Goto, Working, From, inputVars
<1>21. CASE UNCHANGED vars
  BY <1>0, <1>2, <1>21 DEF vars, inputVars, batchVars, From
<1> QED
  BY <1>7, <1>8, <1>9, <1>10, <1>11, <1>12, <1>13, <1>14, <1>15, <1>16, <1>17, <1>18, <1>19, <1>20, <1>21, <1>22 DEF Next, Handle

-----------------------------------------------------------------------------
(* The settings.                                                           *)

\* A command that was carried out is not one of those ahead.
LEMMA AheadOthers ==
    ASSUME Delivery, at \in Working, Onward, UNCHANGED inputVars, command[pos] \notin WorkerCommands, Ahead
    PROVE  Ahead'
<1>1. From = pos /\ From' = pos + 1 /\ pos \in Nat /\ sent' = sent /\ command' = command
  BY PlaceFacts DEF From, Onward, Working, inputVars
<1>2. PICK u \in Updates : From <= u /\ u <= sent /\ command[u] \in WorkerCommands
  BY DEF Ahead
<1>3. u # pos /\ u \in Nat
  BY <1>2 DEF Updates
<1>4. From' <= u
  BY <1>1, <1>2, <1>3
<1> QED
  BY <1>1, <1>2, <1>4 DEF Ahead

LEMMA AheadStays ==
    ASSUME Delivery, From' \in Nat, From' <= From, sent' \in Nat, sent' >= sent,
           \A u \in Updates : u <= sent => command'[u] = command[u], Ahead
    PROVE  Ahead'
<1>1. From \in Nat /\ sent \in Nat
  BY PlaceFacts
<1>2. PICK u \in Updates : From <= u /\ u <= sent /\ command[u] \in WorkerCommands
  BY DEF Ahead
<1>3. From' <= u /\ u <= sent' /\ command'[u] \in WorkerCommands
  BY <1>1, <1>2 DEF Updates
<1> QED
  BY <1>3 DEF Ahead

\* A call of the chat that is broken off is ahead of the next delivery.
LEMMA CallIsAhead ==
    ASSUME Delivery, ChatCalls, at' \notin Working, UNCHANGED <<offset, inputVars>>
    PROVE  Ahead'
<1>1. /\ at \in Working /\ pos <= last /\ command[pos] \in WorkerCommands
  BY DEF Delivery, InBatch, ChatCalls, Working, WorkerCommands
<1>2. From' = offset /\ offset <= pos /\ pos \in Updates /\ pos <= sent /\ sent' = sent /\ command' = command
  BY <1>1, PlaceFacts, BoundAssumption DEF From, Updates, inputVars
<1> QED
  BY <1>1, <1>2 DEF Ahead

LEMMA SettingsStep == Delivery /\ SettingsInv /\ [Next]_vars => SettingsInv'
<1> SUFFICES ASSUME Delivery, SettingsInv, [Next]_vars, ~astray'
             PROVE  RepairIsAhead' /\ ChatInStep' /\ DeskInStep' /\ ~(ChatCalls' /\ deskAt' # "idle")
  BY DEF SettingsInv
<1> DEFINE Goal == RepairIsAhead' /\ ChatInStep' /\ DeskInStep' /\ ~(ChatCalls' /\ deskAt' # "idle")
<1>0. /\ sent \in Nat /\ last \in Nat /\ offset \in Nat /\ pos \in Nat /\ From \in Nat /\ offset <= From
      /\ last <= sent /\ (at \in Working => offset <= pos /\ pos <= last + 1)
  BY PlaceFacts
<1>1. TypeOK /\ InBatch /\ From' \in Nat
  <2>1. TypeOK'
    BY TypeStep
  <2> QED
    BY <2>1 DEF Delivery, TypeOK, From
<1>2. ~astray => RepairIsAhead /\ ChatInStep /\ DeskInStep /\ ~(ChatCalls /\ deskAt # "idle")
  BY DEF SettingsInv
<1>3. CASE /\ UNCHANGED <<workerVars, deskVars>> /\ (Ahead => Ahead')
           /\ at' = at /\ pos' = pos /\ (ChatCalls => command'[pos] = command[pos])
  <2>1. worker' = worker /\ enabled' = enabled /\ astray' = astray /\ deskAt' = deskAt /\ deskDoes' = deskDoes
    BY <1>3 DEF workerVars, deskVars
  <2>2. ChatCalls' = ChatCalls /\ (Match' = Match)
    BY <1>3, <2>1 DEF ChatCalls, Match
  <2>3. RepairIsAhead' /\ ~(ChatCalls' /\ deskAt' # "idle")
    BY <1>2, <1>3, <2>1, <2>2, Zenon DEF RepairIsAhead
  <2>4. DeskInStep'
    BY <1>2, <2>1, Zenon DEF DeskInStep
  <2>5. ChatInStep'
    <3>1. at = "save" => ChatCalls
      BY DEF ChatCalls
    <3> QED
      BY <1>2, <1>3, <2>1, <2>2, <3>1, Zenon DEF ChatInStep
  <2> QED
    BY <2>3, <2>4, <2>5
<1>4. CASE /\ UNCHANGED <<workerVars, deskVars>> /\ (Ahead => Ahead')
           /\ at \notin {"apply", "stopping", "launch", "save"} /\ at' \notin {"apply", "stopping", "launch", "save"}
  <2>1. worker' = worker /\ enabled' = enabled /\ astray' = astray /\ deskAt' = deskAt /\ deskDoes' = deskDoes
    BY <1>4 DEF workerVars, deskVars
  <2>2. ~ChatCalls' /\ ~ChatCalls /\ (Match' = Match) /\ at' # "save"
    BY <1>4, <2>1 DEF ChatCalls, Match
  <2>3. RepairIsAhead' /\ ~(ChatCalls' /\ deskAt' # "idle") /\ ChatInStep'
    BY <1>2, <1>4, <2>1, <2>2, Zenon DEF RepairIsAhead, ChatInStep
  <2>4. DeskInStep'
    BY <1>2, <2>1, Zenon DEF DeskInStep
  <2> QED
    BY <2>3, <2>4
<1>5. CASE /\ UNCHANGED inputVars /\ From' <= From
           /\ \/ DeskSets(TRUE) \/ DeskSets(FALSE) \/ UNCHANGED vars
              \/ Fetch \/ (Resume /\ at' = "unlink") \/ (Unlink /\ at' = "pause") \/ Ack \/ Again
              \/ Raise /\ at # "save"
              \/ Restart /\ at \notin {"apply", "stopping", "launch", "save"}
  <2>1. \A u \in Updates : u <= sent => command'[u] = command[u]
    BY <1>5 DEF inputVars
  <2>2. sent' = sent /\ sent' \in Nat /\ sent' >= sent
    BY <1>0, <1>5 DEF inputVars
  <2>3. Ahead => Ahead'
    BY <1>1, <1>5, <2>1, <2>2, AheadStays
  <2> HIDE DEF Goal
  <2>4. CASE UNCHANGED <<workerVars, deskVars, at, pos>>
    <3>1. ChatCalls => command'[pos] = command[pos]
      BY <1>5 DEF inputVars
    <3> QED
      BY <1>3, <2>3, <2>4, <3>1 DEF Goal
  <2>5. CASE /\ UNCHANGED <<workerVars, deskVars>>
             /\ at \notin {"apply", "stopping", "launch", "save"} /\ at' \notin {"apply", "stopping", "launch", "save"}
    BY <1>4, <2>3, <2>5 DEF Goal
  <2>6. CASE DeskSets(TRUE) \/ DeskSets(FALSE) \/ UNCHANGED vars
    BY <2>4, <2>6 DEF DeskSets, batchVars, vars
  <2>7. CASE Fetch \/ (Resume /\ at' = "unlink") \/ (Unlink /\ at' = "pause") \/ Ack \/ Again
    BY <2>5, <2>7 DEF Fetch, Resume, Unlink, Ack, Again, AfterPause, Goto, Handling
  <2>8. CASE Raise /\ at # "save"
    BY <2>5, <2>8 DEF Raise
  <2>9. CASE Restart /\ at \notin {"apply", "stopping", "launch", "save"}
    <3>1. ~astray /\ deskAt = "idle"
      BY <2>9, Zenon DEF Restart
    <3>2. worker' = worker /\ UNCHANGED <<enabled, deskDoes>> /\ deskAt' = "idle" /\ at' = "poll"
      BY <2>9, <3>1 DEF Restart
    <3>3. astray' = astray
      BY <1>1, <2>9, <3>1 DEF Restart, TypeOK
    <3> QED
      BY <2>5, <2>9, <3>1, <3>2, <3>3 DEF workerVars, deskVars
  <2> QED
    BY <1>5, <2>6, <2>7, <2>8, <2>9 DEF Goal
<1>6. CASE /\ at \in Working /\ Onward /\ UNCHANGED <<inputVars, workerVars, deskVars>>
           /\ at \notin {"apply", "stopping", "launch", "save"} /\ command[pos] \notin WorkerCommands
  <2>1. Ahead => Ahead'
    BY <1>6, AheadOthers
  <2>2. at' \notin {"apply", "stopping", "launch", "save"}
    BY <1>6 DEF Onward
  <2> QED
    BY <1>4, <1>6, <2>1, <2>2
<1>7. CASE Send
  <2>1. /\ UNCHANGED <<workerVars, deskVars>> /\ at' = at /\ pos' = pos /\ From' = From /\ sent' = sent + 1
        /\ \A u \in Updates : u <= sent => command'[u] = command[u]
    BY <1>0, <1>1, <1>7 DEF Send, batchVars, From, TypeOK, Updates
  <2>2. Ahead => Ahead'
    BY <1>0, <1>1, <2>1, AheadStays
  <2>3. ChatCalls => command'[pos] = command[pos]
    BY <1>0, <1>1, <2>1, BoundAssumption DEF InBatch, Working, ChatCalls, TypeOK, Updates
  <2> QED
    BY <1>3, <2>1, <2>2, <2>3
<1>8. CASE (\E halt \in BOOLEAN : DeskSets(halt)) \/ Fetch \/ Ack \/ Again \/ UNCHANGED vars
  <2>1. UNCHANGED inputVars /\ From' <= From
    BY <1>0, <1>8 DEF DeskSets, Fetch, OffsetAtFetch, Ack, OffsetAtEnd, Again, AfterPause, Goto, Working, From,
                      vars, batchVars, inputVars
  <2>2. (\E halt \in BOOLEAN : DeskSets(halt)) => DeskSets(TRUE) \/ DeskSets(FALSE)
    OBVIOUS
  <2> QED
    BY <1>5, <1>8, <2>1, <2>2 DEF Goal
<1>9. CASE Ask \/ Halt
  BY <1>6, <1>9 DEF Ask, Halt, Handling, Working, WorkerCommands
<1>10. CASE Resume \/ Unlink
  <2>1. command[pos] = "resume" /\ at \in {"handle", "unlink"} /\ UNCHANGED <<inputVars, workerVars, deskVars>>
    BY <1>1, <1>10 DEF Resume, Unlink, Handling, InBatch, Working
  <2>2. CASE Onward
    BY <1>6, <2>1, <2>2 DEF Working, WorkerCommands
  <2>3. CASE (Goto("unlink") \/ Goto("pause"))
    <3>1. From' <= From /\ at' \in {"unlink", "pause"}
      BY <1>0, <2>1, <2>3 DEF Goto, From, Working
    <3>2. Ahead => Ahead'
      BY <1>0, <1>1, <2>1, <3>1, AheadStays DEF inputVars
    <3> QED
      BY <1>4, <2>1, <3>1, <3>2
  <2> QED
    BY <1>10, <2>2, <2>3 DEF Resume, Unlink
<1>11. CASE CallWorker
  <2>1. deskAt = "idle"
    BY <1>11, Zenon DEF CallWorker
  <2>2. deskAt' = "idle" /\ at' = "stopping" /\ command'[pos'] # "follow"
    BY <1>11, <2>1 DEF CallWorker, Goto, Handling, deskVars, inputVars
  <2> QED
    BY <2>2 DEF RepairIsAhead, ChatInStep, DeskInStep, ChatCalls
<1>12. CASE FollowSaves
  <2>1. deskAt = "idle"
    BY <1>12, Zenon DEF FollowSaves
  <2>2. deskAt' = "idle" /\ at' = "apply" /\ enabled'
    BY <1>12, <2>1 DEF FollowSaves, Goto, deskVars
  <2> QED
    BY <2>2 DEF RepairIsAhead, ChatInStep, DeskInStep, ChatCalls
<1>13. CASE FollowApplies \/ StopEnds \/ KeepsStopping
  <2>1. /\ ChatCalls /\ ChatCalls' /\ UNCHANGED <<enabled, deskVars, pos, command>>
        /\ at' = "save" => command[pos] = "stop" /\ worker' = "off"
    BY <1>13 DEF FollowApplies, StopEnds, KeepsStopping, Stopped, Goto, ChatCalls, workerVars, batchVars, inputVars
  <2>2. ~astray
    BY <1>13, Zenon DEF FollowApplies, StopEnds, KeepsStopping, workerVars
  <2>3. deskAt' = "idle" /\ enabled' = enabled /\ pos' = pos /\ command' = command
    BY <1>2, <2>1, <2>2 DEF deskVars
  <2>4. ChatInStep'
    BY <1>2, <2>1, <2>2, <2>3 DEF ChatInStep
  <2> QED
    BY <2>1, <2>3, <2>4 DEF RepairIsAhead, DeskInStep
<1>14. CASE StartEnds
  <2>1. at = "launch" /\ ~astray /\ worker' = "on" /\ UNCHANGED <<enabled, deskVars, command>>
    <3>1. astray' = astray
      BY <1>14 DEF StartEnds
    <3>2. ~astray
      BY <3>1, Zenon
    <3> QED
      BY <1>14, <3>2 DEF StartEnds, inputVars
  <2>2. ChatCalls /\ deskAt' = "idle" /\ command[pos] \in {"start", "follow"}
    BY <1>1, <1>2, <2>1 DEF ChatCalls, deskVars, InBatch
  <2>3. CASE command[pos] = "start"
    <3>1. at' = "save" /\ pos' = pos
      BY <1>14, <2>3 DEF StartEnds, Goto
    <3> QED
      BY <2>1, <2>2, <2>3, <3>1 DEF RepairIsAhead, ChatInStep, DeskInStep, ChatCalls
  <2>4. CASE command[pos] = "follow"
    <3>1. at' = "handle" /\ enabled /\ enabled' = enabled
      BY <1>2, <1>14, <2>1, <2>2, <2>4 DEF StartEnds, Onward, ChatInStep
    <3>2. enabled' = TRUE
      BY <1>1, <3>1 DEF TypeOK
    <3> QED
      BY <2>1, <2>2, <3>1, <3>2 DEF RepairIsAhead, ChatInStep, DeskInStep, ChatCalls, Match
  <2> QED
    BY <2>2, <2>3, <2>4
<1>15. CASE CallFails \/ Crash \/ DeskFails \/ (\E shown \in BOOLEAN : DeskPuts(shown))
  BY <1>15, Zenon DEF CallFails, Crash, DeskFails, DeskPuts
<1>16. CASE Save
  <2>1. at = "save" /\ ~astray /\ UNCHANGED <<worker, deskVars>> /\ enabled' = (command[pos] = "start")
    BY <1>16, Zenon DEF Save, Saved
  <2>2. ChatCalls /\ deskAt' = "idle" /\ at' = "handle"
    BY <1>2, <1>16, <2>1 DEF ChatCalls, deskVars, Save, Onward
  <2>3. (worker = "on") = (command[pos] = "start")
    BY <1>2, <2>1 DEF ChatInStep
  <2>4. Match'
    BY <2>1, <2>3 DEF Match
  <2> QED
    BY <2>2, <2>4 DEF RepairIsAhead, ChatInStep, DeskInStep, ChatCalls
<1>17. CASE Ends
  <2>1. worker = "ending" /\ worker' = "off" /\ UNCHANGED <<enabled, deskAt, deskDoes, at, pos, offset, sent, command>>
    BY <1>17 DEF Ends, deskVars, batchVars, inputVars
  <2>2. ~astray
    BY <1>17, Zenon DEF Ends
  <2>3. ChatCalls' = ChatCalls /\ Match' = Match /\ Ahead' = Ahead
    BY <2>1 DEF ChatCalls, Match, Ahead, From
  <2>4. ChatInStep' /\ DeskInStep'
    BY <1>2, <2>1, <2>2, <2>3 DEF ChatInStep, DeskInStep
  <2> QED
    BY <1>2, <2>1, <2>2, <2>3, <2>4 DEF RepairIsAhead
<1>18. ASSUME NEW does \in {"start", "stop"}, DeskCalls(does) PROVE Goal
  <2>1. ~ChatCalls /\ at' = at
    BY <1>18, Zenon DEF DeskCalls, Meets, batchVars
  <2>2. ~ChatCalls'
    BY <2>1 DEF ChatCalls
  <2>3. /\ deskAt' \in {"stopping", "save"} /\ deskDoes' = does
        /\ deskAt' = "save" => does = "start" /\ worker' = "on"
    BY <1>18 DEF DeskCalls
  <2> QED
    BY <2>2, <2>3 DEF RepairIsAhead, ChatInStep, DeskInStep, ChatCalls
<1>19. CASE DeskKeepsStopping \/ DeskStopEnds \/ DeskStartEnds
  <2>1. /\ deskAt # "idle" /\ deskAt' # "idle" /\ at' = at /\ UNCHANGED <<astray, deskDoes>>
        /\ deskAt' = "save" => (worker' = "on" /\ deskAt = "launch") \/ (worker' = "off" /\ deskDoes = "stop")
        /\ deskAt' = "launch" => deskAt = "stopping" /\ deskDoes # "stop"
    BY <1>19 DEF DeskKeepsStopping, DeskStopEnds, DeskStartEnds, Stopped, batchVars, workerVars, deskVars
  <2>2. ~astray /\ deskDoes \in {"start", "stop"}
    BY <1>1, <2>1, Zenon DEF TypeOK
  <2>3. ~ChatCalls'
    BY <1>2, <2>1, <2>2 DEF ChatCalls
  <2>4. DeskInStep'
    BY <1>2, <2>1, <2>2 DEF DeskInStep
  <2> QED
    BY <2>1, <2>3, <2>4 DEF RepairIsAhead, ChatInStep, ChatCalls
<1>20. CASE DeskSaves
  <2>1. /\ deskAt = "save" /\ deskAt' = "idle" /\ at' = at /\ worker' = worker
        /\ enabled' = (deskDoes = "start") /\ astray' = astray
    BY <1>20 DEF DeskSaves, batchVars
  <2>2. ~astray
    BY <2>1, Zenon
  <2>3. ~ChatCalls'
    BY <1>2, <2>1, <2>2 DEF ChatCalls
  <2>4. Match'
    BY <1>2, <2>1, <2>2 DEF Match, DeskInStep
  <2> QED
    BY <2>1, <2>3, <2>4 DEF RepairIsAhead, ChatInStep, DeskInStep, ChatCalls
<1>21. CASE Raise \/ Restart
  <2>1. /\ UNCHANGED <<inputVars, offset>> /\ at' \in {"pause", "poll"} /\ at' \notin Working
    BY <1>21 DEF Raise, Restart, Working
  <2>2. From' <= From
    BY <1>0, <2>1 DEF From
  <2>3. CASE ~ChatCalls
    <3>1. at \notin {"apply", "stopping", "launch", "save"} /\ at # "save"
      BY <2>3 DEF ChatCalls
    <3> QED
      BY <1>5, <1>21, <2>1, <2>2, <3>1 DEF Goal
  <2>4. CASE ChatCalls
    <3>1. Ahead'
      BY <2>1, <2>4, CallIsAhead
    <3>2. ~astray
      BY <1>21, Zenon DEF Raise, Restart, workerVars
    <3>3. deskAt = "idle"
      BY <1>2, <2>4, <3>2
    <3>4. deskAt' = "idle"
      BY <1>21, <3>3 DEF Raise, Restart, deskVars
    <3> QED
      BY <2>1, <3>1, <3>4 DEF RepairIsAhead, ChatInStep, DeskInStep, ChatCalls
  <2> QED
    BY <2>3, <2>4
<1> QED
  BY <1>7, <1>8, <1>9, <1>10, <1>11, <1>12, <1>13, <1>14, <1>15, <1>16, <1>17, <1>18, <1>19, <1>20, <1>21
  DEF Next, Handle, Desk, Goal

-----------------------------------------------------------------------------
LEMMA Always == Spec => []IInv
<1>1. Init => IInv
  BY InitInv
<1>2. IInv /\ [Next]_vars => IInv'
  BY DeliveryStep, SwitchStep, SettingsStep, Zenon DEF IInv, SwitchInv
<1> QED
  BY <1>1, <1>2, PTL DEF Spec

\* The offset, the batch and the counts keep their types.
THEOREM TypeCorrect == Spec => []TypeOK
<1>1. IInv => TypeOK
  BY DEF IInv, Delivery
<1> QED
  BY <1>1, Always, PTL

\* No command is passed before it was carried out (telegram_inbox.py poll_once).
THEOREM NothingLost == Spec => []PassedIsHandled
<1>1. IInv => PassedIsHandled
  <2> SUFFICES ASSUME IInv, NEW u \in Updates, u < offset PROVE handled[u] > 0
    BY DEF PassedIsHandled
  <2>1. offset <= From /\ offset \in Nat /\ From \in Nat
    BY PlaceFacts DEF IInv
  <2> QED
    BY <2>1 DEF IInv, Delivery, BehindIsHandled, Updates
<1> QED
  BY <1>1, Always, PTL

\* A command is repeated at most once for every time a batch was broken off.
THEOREM RepeatedOnlyAfterBreaks == Spec => []AgainOnlyAfterBreak
<1>1. IInv => AgainOnlyAfterBreak
  BY DEF IInv, Delivery, Counted, AgainOnlyAfterBreak
<1> QED
  BY <1>1, Always, PTL

\* Repeated halts and resumes leave the kill switch as the last word has it.
THEOREM LastWordAlwaysHolds == Spec => []LastWordHolds
<1>1. IInv => LastWordHolds
  <2> SUFFICES ASSUME IInv, Drained, ~crossed PROVE killed = word
    BY DEF LastWordHolds
  <2>1. From = sent + 1 /\ sent \in Nat
    BY PlaceFacts DEF IInv, Drained, From, Working
  <2>2. \A u \in Updates : u >= From => ~Repeats(u)
    BY <2>1 DEF IInv, Delivery, InOrder, Repeats, Updates
  <2>3. SwitchFollowsWord
    BY DEF IInv
  <2> QED
    BY <2>2, <2>3, Zenon DEF SwitchFollowsWord
<1> QED
  BY <1>1, Always, PTL

\* Repeated worker commands leave the settings in step with the worker
\* (telegram_inbox.py _cmd_start_auto, _cmd_stop_auto and _cmd_follow_scan), and
\* so does a call of the Desk that ends, for any number and order of calls and
\* any failure: only what astray names can set them apart.
THEOREM SettingsAlwaysMatch == Spec => []SettingsMatchWorker
<1>1. IInv => SettingsMatchWorker
  <2> SUFFICES ASSUME IInv, Drained, deskAt = "idle", ~astray PROVE enabled = (worker = "on")
    BY DEF SettingsMatchWorker
  <2>1. From = sent + 1 /\ sent \in Nat /\ ~ChatCalls
    BY PlaceFacts DEF IInv, Drained, From, Working, ChatCalls
  <2>2. ~Ahead
    BY <2>1 DEF Ahead, Updates
  <2> QED
    BY <2>1, <2>2, Zenon DEF IInv, SettingsInv, RepairIsAhead, Match
<1> QED
  BY <1>1, Always, PTL
=============================================================================
