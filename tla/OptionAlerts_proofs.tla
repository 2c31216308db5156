------------------------ MODULE OptionAlerts_proofs ------------------------
(***************************************************************************)
(* What OptionAlerts guarantees for any number of workers, tabs, versions  *)
(* and replacements, with versions saved while rules are replaced; and,    *)
(* where the two do not overlap, that a live position is watched by rules  *)
(* of the active version.                                                  *)
(***************************************************************************)
EXTENDS OptionAlerts, TLAPS

USE DEF Types, Versions, Live, States, Rules, NoRule, Copies, Zones, Events

\* The rows come from one replacement, and only real rows are enabled.
RowsTogether ==
    \A t \in Types :
        /\ rules[t].enabled => rules[t].gen # 0
        /\ rules[t].gen = 0 => rules[t].version = 0
        /\ rules[t].gen # 0 => rules[t].version \in Versions
        /\ \A u \in Types : rules[t].gen # 0 /\ rules[u].gen # 0 =>
              rules[t].gen = rules[u].gen /\ rules[t].version = rules[u].version

CopiesReal == \A w \in Workers : \A copy \in todo[w] : copy.row.gen # 0

\* An event belongs to a stored rule, which it has disabled.
EventsStored == \A e \in events : e.gen # 0 /\ e.gen = rules[e.type].gen /\ ~rules[e.type].enabled

\* Where the position stands once an exit rule has alerted.
ExitsMoved ==
    \A e \in events :
        LET state == position[rules[e.type].version] IN
        /\ e.type = "option_stop" => state = "stopped"
        /\ e.type = "option_target_2" => state = "closed"
        /\ e.type = "option_target_1" => state \in {"open", "stopped", "closed"}

\* A position that left its watch did so by an entry alert of the stored rules.
EntryAlerted ==
    \A t \in Types :
        rules[t].gen # 0 /\ position[rules[t].version] \in {"entry_alerted", "open", "stopped", "closed"} =>
            \E e \in events : e.type = "option_entry" /\ e.gen = rules[t].gen

IInv == TypeOK /\ RowsTogether /\ CopiesReal /\ EventsStored /\ ExitsMoved /\ EntryAlerted

-----------------------------------------------------------------------------
\* What a running save is and has locked, as any step but its own leaves it.
SaveType == saving \in 0..MaxVersion /\ locked \subseteq 0..MaxGen

LEMMA SaveTyped == IInv => SaveType
BY DEF IInv, TypeOK, SaveType

LEMMA SaveTypeStays == IInv /\ UNCHANGED saveVars => SaveType'
<1> SUFFICES ASSUME IInv, UNCHANGED saveVars PROVE SaveType'
  OBVIOUS
<1>1. saving' = saving /\ locked' = locked
  BY DEF saveVars
<1>2. SaveType
  BY SaveTyped
<1> QED
  BY <1>1, <1>2, Zenon DEF SaveType

LEMMA InitIInv == Init => IInv
<1> SUFFICES ASSUME Init PROVE IInv
  OBVIOUS
<1>1. SaveType
  BY BoundAssumption DEF Init, SaveType
<1> QED
  BY <1>1, BoundAssumption DEF Init, IInv, TypeOK, SaveType, RowsTogether, CopiesReal, EventsStored, ExitsMoved,
     EntryAlerted

\* A step that leaves the tables alone and lists no row that is not there.
LEMMA ReadKeeps ==
    ASSUME IInv, UNCHANGED <<rules, position, events, gen, version>>,
           todo' \in [Workers -> SUBSET Copies], asked' \in [Tabs -> 0..MaxVersion],
           saving' \in 0..MaxVersion, locked' \subseteq 0..MaxGen,
           \A w \in Workers : \A copy \in todo'[w] : copy.row.gen # 0
    PROVE  IInv'
BY DEF IInv, TypeOK, RowsTogether, CopiesReal, EventsStored, ExitsMoved, EntryAlerted

LEMMA SaveLocksKeeps == IInv /\ SaveLocks => IInv'
<1> SUFFICES ASSUME IInv, SaveLocks PROVE IInv'
  OBVIOUS
<1>1. locked' \subseteq 0..MaxGen /\ saving' \in 0..MaxVersion
  BY BoundAssumption DEF IInv, TypeOK, SaveLocks
<1>2. /\ todo' \in [Workers -> SUBSET Copies] /\ asked' \in [Tabs -> 0..MaxVersion]
      /\ \A w \in Workers : \A copy \in todo'[w] : copy.row.gen # 0
  BY DEF IInv, TypeOK, CopiesReal, SaveLocks
<1> QED
  BY <1>1, <1>2, ReadKeeps DEF SaveLocks

LEMMA SavePlanKeeps == IInv /\ SavePlan => IInv'
<1> SUFFICES ASSUME IInv, SavePlan PROVE IInv'
  OBVIOUS
<1>4. SaveType'
  BY BoundAssumption DEF SavePlan, SaveType, IInv, TypeOK
<1>1. TypeOK'
  BY <1>4, BoundAssumption DEF IInv, TypeOK, SaveType, SavePlan, DropRules
<1>2. CopiesReal'
  BY DEF IInv, CopiesReal, SavePlan
<1>3. RowsTogether' /\ EventsStored' /\ ExitsMoved' /\ EntryAlerted'
  BY DEF SavePlan, DropRules, RowsTogether, EventsStored, ExitsMoved, EntryAlerted
<1> QED
  BY <1>1, <1>2, <1>3 DEF IInv

LEMMA ReplaceKeeps ==
    ASSUME IInv, NEW b \in Tabs, NEW chosen \in SUBSET Types, Replace(b, chosen)
    PROVE  IInv'
<1>1. asked[b] \in Versions
  BY BoundAssumption DEF IInv, TypeOK, Replace
<1>2. TypeOK'
  BY <1>1, BoundAssumption DEF IInv, TypeOK, Replace, Inserted, saveVars
<1>3. CopiesReal'
  BY DEF IInv, CopiesReal, Replace
<1>4. gen + 1 # 0
  BY BoundAssumption DEF IInv, TypeOK
<1>5. RowsTogether'
  BY <1>1, <1>4 DEF Replace, Inserted, RowsTogether
<1>6. EventsStored' /\ ExitsMoved'
  BY DEF Replace, EventsStored, ExitsMoved
<1>7. EntryAlerted'
  BY <1>1 DEF IInv, TypeOK, Replace, Inserted, EntryAlerted
<1> QED
  BY <1>2, <1>3, <1>5, <1>6, <1>7 DEF IInv

LEMMA RowsStay ==
    ASSUME RowsTogether,
           \A t \in Types : rules'[t].gen = rules[t].gen /\ rules'[t].version = rules[t].version,
           \A t \in Types : rules'[t].enabled => rules'[t].gen # 0
    PROVE  RowsTogether'
<1>1. ASSUME NEW t \in Types
      PROVE  /\ rules'[t].gen = 0 => rules'[t].version = 0
             /\ rules'[t].gen # 0 => rules'[t].version \in Versions
  BY <1>1 DEF RowsTogether
<1>2. ASSUME NEW t \in Types, NEW u \in Types, rules'[t].gen # 0 /\ rules'[u].gen # 0
      PROVE  rules'[t].gen = rules'[u].gen /\ rules'[t].version = rules'[u].version
  BY <1>2 DEF RowsTogether
<1> QED
  BY <1>1, <1>2, Zenon DEF RowsTogether

LEMMA ConfirmKeeps ==
    ASSUME IInv, NEW v \in Versions, ConfirmEntry(v)
    PROVE  IInv'
<1>1. TypeOK'
  BY DEF IInv, TypeOK, ConfirmEntry, Enabled, Updated, saveVars
<1>2. CopiesReal'
  BY DEF IInv, CopiesReal, ConfirmEntry
<1>3. \A t \in Types : rules'[t].gen = rules[t].gen /\ rules'[t].version = rules[t].version
  BY DEF IInv, TypeOK, ConfirmEntry, Enabled, Updated
<1>4. \A t \in Types : rules'[t].enabled => rules[t].enabled \/ (t \in Exits /\ rules[t].version = v)
  BY DEF IInv, TypeOK, ConfirmEntry, Enabled, Updated
<1>5. \A t \in Types : rules'[t].enabled => rules'[t].gen # 0
  <2> SUFFICES ASSUME NEW t \in Types, rules'[t].enabled PROVE rules[t].gen # 0
    BY <1>3, Zenon
  <2>1. CASE rules[t].enabled
    BY <2>1, Zenon DEF IInv, RowsTogether
  <2>2. CASE rules[t].version = v
    <3>1. v # 0
      BY BoundAssumption
    <3>2. rules[t].gen = 0 => rules[t].version = 0
      BY Zenon DEF IInv, RowsTogether
    <3> QED
      BY <2>2, <3>1, <3>2, Zenon
  <2> QED
    BY <1>4, <2>1, <2>2, Zenon
<1>6. RowsTogether'
  BY <1>3, <1>5, RowsStay DEF IInv
<1>7. \A e \in events : e.type \in Exits => rules[e.type].version # v
  BY ExitAssumption DEF IInv, ExitsMoved, ConfirmEntry
<1>8. \A e \in events : e.type \in Types
  BY DEF IInv, TypeOK
<1>9. EventsStored'
  <2>1. events' = events /\ EventsStored
    BY DEF IInv, ConfirmEntry
  <2>2. ASSUME NEW e \in events PROVE e.gen # 0 /\ e.gen = rules'[e.type].gen /\ ~rules'[e.type].enabled
    <3>1. e.gen # 0 /\ e.gen = rules[e.type].gen /\ ~rules[e.type].enabled /\ e.type \in Types
      BY <1>8, <2>1, <2>2 DEF EventsStored
    <3> QED
      BY <1>3, <1>4, <1>7, <2>2, <3>1
  <2> QED
    BY ONLY <2>1, <2>2 DEF EventsStored
<1>10. \A u \in Versions : u # v => position'[u] = position[u]
  BY DEF IInv, TypeOK, ConfirmEntry
<1>11. \A t \in Types : rules[t].gen # 0 => rules[t].version \in Versions
  BY DEF IInv, RowsTogether
<1>12. ExitsMoved'
  <2> SUFFICES ASSUME NEW e \in events, e.type \in Exits
               PROVE  position'[rules'[e.type].version] = position[rules[e.type].version]
    BY ExitAssumption, <1>8 DEF IInv, ExitsMoved, ConfirmEntry
  <2>1. rules[e.type].version \in Versions
    BY <1>8, <1>11 DEF IInv, EventsStored
  <2> QED
    BY <2>1, <1>3, <1>7, <1>8, <1>10
<1>13. EntryAlerted'
  <2> SUFFICES ASSUME NEW t \in Types, rules[t].gen # 0,
                      position'[rules[t].version] \in {"entry_alerted", "open", "stopped", "closed"}
               PROVE  \E e \in events : e.type = "option_entry" /\ e.gen = rules[t].gen
    <3>1. events' = events
      BY DEF ConfirmEntry
    <3> QED
      BY <1>3, <3>1, ZenonT(30) DEF EntryAlerted
  <2>1. position[rules[t].version] \in {"entry_alerted", "open", "stopped", "closed"}
    <3>1. CASE rules[t].version = v
      BY <3>1 DEF ConfirmEntry
    <3>2. CASE rules[t].version # v
      BY <3>2, <1>10, <1>11
    <3> QED
      BY <3>1, <3>2
  <2> QED
    BY <2>1 DEF IInv, EntryAlerted
<1> QED
  BY <1>1, <1>2, <1>6, <1>9, <1>12, <1>13 DEF IInv

\* What the record of an evaluation leaves of the rules.
LEMMA EvaluatedRows ==
    ASSUME IInv, NEW w \in Workers, NEW copy \in todo[w], NEW zone \in Zones
    PROVE  /\ copy.type \in Types /\ copy.row \in Rules /\ copy.row.gen # 0
           /\ Evaluated(copy, zone) \in [Types -> Rules]
           /\ \A t \in Types :
                 LET new == Evaluated(copy, zone)[t] IN
                 new.gen = rules[t].gen /\ new.version = rules[t].version
                 /\ (new.enabled => rules[t].enabled)
<1>1. copy \in Copies
  BY DEF IInv, TypeOK
<1>2. copy.type \in Types /\ copy.row \in Rules /\ copy.row.gen # 0
  BY <1>1 DEF IInv, CopiesReal
<1>3. PICK armed \in BOOLEAN : armed = Armed(copy.row, zone)
  BY <1>2 DEF Armed, Triggered
<1>4. PICK past \in BOOLEAN : past = (zone = "reached")
  OBVIOUS
<1>5. \A t \in Types : rules[t] \in Rules
  BY DEF IInv, TypeOK
<1>6. Evaluated(copy, zone) =
        [rules EXCEPT ![copy.type] = Updated(rules[copy.type], rules[copy.type].enabled, armed, past)]
  BY <1>3, <1>4 DEF Evaluated
<1>7. Updated(rules[copy.type], rules[copy.type].enabled, armed, past) \in Rules
  BY <1>2, <1>5 DEF Updated
<1>8. rules \in [Types -> Rules]
  BY DEF IInv, TypeOK
<1>9. Evaluated(copy, zone) \in [Types -> Rules]
  BY <1>2, <1>6, <1>7, <1>8
<1>10. ASSUME NEW t \in Types
       PROVE LET new == Evaluated(copy, zone)[t] IN
             new.gen = rules[t].gen /\ new.version = rules[t].version
             /\ (new.enabled => rules[t].enabled)
  <2>1. CASE t = copy.type
    BY <2>1, <1>6, <1>8, <1>2 DEF Updated
  <2>2. CASE t # copy.type
    BY <2>2, <1>6, <1>8, <1>2
  <2> QED
    BY <2>1, <2>2
<1> QED
  BY <1>2, <1>9, <1>10

LEMMA RecordQuietKeeps ==
    ASSUME IInv, NEW w \in Workers, NEW copy \in todo[w], NEW zone \in Zones, RecordQuiet(w, copy, zone)
    PROVE  IInv'
<1>1. rules' = Evaluated(copy, zone)
  BY DEF RecordQuiet
<1>12. SaveType'
  BY SaveTypeStays DEF RecordQuiet
<1>13. rules' \in [Types -> Rules]
  BY <1>1, EvaluatedRows
<1>14. todo' \in [Workers -> SUBSET Copies]
  BY DEF IInv, TypeOK, RecordQuiet
<1>15. /\ version' \in 0..MaxVersion /\ gen' \in 0..MaxGen /\ position' \in [Versions -> States]
       /\ events' \subseteq Events /\ asked' \in [Tabs -> 0..MaxVersion]
  BY DEF IInv, TypeOK, RecordQuiet
<1>2. TypeOK'
  BY <1>12, <1>13, <1>14, <1>15 DEF TypeOK, SaveType
<1>3. \A t \in Types : /\ rules'[t].gen = rules[t].gen /\ rules'[t].version = rules[t].version
                       /\ rules'[t].enabled => rules[t].enabled
  BY <1>1, EvaluatedRows
<1>4. \A t \in Types : rules'[t].enabled => rules'[t].gen # 0
  BY <1>3 DEF IInv, RowsTogether
<1>5. RowsTogether'
  BY <1>3, <1>4, RowsStay DEF IInv
<1>6. CopiesReal'
  BY DEF IInv, TypeOK, CopiesReal, RecordQuiet
<1>7. \A e \in events : e.type \in Types
  BY DEF IInv, TypeOK
<1>8. events' = events /\ position' = position
  BY DEF RecordQuiet
<1>9. EventsStored'
  BY <1>3, <1>7, <1>8 DEF IInv, EventsStored
<1>10. ExitsMoved'
  BY <1>3, <1>7, <1>8 DEF IInv, ExitsMoved
<1>11. EntryAlerted'
  BY <1>3, <1>8, Zenon DEF IInv, EntryAlerted
<1> QED
  BY <1>2, <1>5, <1>6, <1>9, <1>10, <1>11 DEF IInv

LEMMA RecordTriggerKeeps ==
    ASSUME IInv, NEW w \in Workers, NEW copy \in todo[w], NEW time \in Times, RecordTrigger(w, copy, time)
    PROVE  IInv'
<1> DEFINE v == rules[copy.type].version
           new == [gen |-> copy.row.gen, type |-> copy.type, time |-> time]
           state == Moved(copy.type, position[v])
           stored == Evaluated(copy, "reached")
<1>1. copy.type \in Types /\ copy.row \in Rules /\ copy.row.gen # 0
  BY EvaluatedRows
<1>2. rules[copy.type].gen = copy.row.gen /\ rules[copy.type].gen # 0
  BY <1>1 DEF RecordTrigger, IsStored
<1>3. v \in Versions
  BY <1>1, <1>2 DEF IInv, RowsTogether
<1>4. rules[copy.type].enabled /\ position[v] = Needed(copy.type)
  BY DEF RecordTrigger, StillWanted
<1>5. /\ stored \in [Types -> Rules]
      /\ \A t \in Types : /\ stored[t].gen = rules[t].gen /\ stored[t].version = rules[t].version
                          /\ stored[t].enabled => rules[t].enabled
  BY EvaluatedRows
<1>6. rules' = After(copy.type, v, stored)
  BY DEF RecordTrigger
<1>7. /\ rules' \in [Types -> Rules]
      /\ \A t \in Types : /\ rules'[t].gen = stored[t].gen /\ rules'[t].version = stored[t].version
                          /\ rules'[t].enabled => stored[t].enabled
      /\ ~rules'[copy.type].enabled
  <2>1. \A t \in Types : stored[t] \in Rules
    BY <1>5
  <2>2. \A t \in Types : LET row == Disabled(stored[t]) IN
           row \in Rules /\ row.gen = stored[t].gen /\ row.version = stored[t].version /\ ~row.enabled
    BY <2>1 DEF Disabled, Updated
  <2> HIDE DEF stored
  <2>3. CASE copy.type \in {"option_stop", "option_target_2"}
    <3>1. rules' = [t \in Types |-> IF stored[t].version = v THEN Disabled(stored[t]) ELSE stored[t]]
      BY <1>6, <2>3 DEF After
    <3>2. stored[copy.type].version = v
      BY <1>1, <1>5
    <3> HIDE DEF Rules, v
    <3> QED
      BY <1>1, <2>1, <2>2, <3>1, <3>2
  <2>4. CASE copy.type \notin {"option_stop", "option_target_2"}
    <3>1. rules' = [stored EXCEPT ![copy.type] = Disabled(stored[copy.type])]
      BY <1>6, <2>4 DEF After
    <3> HIDE DEF Rules, v
    <3> QED
      BY <1>1, <1>5, <2>1, <2>2, <3>1
  <2> QED
    BY <2>3, <2>4
<1>8. \A t \in Types : /\ rules'[t].gen = rules[t].gen /\ rules'[t].version = rules[t].version
                       /\ rules'[t].enabled => rules[t].enabled
  BY <1>5, <1>7
<1>9. events' = events \cup {new} /\ position' = [position EXCEPT ![v] = state]
  BY DEF RecordTrigger
<1>10. /\ copy.type = "option_entry" => position[v] = "watching_entry" /\ state = "entry_alerted"
       /\ copy.type = "option_stop" => position[v] = "open" /\ state = "stopped"
       /\ copy.type = "option_target_1" => position[v] = "open" /\ state = "open"
       /\ copy.type = "option_target_2" => position[v] = "open" /\ state = "closed"
       /\ copy.type \in {"option_entry", "option_stop", "option_target_1", "option_target_2"}
  <2> HIDE DEF v
  <2>1. copy.type \in {"option_entry", "option_stop", "option_target_1", "option_target_2"}
    BY <1>1, ExitAssumption
  <2>2. CASE copy.type = "option_entry"
    BY <2>2, <1>4 DEF Moved, Needed
  <2>3. CASE copy.type = "option_stop"
    BY <2>3, <1>4 DEF Moved, Needed
  <2>4. CASE copy.type = "option_target_1"
    BY <2>4, <1>4 DEF Moved, Needed
  <2>5. CASE copy.type = "option_target_2"
    BY <2>5, <1>4 DEF Moved, Needed
  <2> QED
    BY <2>1, <2>2, <2>3, <2>4, <2>5
<1> HIDE DEF state, stored, v
<1>30. state \in States
  BY <1>10
<1>11. TypeOK'
  <2>1. new \in Events
    BY <1>1
  <2>2. /\ version' = version /\ gen' = gen /\ asked' = asked /\ todo' = [todo EXCEPT ![w] = todo[w] \ {copy}]
        /\ saving' = saving /\ locked' = locked
    BY DEF RecordTrigger, saveVars
  <2> HIDE DEF new
  <2>3. events' \subseteq Events
    BY <1>9, <2>1 DEF IInv, TypeOK
  <2>4. position' \in [Versions -> States]
    BY <1>3, <1>9, <1>30 DEF IInv, TypeOK
  <2>5. todo' \in [Workers -> SUBSET Copies]
    BY <2>2 DEF IInv, TypeOK
  <2> QED
    BY <1>7, <2>2, <2>3, <2>4, <2>5 DEF IInv, TypeOK
<1>12. \A t \in Types : rules'[t].enabled => rules'[t].gen # 0
  BY <1>8 DEF IInv, RowsTogether
<1>13. RowsTogether'
  BY <1>8, <1>12, RowsStay DEF IInv
<1>14. CopiesReal'
  BY DEF IInv, TypeOK, CopiesReal, RecordTrigger
<1>15. \A e \in events : e.type \in Types
  BY DEF IInv, TypeOK
<1>16. EventsStored'
  <2>1. \A e \in events : e.gen # 0 /\ e.gen = rules'[e.type].gen /\ ~rules'[e.type].enabled
    BY <1>8, <1>15 DEF IInv, EventsStored
  <2>2. new.gen # 0 /\ new.gen = rules'[new.type].gen /\ ~rules'[new.type].enabled
    BY <1>1, <1>2, <1>7, <1>8
  <2> QED
    BY <1>9, <2>1, <2>2 DEF EventsStored
<1>17. position \in [Versions -> States]
  BY DEF IInv, TypeOK
<1>18. \A e \in events : rules[e.type].version = v
  BY <1>1, <1>2, <1>15 DEF IInv, EventsStored, RowsTogether, v
<1>19. position'[v] = state
  BY <1>3, <1>9, <1>17
<1>20. ExitsMoved'
  <2>1. ASSUME NEW e \in events
        PROVE  /\ e.type # "option_stop" /\ e.type # "option_target_2"
               /\ e.type = "option_target_1" => state \in {"open", "stopped", "closed"}
    <3>1. /\ e.type = "option_stop" => position[v] = "stopped"
          /\ e.type = "option_target_2" => position[v] = "closed"
          /\ e.type = "option_target_1" => position[v] \in {"open", "stopped", "closed"}
      BY <1>18, Zenon DEF IInv, ExitsMoved
    <3> QED
      BY <3>1, <1>10
  <2>2. \A e \in events : rules'[e.type].version = v
    BY <1>8, <1>15, <1>18
  <2>3. rules'[new.type].version = v
    BY <1>1, <1>8 DEF v
  <2>4. /\ new.type = "option_stop" => state = "stopped"
        /\ new.type = "option_target_2" => state = "closed"
        /\ new.type = "option_target_1" => state \in {"open", "stopped", "closed"}
    BY <1>10
  <2> QED
    BY <1>9, <1>19, <2>1, <2>2, <2>3, <2>4 DEF ExitsMoved
<1>21. \E e \in events' : e.type = "option_entry" /\ e.gen = rules[copy.type].gen
  <2>1. CASE copy.type = "option_entry"
    <3>1. new \in events' /\ new.type = "option_entry" /\ new.gen = rules[copy.type].gen
      BY <2>1, <1>2, <1>9
    <3> HIDE DEF new
    <3> QED
      BY <3>1, Zenon
  <2>2. CASE copy.type # "option_entry"
    <3>1. position[v] = "open"
      BY <2>2, <1>10
    <3>2. \E e \in events : e.type = "option_entry" /\ e.gen = rules[copy.type].gen
      BY <3>1, <1>1, <1>2 DEF IInv, EntryAlerted, v
    <3> QED
      BY <3>2, <1>9
  <2> QED
    BY <2>1, <2>2
<1>22. EntryAlerted'
  <2> SUFFICES ASSUME NEW t \in Types, rules'[t].gen # 0
               PROVE  \E e \in events' : e.type = "option_entry" /\ e.gen = rules'[t].gen
    BY Zenon DEF EntryAlerted
  <2>1. rules'[t].gen = rules[copy.type].gen
    BY <1>1, <1>2, <1>8 DEF IInv, RowsTogether
  <2> QED
    BY <1>21, <2>1
<1> QED
  BY <1>11, <1>13, <1>14, <1>16, <1>20, <1>22 DEF IInv

LEMMA EvaluateKeeps ==
    ASSUME IInv, NEW w \in Workers, Evaluate(w)
    PROVE  IInv'
<1>1. /\ todo \in [Workers -> SUBSET Copies] /\ asked \in [Tabs -> 0..MaxVersion]
      /\ saving \in 0..MaxVersion /\ locked \subseteq 0..MaxGen
  BY DEF IInv, TypeOK
<1>2. \A u \in Workers : \A copy \in todo[u] : copy.row.gen # 0
  BY DEF IInv, CopiesReal
<1>3. CASE ListEnabled(w)
  <2> DEFINE listed == {[type |-> t, row |-> rules[t]] : t \in {u \in Types : rules[u].enabled}}
  <2>1. todo' = [todo EXCEPT ![w] = listed] /\ asked' = asked /\ saving' = saving /\ locked' = locked
    BY <1>3 DEF ListEnabled, saveVars
  <2>2. listed \in SUBSET Copies /\ \A copy \in listed : copy.row.gen # 0
    BY DEF IInv, TypeOK, RowsTogether
  <2> HIDE DEF listed
  <2>3. /\ todo' \in [Workers -> SUBSET Copies]
        /\ \A u \in Workers : \A copy \in todo'[u] : copy.row.gen # 0
    BY <1>1, <1>2, <2>1, <2>2
  <2> QED
    BY <1>1, <1>3, <2>1, <2>3, ReadKeeps DEF ListEnabled
<1>4. ASSUME NEW left \in SUBSET todo[w], todo' = [todo EXCEPT ![w] = left],
             UNCHANGED <<version, gen, rules, position, events, asked, saving, locked>>
      PROVE  IInv'
  <2>1. todo' \in [Workers -> SUBSET Copies]
    BY <1>1, <1>4
  <2>2. \A u \in Workers : \A copy \in todo'[u] : copy.row.gen # 0
    BY <1>1, <1>2, <1>4
  <2> QED
    BY <1>1, <1>4, <2>1, <2>2, ReadKeeps
<1>5. CASE EndCheck(w)
  BY <1>4, <1>5 DEF EndCheck, saveVars
<1>6. ASSUME NEW copy \in todo[w], Skip(w, copy) \/ RecordRefused(w, copy)
      PROVE  IInv'
  BY <1>4, <1>6 DEF Skip, RecordRefused, saveVars
<1>7. ASSUME NEW copy \in todo[w], NEW zone \in Zones, RecordQuiet(w, copy, zone)
      PROVE  IInv'
  BY <1>7, RecordQuietKeeps
<1>8. ASSUME NEW copy \in todo[w], NEW time \in Times, RecordTrigger(w, copy, time)
      PROVE  IInv'
  BY <1>8, RecordTriggerKeeps
<1> QED
  BY <1>3, <1>5, <1>6, <1>7, <1>8, Zenon DEF Evaluate

LEMMA OwnerKeeps == IInv /\ OwnerNext => IInv'
<1> SUFFICES ASSUME IInv, OwnerNext PROVE IInv'
  OBVIOUS
<1>1. ASSUME NEW b \in Tabs, ReplaceCheck(b) \/ ReplaceRaises(b)
      PROVE  IInv'
  <2>1. asked' \in [Tabs -> 0..MaxVersion]
    <3>1. asked \in [Tabs -> 0..MaxVersion] /\ version \in 0..MaxVersion /\ 0 \in 0..MaxVersion
      BY BoundAssumption DEF IInv, TypeOK
    <3> QED
      BY <1>1, <3>1 DEF ReplaceCheck, ReplaceRaises
  <2>3. SaveType'
    BY <1>1, SaveTypeStays DEF ReplaceCheck, ReplaceRaises
  <2>2. /\ todo' \in [Workers -> SUBSET Copies]
        /\ \A u \in Workers : \A copy \in todo'[u] : copy.row.gen # 0
    BY <1>1 DEF IInv, TypeOK, CopiesReal, ReplaceCheck, ReplaceRaises
  <2> QED
    BY <1>1, <2>1, <2>2, <2>3, ReadKeeps DEF ReplaceCheck, ReplaceRaises, SaveType
<1>2. ASSUME NEW b \in Tabs, NEW chosen \in SUBSET Types, Replace(b, chosen)
      PROVE  IInv'
  BY <1>2, ReplaceKeeps
<1>3. ASSUME NEW v \in Versions, ConfirmEntry(v)
      PROVE  IInv'
  BY <1>3, ConfirmKeeps
<1> QED
  BY <1>1, <1>2, <1>3, Zenon DEF OwnerNext

LEMMA NextKeepsIInv == IInv /\ [Next]_vars => IInv'
<1> SUFFICES ASSUME IInv, [Next]_vars PROVE IInv'
  OBVIOUS
<1>1. CASE UNCHANGED vars
  BY <1>1 DEF IInv, TypeOK, RowsTogether, CopiesReal, EventsStored, ExitsMoved, EntryAlerted, vars
<1>2. CASE Next
  BY <1>2, EvaluateKeeps, OwnerKeeps, SaveLocksKeeps, SavePlanKeeps, Zenon DEF Next
<1> QED
  BY <1>1, <1>2

LEMMA AlwaysIInv == Spec => []IInv
BY InitIInv, NextKeepsIInv, PTL DEF Spec

-----------------------------------------------------------------------------
\* The rows, positions, events and copies of the alert tables keep their types.
THEOREM TypeCorrect == Spec => []TypeOK
<1>1. IInv => TypeOK
  BY DEF IInv
<1> QED
  BY <1>1, AlwaysIInv, PTL

\* record_alert_evaluation stores one event per rule, whatever copies the
\* workers evaluate: the rule that triggers is enabled, those with an event not.
THEOREM AlwaysAlertsOnce == Spec => []AlertsOnce
<1>1. Init => AlertsOnce
  BY DEF Init, AlertsOnce
<1>2. AlertsOnce /\ IInv /\ [Next]_vars => AlertsOnce'
  <2> SUFFICES ASSUME AlertsOnce, IInv, [Next]_vars PROVE AlertsOnce'
    OBVIOUS
  <2>1. CASE events' \subseteq events
    BY <2>1 DEF AlertsOnce
  <2>2. ASSUME NEW w \in Workers, NEW copy \in todo[w], NEW time \in Times, RecordTrigger(w, copy, time)
        PROVE  AlertsOnce'
    <3>1. rules[copy.type].enabled
      BY <2>2 DEF RecordTrigger, StillWanted
    <3>2. \A e \in events : e.type # copy.type
      BY <3>1 DEF IInv, EventsStored
    <3>3. events' = events \cup {[gen |-> copy.row.gen, type |-> copy.type, time |-> time]}
      BY <2>2 DEF RecordTrigger
    <3> QED
      BY <3>2, <3>3 DEF AlertsOnce
  <2>3. events' \subseteq events \/ \E w \in Workers : \E copy \in todo[w] : \E time \in Times :
            RecordTrigger(w, copy, time)
    BY DEF Next, Evaluate, OwnerNext, SaveLocks, SavePlan, DropRules, ReplaceCheck, ReplaceRaises, Replace, ConfirmEntry,
           ListEnabled, EndCheck, Skip, RecordRefused, RecordQuiet, vars
  <2> QED
    BY <2>1, <2>2, <2>3
<1> QED
  BY <1>1, <1>2, AlwaysIInv, PTL DEF Spec

\* No stop or target alert without the entry alert of the same rules, and never
\* both a stop and a second target, with a version saved at any time.
THEOREM AlwaysExitsFollowEntry == Spec => []ExitsFollowEntry
<1>1. IInv => ExitsFollowEntry
  <2> SUFFICES ASSUME IInv, NEW e \in events
               PROVE  /\ e.type # "option_entry" => \E f \in events : f.gen = e.gen /\ f.type = "option_entry"
                      /\ e.type = "option_stop" => ~\E f \in events : f.gen = e.gen /\ f.type = "option_target_2"
    BY Zenon DEF ExitsFollowEntry
  <2>1. \A f \in events : f.type \in Types
    BY DEF IInv, TypeOK
  <2>2. rules[e.type].gen = e.gen /\ e.gen # 0
    BY DEF IInv, EventsStored
  <2>3. ASSUME e.type # "option_entry"
        PROVE  \E f \in events : f.gen = e.gen /\ f.type = "option_entry"
    <3>1. position[rules[e.type].version] \in {"open", "stopped", "closed"}
      BY <2>1, <2>3, ExitAssumption DEF IInv, ExitsMoved
    <3> QED
      BY <2>1, <2>2, <3>1 DEF IInv, EntryAlerted
  <2>4. ASSUME e.type = "option_stop", NEW f \in events, f.gen = e.gen, f.type = "option_target_2"
        PROVE  FALSE
    <3>1. rules[f.type].version = rules[e.type].version
      BY <2>1, <2>2, <2>4 DEF IInv, EventsStored, RowsTogether
    <3>2. position[rules[e.type].version] = "stopped" /\ position[rules[f.type].version] = "closed"
      BY <2>4, Zenon DEF IInv, ExitsMoved
    <3> QED
      BY <3>1, <3>2
  <2> QED
    BY <2>3, <2>4, Zenon
<1> QED
  BY <1>1, AlwaysIInv, PTL

\* A live position is never deleted, reset or sent back by a replacement, a new
\* version or the stale copy of a worker.
THEOREM LiveAlwaysMovesForward == Spec => LiveMovesForward
<1> DEFINE Forward ==
        \A v \in Versions :
          /\ position[v] = "entry_alerted" => position'[v] \in Live
          /\ position[v] = "open" => position'[v] \in {"open", "stopped", "closed"}
<1>1. IInv /\ [Next]_vars => [Forward]_vars
  <2> SUFFICES ASSUME IInv, [Next]_vars PROVE Forward
    OBVIOUS
  <2>1. CASE position' = position
    BY <2>1
  <2>2. position \in [Versions -> States]
    BY DEF IInv, TypeOK
  <2>3. ASSUME NEW b \in Tabs, NEW chosen \in SUBSET Types, Replace(b, chosen)
        PROVE  Forward
    BY <2>2, <2>3 DEF Replace
  <2>4. ASSUME NEW v \in Versions, ConfirmEntry(v)
        PROVE  Forward
    BY <2>2, <2>4 DEF ConfirmEntry
  <2>5. ASSUME NEW w \in Workers, NEW copy \in todo[w], NEW time \in Times, RecordTrigger(w, copy, time)
        PROVE  Forward
    <3> DEFINE v == rules[copy.type].version
    <3>1. copy.type \in Types
      BY EvaluatedRows
    <3>2. position[v] = Needed(copy.type) /\ position' = [position EXCEPT ![v] = Moved(copy.type, position[v])]
      BY <2>5 DEF RecordTrigger, StillWanted
    <3> HIDE DEF v
    <3>3. CASE copy.type = "option_entry"
      BY <2>2, <3>2, <3>3 DEF Needed
    <3>4. CASE copy.type \in {"option_stop", "option_target_2", "option_target_1"}
      <4>1. position[v] = "open" /\ Moved(copy.type, position[v]) \in {"open", "stopped", "closed"}
        BY <3>2, <3>4 DEF Needed, Moved
      <4> QED
        BY <2>2, <3>2, <4>1
    <3> QED
      BY <3>1, <3>3, <3>4, ExitAssumption
  <2>6. \/ position' = position
        \/ \E b \in Tabs : \E chosen \in SUBSET Types : Replace(b, chosen)
        \/ \E v \in Versions : ConfirmEntry(v)
        \/ \E w \in Workers : \E copy \in todo[w] : \E time \in Times : RecordTrigger(w, copy, time)
    BY DEF Next, Evaluate, OwnerNext, SaveLocks, SavePlan, ReplaceCheck, ReplaceRaises,
           ListEnabled, EndCheck, Skip, RecordRefused, RecordQuiet, vars
  <2> QED
    BY <2>1, <2>3, <2>4, <2>5, <2>6
<1> QED
  BY <1>1, AlwaysIInv, PTL DEF Spec, LiveMovesForward

-----------------------------------------------------------------------------
(* No replacement is under way while a version is saved.                    *)

\* A rule that is enabled is armed, and so was every copy that was listed.
EnabledArmed ==
    /\ \A t \in Types : rules[t].enabled => rules[t].armed
    /\ \A w \in Workers : \A copy \in todo[w] : copy.row.armed

\* A row no replacement inserted is no row.
Blank == \A t \in Types : rules[t].gen = 0 => rules[t] = NoRule

\* A running replacement was checked for the version that is still active.
AskedActive == \A b \in Tabs : asked[b] # 0 => asked[b] = version

\* A save that is under way has locked every rule, and no position is live.
SaveHolds ==
    saving # 0 =>
        /\ \A b \in Tabs : asked[b] = 0
        /\ \A v \in Versions : position[v] \notin Live
        /\ \A t \in Types : rules[t].gen \in locked

QuietIInv == EnabledArmed /\ Blank /\ AskedActive /\ RulesAreOfActiveVersion /\ LiveIsWatched

\* The version of a live position is that of every rule.
LEMMA LiveVersion ==
    ASSUME IInv, QuietIInv, NEW v \in Versions, position[v] \in Live
    PROVE  v = version /\ \A t \in Types : rules[t].gen # 0 => rules[t].version = v
<1>1. "option_entry" \in Types /\ rules["option_entry"].version = v
  BY Zenon DEF QuietIInv, LiveIsWatched
<1>2. v # 0
  BY BoundAssumption
<1>3. rules["option_entry"] # NoRule
  BY <1>1, <1>2
<1>4. v = version
  BY <1>1, <1>3 DEF QuietIInv, RulesAreOfActiveVersion
<1>5. \A t \in Types : rules[t].gen # 0 => rules[t] # NoRule
  OBVIOUS
<1> QED
  BY <1>4, <1>5 DEF QuietIInv, RulesAreOfActiveVersion

\* A step that changes no row's replacement or version, deletes no event and moves no
\* position keeps the watch, when it takes no rule that watches from it.
LEMMA WatchKept ==
    ASSUME IInv, QuietIInv, events \subseteq events',
           \A t \in Types : rules'[t].gen = rules[t].gen /\ rules'[t].version = rules[t].version,
           \A t \in Types : rules'[t] # NoRule => rules[t] # NoRule,
           \A v \in Versions : position'[v] \in Live => position'[v] = position[v],
           \A t \in Exits : rules[t].enabled /\ rules[t].armed
              => Alerted(t)' \/ (rules'[t].enabled /\ rules'[t].armed)
                 \/ \A v \in Versions : position'[v] # "open"
    PROVE  LiveIsWatched'
<1>1. \A t \in Types : Alerted(t) => Alerted(t)'
  BY DEF Alerted
<1>2. ASSUME NEW v \in Versions, position'[v] \in Live
      PROVE  rules'["option_entry"].version = v /\ Alerted("option_entry")'
  BY <1>1, <1>2 DEF QuietIInv, LiveIsWatched
<1>3. ASSUME NEW v \in Versions, position'[v] = "open", NEW t \in Exits, rules'[t] # NoRule
      PROVE  rules'[t].version = v /\ (Alerted(t)' \/ (rules'[t].enabled /\ rules'[t].armed))
  <2>1. position[v] = "open" /\ rules[t] # NoRule /\ t \in Types
    BY <1>3
  <2>2. rules[t].version = v /\ (Alerted(t) \/ (rules[t].enabled /\ rules[t].armed))
    BY <2>1 DEF QuietIInv, LiveIsWatched
  <2>3. rules'[t].version = v
    BY <2>1, <2>2
  <2>4. CASE Alerted(t)
    BY <1>1, <2>1, <2>3, <2>4, Zenon
  <2>5. CASE rules[t].enabled /\ rules[t].armed
    BY <1>3, <2>3, <2>5, Zenon
  <2> QED
    BY <2>2, <2>4, <2>5, Zenon
<1> QED
  BY <1>2, <1>3, Zenon DEF LiveIsWatched

\* The rows after a quiet evaluation: what was armed stays so.
LEMMA QuietRows ==
    ASSUME IInv, QuietIInv, NEW w \in Workers, NEW copy \in todo[w], NEW zone \in Zones,
           RecordQuiet(w, copy, zone)
    PROVE  /\ \A t \in Types :
                /\ rules'[t].gen = rules[t].gen /\ rules'[t].version = rules[t].version
                /\ rules'[t].enabled = rules[t].enabled
                /\ rules[t].armed => rules'[t].armed
           /\ \A t \in Types : rules[t].gen = 0 => rules'[t] = rules[t]
<1>1. copy.type \in Types /\ copy.row \in Rules /\ copy.row.gen # 0
  BY EvaluatedRows
<1>2. rules \in [Types -> Rules]
  BY DEF IInv, TypeOK
<1>3. rules[copy.type].gen # 0
  BY <1>1 DEF RecordQuiet, IsStored
<1>4. Armed(copy.row, zone)
  <2>1. copy.row.armed
    BY Zenon DEF QuietIInv, EnabledArmed
  <2> QED
    BY <2>1, Zenon DEF RecordQuiet, Armed
<1>5. PICK past \in BOOLEAN : past = (zone = "reached")
  OBVIOUS
<1>6. PICK armed \in BOOLEAN : armed = Armed(copy.row, zone) /\ armed = TRUE
  <2>1. Armed(copy.row, zone) \in BOOLEAN
    BY <1>1 DEF Armed, Triggered
  <2> QED
    BY <1>4, <2>1
<1>7. rules' = [rules EXCEPT ![copy.type] = Updated(rules[copy.type], rules[copy.type].enabled, armed, past)]
  BY <1>5, <1>6 DEF RecordQuiet, Evaluated
<1>8. ASSUME NEW t \in Types
      PROVE  /\ rules'[t].gen = rules[t].gen /\ rules'[t].version = rules[t].version
             /\ rules'[t].enabled = rules[t].enabled
             /\ rules[t].armed => rules'[t].armed
             /\ rules[t].gen = 0 => rules'[t] = rules[t]
  <2>1. CASE t = copy.type
    BY <1>1, <1>2, <1>3, <1>6, <1>7, <2>1 DEF Updated
  <2>2. CASE t # copy.type
    BY <1>1, <1>2, <1>7, <2>2
  <2> QED
    BY <2>1, <2>2
<1> QED
  BY <1>8

\* The rows after a trigger: its own rule watches no more, and an end of the position
\* ends the watch of the others.
LEMMA TriggerRows ==
    ASSUME IInv, NEW w \in Workers, NEW copy \in todo[w], NEW time \in Times, RecordTrigger(w, copy, time)
    PROVE  /\ copy.type \in Types /\ rules[copy.type].gen = copy.row.gen /\ copy.row.gen # 0
           /\ \A t \in Types :
                /\ rules'[t].gen = rules[t].gen /\ rules'[t].version = rules[t].version
                /\ rules[t].gen = 0 => rules'[t] = rules[t]
                /\ rules'[t].enabled => rules'[t] = rules[t]
                /\ t # copy.type /\ copy.type \notin {"option_stop", "option_target_2"} => rules'[t] = rules[t]
<1> DEFINE v == rules[copy.type].version
           stored == Evaluated(copy, "reached")
<1>1. copy.type \in Types /\ copy.row \in Rules /\ copy.row.gen # 0
  BY EvaluatedRows
<1>2. rules[copy.type].gen = copy.row.gen
  BY DEF RecordTrigger, IsStored
<1>3. rules' = After(copy.type, v, stored)
  BY DEF RecordTrigger
<1>4. /\ stored \in [Types -> Rules] /\ rules \in [Types -> Rules]
      /\ \A t \in Types : stored[t].gen = rules[t].gen /\ stored[t].version = rules[t].version
      /\ \A t \in Types \ {copy.type} : stored[t] = rules[t]
  <2>1. /\ stored \in [Types -> Rules]
        /\ \A t \in Types : /\ stored[t].gen = rules[t].gen /\ stored[t].version = rules[t].version
                            /\ stored[t].enabled => rules[t].enabled
    BY EvaluatedRows
  <2>2. rules \in [Types -> Rules]
    BY DEF IInv, TypeOK
  <2>3. \A t \in Types \ {copy.type} : stored[t] = rules[t]
    BY <2>2 DEF Evaluated
  <2> QED
    BY <2>1, <2>2, <2>3
<1>5. v # 0
  <2>1. v \in Versions
    BY <1>1, <1>2 DEF IInv, RowsTogether
  <2> QED
    BY <2>1, BoundAssumption
<1>6. \A t \in Types : rules[t].gen = 0 => rules[t].version # v
  BY <1>5 DEF IInv, RowsTogether
<1> HIDE DEF stored, v
<1>7. \A t \in Types : LET row == Disabled(stored[t]) IN
         row.gen = stored[t].gen /\ row.version = stored[t].version /\ ~row.enabled
  BY <1>4 DEF Disabled, Updated
<1>8. stored[copy.type].version = v
  BY <1>1, <1>4 DEF v
<1>9. ASSUME NEW t \in Types
      PROVE  /\ rules'[t].gen = rules[t].gen /\ rules'[t].version = rules[t].version
             /\ rules[t].gen = 0 => rules'[t] = rules[t]
             /\ rules'[t].enabled => rules'[t] = rules[t]
             /\ t # copy.type /\ copy.type \notin {"option_stop", "option_target_2"} => rules'[t] = rules[t]
  <2>1. CASE copy.type \in {"option_stop", "option_target_2"}
    <3>1. rules' = [u \in Types |-> IF stored[u].version = v THEN Disabled(stored[u]) ELSE stored[u]]
      BY <1>3, <2>1 DEF After
    <3>2. rules'[t] = IF stored[t].version = v THEN Disabled(stored[t]) ELSE stored[t]
      BY <3>1
    <3>3. t # copy.type => stored[t] = rules[t]
      BY <1>4
    <3> HIDE DEF Rules
    <3> QED
      BY <1>1, <1>2, <1>4, <1>6, <1>7, <1>8, <2>1, <3>2, <3>3
  <2>2. CASE copy.type \notin {"option_stop", "option_target_2"}
    <3>1. rules' = [stored EXCEPT ![copy.type] = Disabled(stored[copy.type])]
      BY <1>3, <2>2 DEF After
    <3> HIDE DEF Rules
    <3>2. rules'[t] = IF t = copy.type THEN Disabled(stored[t]) ELSE rules[t]
      BY <1>1, <1>4, <3>1
    <3> QED
      BY <1>1, <1>2, <1>4, <1>7, <3>2
  <2> QED
    BY <2>1, <2>2
<1> QED
  BY <1>1, <1>2, <1>9

\* The rows after the owner confirms the entry: the exit rules of the version watch.
LEMMA ConfirmRows ==
    ASSUME IInv, NEW v \in Versions, ConfirmEntry(v)
    PROVE  \A t \in Types :
              /\ rules'[t].gen = rules[t].gen /\ rules'[t].version = rules[t].version
              /\ rules[t].gen = 0 => rules'[t] = rules[t]
              /\ rules'[t].enabled => rules'[t].armed \/ rules'[t] = rules[t]
              /\ t \in Exits /\ rules[t].version = v => rules'[t].enabled /\ rules'[t].armed
<1> SUFFICES ASSUME NEW t \in Types
             PROVE  /\ rules'[t].gen = rules[t].gen /\ rules'[t].version = rules[t].version
                    /\ rules[t].gen = 0 => rules'[t] = rules[t]
                    /\ rules'[t].enabled => rules'[t].armed \/ rules'[t] = rules[t]
                    /\ t \in Exits /\ rules[t].version = v => rules'[t].enabled /\ rules'[t].armed
  OBVIOUS
<1>1. rules'[t] = IF rules[t].version # v THEN rules[t]
                  ELSE IF t \in Exits THEN Enabled(rules[t])
                  ELSE Updated(rules[t], FALSE, rules[t].armed, rules[t].reached)
  BY DEF ConfirmEntry
<1>2. rules[t].gen = 0 => rules[t].version # v
  <2>1. rules[t].gen = 0 => rules[t].version = 0
    BY Zenon DEF IInv, RowsTogether
  <2>2. v # 0
    BY BoundAssumption
  <2> QED
    BY <2>1, <2>2
<1>3. CASE rules[t].version # v
  BY <1>1, <1>3
<1>4. CASE rules[t].version = v /\ t \in Exits
  BY <1>1, <1>2, <1>4 DEF Enabled, Updated
<1>5. CASE rules[t].version = v /\ t \notin Exits
  BY <1>1, <1>2, <1>5 DEF Updated
<1> QED
  BY <1>3, <1>4, <1>5

LEMMA InitQuiet == Init => QuietIInv
<1> SUFFICES ASSUME Init PROVE QuietIInv
  OBVIOUS
<1>1. EnabledArmed /\ Blank /\ AskedActive
  BY DEF Init, EnabledArmed, Blank, AskedActive
<1>2. RulesAreOfActiveVersion
  BY DEF Init, RulesAreOfActiveVersion
<1>3. LiveIsWatched
  <2>1. \A v \in Versions : position[v] = "none"
    BY DEF Init
  <2>2. \A v \in Versions : position[v] \notin Live /\ position[v] # "open"
    BY <2>1
  <2> QED
    BY <2>2, Zenon DEF LiveIsWatched
<1> QED
  BY <1>1, <1>2, <1>3 DEF QuietIInv

\* A step that leaves the tables alone.
LEMMA ReadKeepsQuiet ==
    ASSUME IInv, QuietIInv, UNCHANGED <<version, rules, position, events>>,
           \A w \in Workers : \A copy \in todo'[w] : copy.row.armed,
           \A b \in Tabs : asked'[b] # 0 => asked'[b] = version
    PROVE  QuietIInv'
<1>1. EnabledArmed'
  BY DEF QuietIInv, EnabledArmed
<1>2. Blank' /\ AskedActive'
  BY DEF QuietIInv, Blank, AskedActive
<1>3. RulesAreOfActiveVersion'
  BY DEF QuietIInv, RulesAreOfActiveVersion
<1>4. LiveIsWatched'
  BY DEF QuietIInv, LiveIsWatched, Alerted
<1> QED
  BY <1>1, <1>2, <1>3, <1>4 DEF QuietIInv

\* A step that writes rows and keeps their replacement and version.
LEMMA WriteKeepsQuiet ==
    ASSUME IInv, QuietIInv, UNCHANGED <<version, asked>>,
           \A t \in Types : /\ rules'[t].gen = rules[t].gen /\ rules'[t].version = rules[t].version
                            /\ rules[t].gen = 0 => rules'[t] = rules[t]
                            /\ rules'[t].enabled => rules'[t].armed,
           \A w \in Workers : todo'[w] \subseteq todo[w],
           LiveIsWatched'
    PROVE  QuietIInv'
<1>1. EnabledArmed'
  BY DEF QuietIInv, EnabledArmed
<1>2. Blank'
  BY DEF QuietIInv, Blank
<1>3. AskedActive'
  BY DEF QuietIInv, AskedActive
<1>4. RulesAreOfActiveVersion'
  <2> SUFFICES ASSUME NEW t \in Types, rules'[t] # NoRule PROVE rules'[t].version = version
    BY DEF RulesAreOfActiveVersion
  <2>1. rules[t] # NoRule
    <3>1. rules[t].gen # 0
      BY DEF QuietIInv, Blank
    <3> QED
      BY <3>1
  <2> QED
    BY <2>1 DEF QuietIInv, RulesAreOfActiveVersion
<1> QED
  BY <1>1, <1>2, <1>3, <1>4 DEF QuietIInv

LEMMA EvaluateKeepsQuiet ==
    ASSUME IInv, QuietIInv, NEW w \in Workers, Evaluate(w)
    PROVE  QuietIInv'
<1>1. todo \in [Workers -> SUBSET Copies]
  BY DEF IInv, TypeOK
<1>2. \A u \in Workers : \A copy \in todo[u] : copy.row.armed
  BY DEF QuietIInv, EnabledArmed
<1>3. \A b \in Tabs : asked[b] # 0 => asked[b] = version
  BY DEF QuietIInv, AskedActive
<1>4. CASE ListEnabled(w)
  <2> DEFINE listed == {[type |-> t, row |-> rules[t]] : t \in {u \in Types : rules[u].enabled}}
  <2>1. todo' = [todo EXCEPT ![w] = listed] /\ UNCHANGED <<version, rules, position, events, asked>>
    BY <1>4 DEF ListEnabled
  <2>2. \A copy \in listed : copy.row.armed
    BY DEF QuietIInv, EnabledArmed
  <2> HIDE DEF listed
  <2>3. \A u \in Workers : \A copy \in todo'[u] : copy.row.armed
    BY <1>1, <1>2, <2>1, <2>2
  <2> QED
    BY <1>3, <2>1, <2>3, ReadKeepsQuiet
<1>5. ASSUME NEW left \in SUBSET todo[w], todo' = [todo EXCEPT ![w] = left],
             UNCHANGED <<version, rules, position, events, asked>>
      PROVE  QuietIInv'
  <2>1. \A u \in Workers : \A copy \in todo'[u] : copy.row.armed
    BY <1>1, <1>2, <1>5
  <2> QED
    BY <1>3, <1>5, <2>1, ReadKeepsQuiet
<1>6. CASE EndCheck(w)
  BY <1>5, <1>6 DEF EndCheck
<1>7. ASSUME NEW copy \in todo[w], Skip(w, copy) \/ RecordRefused(w, copy)
      PROVE  QuietIInv'
  BY <1>5, <1>7 DEF Skip, RecordRefused
<1>8. ASSUME NEW copy \in todo[w], NEW zone \in Zones, RecordQuiet(w, copy, zone)
      PROVE  QuietIInv'
  <2>1. /\ UNCHANGED <<version, position, events, asked>>
        /\ todo' = [todo EXCEPT ![w] = todo[w] \ {copy}]
    BY <1>8 DEF RecordQuiet
  <2>2. \A t \in Types :
           /\ rules'[t].gen = rules[t].gen /\ rules'[t].version = rules[t].version
           /\ rules'[t].enabled = rules[t].enabled
           /\ rules[t].armed => rules'[t].armed
           /\ rules[t].gen = 0 => rules'[t] = rules[t]
    BY <1>8, QuietRows
  <2>3. \A t \in Types : rules'[t].enabled => rules'[t].armed
    BY <2>2 DEF QuietIInv, EnabledArmed
  <2>4. \A t \in Types : rules'[t] # NoRule => rules[t] # NoRule
    BY <2>2
  <2>5. LiveIsWatched'
    BY <2>1, <2>2, <2>4, WatchKept
  <2>6. \A u \in Workers : todo'[u] \subseteq todo[u]
    BY <1>1, <2>1
  <2> QED
    BY <2>1, <2>2, <2>3, <2>5, <2>6, WriteKeepsQuiet
<1>9. ASSUME NEW copy \in todo[w], NEW time \in Times, RecordTrigger(w, copy, time)
      PROVE  QuietIInv'
  <2> DEFINE v == rules[copy.type].version
             new == [gen |-> copy.row.gen, type |-> copy.type, time |-> time]
             state == Moved(copy.type, position[v])
  <2>1. /\ UNCHANGED <<version, asked>>
        /\ todo' = [todo EXCEPT ![w] = todo[w] \ {copy}]
        /\ events' = events \cup {new} /\ position' = [position EXCEPT ![v] = state]
        /\ position[v] = Needed(copy.type)
    BY <1>9 DEF RecordTrigger, StillWanted
  <2>2. /\ copy.type \in Types /\ rules[copy.type].gen = copy.row.gen /\ copy.row.gen # 0
        /\ \A t \in Types :
             /\ rules'[t].gen = rules[t].gen /\ rules'[t].version = rules[t].version
             /\ rules[t].gen = 0 => rules'[t] = rules[t]
             /\ rules'[t].enabled => rules'[t] = rules[t]
             /\ t # copy.type /\ copy.type \notin {"option_stop", "option_target_2"} => rules'[t] = rules[t]
    BY <1>9, TriggerRows
  <2>3. v \in Versions
    BY <2>2 DEF IInv, RowsTogether
  <2>4. new.gen = rules'[copy.type].gen /\ new.type = copy.type /\ new \in events'
    BY <2>1, <2>2
  <2>5. Alerted(copy.type)'
    <3> HIDE DEF new
    <3> QED
      BY <2>4, Zenon DEF Alerted
  <2>6. /\ copy.type = "option_entry" => position[v] = "watching_entry" /\ state = "entry_alerted"
        /\ copy.type = "option_stop" => position[v] = "open" /\ state = "stopped"
        /\ copy.type = "option_target_1" => position[v] = "open" /\ state = "open"
        /\ copy.type = "option_target_2" => position[v] = "open" /\ state = "closed"
        /\ copy.type \in {"option_entry", "option_stop", "option_target_1", "option_target_2"}
    <3> HIDE DEF v
    <3>1. copy.type \in {"option_entry", "option_stop", "option_target_1", "option_target_2"}
      BY <2>2, ExitAssumption
    <3>2. position[v] = Needed(copy.type)
      BY <2>1
    <3>3. CASE copy.type = "option_entry"
      BY <3>2, <3>3 DEF Moved, Needed
    <3>4. CASE copy.type = "option_stop"
      BY <3>2, <3>4 DEF Moved, Needed
    <3>5. CASE copy.type = "option_target_1"
      BY <3>2, <3>5 DEF Moved, Needed
    <3>6. CASE copy.type = "option_target_2"
      BY <3>2, <3>6 DEF Moved, Needed
    <3> QED
      BY <3>1, <3>3, <3>4, <3>5, <3>6
  <2>7. position \in [Versions -> States]
    BY DEF IInv, TypeOK
  <2> HIDE DEF new, state
  <2>8. \A u \in Versions : position[u] \in Live => u = v
    <3>1. rules[copy.type].gen # 0
      BY <2>2
    <3> QED
      <4> TAKE u \in Versions
      <4> HAVE position[u] \in Live
      <4>1. rules[copy.type].version = u
        BY <2>2, <3>1, LiveVersion
      <4> QED
        BY <4>1
  <2> HIDE DEF v
  <2>9. \A t \in Types : rules'[t].enabled => rules'[t].armed
    BY <2>2 DEF QuietIInv, EnabledArmed
  <2>10. \A t \in Types : rules'[t] # NoRule => rules[t] # NoRule
    BY <2>2
  <2>11. LiveIsWatched'
    <3>1. CASE copy.type = "option_entry"
      <4>1. \A u \in Versions : position[u] \notin Live
        BY <2>6, <2>8, <3>1
      <4>2. \A u \in Versions : position'[u] \in Live => u = v /\ position'[u] = "entry_alerted"
        BY <2>1, <2>3, <2>6, <2>7, <3>1, <4>1
      <4>3. rules'["option_entry"].version = v
        BY <2>2, <3>1 DEF v
      <4>4. \A u \in Versions : position'[u] # "open"
        BY <4>2
      <4>5. Alerted("option_entry")'
        BY <2>5, <3>1
      <4> QED
        BY <4>2, <4>3, <4>4, <4>5, Zenon DEF LiveIsWatched
    <3>2. CASE copy.type \in {"option_stop", "option_target_2"}
      <4>1. \A u \in Versions : position'[u] \notin Live
        BY <2>1, <2>3, <2>6, <2>7, <2>8, <3>2
      <4>2. \A u \in Versions : position'[u] # "open"
        BY <4>1
      <4> QED
        BY <4>1, <4>2, Zenon DEF LiveIsWatched
    <3>3. CASE copy.type = "option_target_1"
      <4>1. position' = position
        BY <2>1, <2>3, <2>6, <2>7, <3>3
      <4>2. \A t \in Exits : rules[t].enabled /\ rules[t].armed => Alerted(t)' \/ (rules'[t].enabled /\ rules'[t].armed)
        <5> SUFFICES ASSUME NEW t \in Exits, rules[t].enabled, rules[t].armed
                     PROVE  Alerted(t)' \/ (rules'[t].enabled /\ rules'[t].armed)
          OBVIOUS
        <5>1. CASE t = copy.type
          BY <2>5, <5>1
        <5>2. CASE t # copy.type
          <6>1. rules'[t] = rules[t]
            BY <2>2, <3>3, <5>2
          <6> QED
            BY <6>1, Zenon
        <5> QED
          BY <5>1, <5>2
      <4>3. events \subseteq events'
        BY <2>1
      <4> QED
        BY <2>2, <2>10, <4>1, <4>2, <4>3, WatchKept
    <3> QED
      BY <2>6, <3>1, <3>2, <3>3
  <2>12. \A u \in Workers : todo'[u] \subseteq todo[u]
    BY <1>1, <2>1
  <2> QED
    BY <2>1, <2>2, <2>9, <2>11, <2>12, WriteKeepsQuiet
<1> QED
  BY <1>4, <1>6, <1>7, <1>8, <1>9, Zenon DEF Evaluate

LEMMA ReplaceKeepsQuiet ==
    ASSUME IInv, QuietIInv, NEW b \in Tabs, NEW chosen \in SUBSET Types, Replace(b, chosen)
    PROVE  QuietIInv'
<1>1. /\ asked[b] # 0 /\ position[asked[b]] \notin Live /\ asked' = [asked EXCEPT ![b] = 0]
      /\ rules' = Inserted(asked[b], chosen) /\ UNCHANGED <<version, todo>>
      /\ position' = [position EXCEPT ![asked[b]] =
                         IF "option_entry" \in chosen THEN "watching_entry" ELSE "none"]
  BY DEF Replace
<1>2. asked[b] = version /\ asked \in [Tabs -> 0..MaxVersion] /\ position \in [Versions -> States]
      /\ gen \in Nat
  BY <1>1, BoundAssumption DEF QuietIInv, AskedActive, IInv, TypeOK
<1>3. asked[b] \in Versions
  BY <1>1, <1>2, BoundAssumption
<1>4. \A t \in Types : rules'[t] = IF t \in chosen
         THEN [gen |-> gen + 1, version |-> version, enabled |-> t = "option_entry",
               armed |-> TRUE, reached |-> FALSE]
         ELSE NoRule
  BY <1>1, <1>2 DEF Inserted
<1>11. /\ \A t \in Types : t \notin chosen => rules'[t] = NoRule
       /\ \A t \in Types : t \in chosen => rules'[t].gen = gen + 1 /\ rules'[t].version = version /\ rules'[t].armed
  <2>1. \A t \in Types : t \notin chosen => rules'[t] = NoRule
    BY <1>4
  <2>2. ASSUME NEW t \in Types, t \in chosen
        PROVE  rules'[t].gen = gen + 1 /\ rules'[t].version = version /\ rules'[t].armed = TRUE
    <3>1. rules'[t] = [gen |-> gen + 1, version |-> version, enabled |-> t = "option_entry",
                       armed |-> TRUE, reached |-> FALSE]
      BY <1>4, <2>2
    <3> QED
      BY <3>1
  <2> QED
    BY <2>1, <2>2, Zenon
<1>12. gen + 1 # 0
  BY <1>2
<1>5. EnabledArmed'
  <2>1. \A t \in Types : rules'[t].enabled => rules'[t].armed
    <3> SUFFICES ASSUME NEW t \in Types, rules'[t].enabled PROVE rules'[t].armed
      OBVIOUS
    <3> QED
      BY <1>11
  <2>2. \A w \in Workers : \A copy \in todo'[w] : copy.row.armed
    BY <1>1 DEF QuietIInv, EnabledArmed
  <2> QED
    BY <2>1, <2>2 DEF EnabledArmed
<1>6. Blank'
  <2> SUFFICES ASSUME NEW t \in Types, rules'[t].gen = 0 PROVE rules'[t] = NoRule
    BY DEF Blank
  <2> QED
    BY <1>11, <1>12
<1>7. AskedActive'
  BY <1>1, <1>2 DEF QuietIInv, AskedActive
<1>8. RulesAreOfActiveVersion'
  <2> SUFFICES ASSUME NEW t \in Types, rules'[t] # NoRule PROVE rules'[t].version = version'
    BY Zenon DEF RulesAreOfActiveVersion
  <2> QED
    BY <1>1, <1>11
<1>9. \A v \in Versions : position'[v] \notin Live /\ position'[v] # "open"
  <2>1. \A v \in Versions : position[v] \in Live => v = asked[b]
    BY <1>2, LiveVersion
  <2>2. \A v \in Versions : position[v] \notin Live
    BY <1>1, <2>1
  <2> QED
    BY <1>1, <1>2, <1>3, <2>2
<1>10. LiveIsWatched'
  BY <1>9, Zenon DEF LiveIsWatched
<1> QED
  BY <1>5, <1>6, <1>7, <1>8, <1>10 DEF QuietIInv

LEMMA ConfirmKeepsQuiet ==
    ASSUME IInv, QuietIInv, NEW v \in Versions, ConfirmEntry(v)
    PROVE  QuietIInv'
<1>1. /\ position[v] = "entry_alerted" /\ position' = [position EXCEPT ![v] = "open"]
      /\ UNCHANGED <<version, gen, events, todo, asked>>
  BY DEF ConfirmEntry
<1>2. \A t \in Types :
         /\ rules'[t].gen = rules[t].gen /\ rules'[t].version = rules[t].version
         /\ rules[t].gen = 0 => rules'[t] = rules[t]
         /\ rules'[t].enabled => rules'[t].armed \/ rules'[t] = rules[t]
         /\ t \in Exits /\ rules[t].version = v => rules'[t].enabled /\ rules'[t].armed
  BY ConfirmRows
<1>3. \A t \in Types : rules[t].gen # 0 => rules[t].version = v
  BY <1>1, LiveVersion
<1>4. \A u \in Versions : position[u] \in Live => u = v
  <2>1. v = version
    BY <1>1, LiveVersion
  <2> QED
    BY <2>1, LiveVersion
<1>5. position \in [Versions -> States]
  BY DEF IInv, TypeOK
<1>6. \A u \in Versions : position'[u] \in Live => u = v
  BY <1>1, <1>4, <1>5
<1>7. rules["option_entry"].version = v /\ Alerted("option_entry")
  BY <1>1 DEF QuietIInv, LiveIsWatched
<1>8. rules'["option_entry"].version = v /\ Alerted("option_entry")'
  <2>1. "option_entry" \in Types
    OBVIOUS
  <2> QED
    BY <1>1, <1>2, <1>7, <2>1 DEF Alerted
<1>9. ASSUME NEW t \in Exits, rules'[t] # NoRule
      PROVE  rules'[t].version = v /\ rules'[t].enabled /\ rules'[t].armed
  <2>1. t \in Types
    OBVIOUS
  <2>2. rules[t].gen # 0
    BY <1>2, <1>9, <2>1 DEF QuietIInv, Blank
  <2> QED
    BY <1>2, <1>3, <2>1, <2>2
<1>10. LiveIsWatched'
  <2>1. \A u \in Versions : position'[u] = "open" => u = v
    BY <1>6
  <2> QED
    BY <1>6, <1>8, <1>9, <2>1, Zenon DEF LiveIsWatched
<1>11. \A t \in Types : rules'[t].enabled => rules'[t].armed
  BY <1>2 DEF QuietIInv, EnabledArmed
<1> QED
  BY <1>1, <1>2, <1>10, <1>11, WriteKeepsQuiet

LEMMA SavePlanKeepsQuiet ==
    ASSUME IInv, QuietIInv, SaveHolds, SavePlan
    PROVE  QuietIInv'
<1>1. /\ \A v \in Versions : position[v] \notin Live
      /\ \A b \in Tabs : asked[b] = 0
      /\ rules' = [t \in Types |-> NoRule] /\ UNCHANGED <<position, todo, asked>>
  BY DEF SavePlan, DropRules, SaveHolds
<1>2. \A t \in Types : rules'[t] = NoRule
  BY <1>1
<1>3. EnabledArmed'
  BY <1>1, <1>2 DEF QuietIInv, EnabledArmed
<1>4. Blank' /\ AskedActive'
  BY <1>1, <1>2 DEF Blank, AskedActive
<1>5. RulesAreOfActiveVersion'
  BY <1>2 DEF RulesAreOfActiveVersion
<1>6. LiveIsWatched'
  <2>1. \A v \in Versions : position'[v] \notin Live /\ position'[v] # "open"
    BY <1>1
  <2> QED
    BY <2>1, Zenon DEF LiveIsWatched
<1> QED
  BY <1>3, <1>4, <1>5, <1>6 DEF QuietIInv

LEMMA QuietIsNext == [QuietNext]_vars => [Next]_vars
BY DEF QuietNext

\* While a save is under way nobody writes rules or positions: a worker waits for the
\* locks, a confirmation needs a live position and a replacement one that was checked.
LEMMA SaveHoldsKept ==
    ASSUME IInv, QuietIInv, SaveHolds, [QuietNext]_vars PROVE SaveHolds'
<1>1. CASE UNCHANGED vars
  BY <1>1 DEF SaveHolds, vars
<1>2. CASE SaveLocks /\ Quiet'
  BY <1>2 DEF SaveLocks, Quiet, SaveHolds
<1>3. CASE SavePlan
  BY <1>3 DEF SavePlan, SaveHolds
<1>4. ASSUME UNCHANGED <<rules, position, saving, locked>>, Quiet' PROVE SaveHolds'
  BY <1>4 DEF SaveHolds, Quiet
<1>5. ASSUME saving = 0, saving' = saving PROVE SaveHolds'
  BY <1>5 DEF SaveHolds
<1>7. ASSUME NEW w \in Workers, Evaluate(w), Quiet' PROVE SaveHolds'
  <2>1. ASSUME NEW copy \in todo[w], NEW zone \in Zones, RecordQuiet(w, copy, zone) PROVE SaveHolds'
    <3>1. saving' = saving /\ rules[copy.type].gen \notin locked /\ copy.type \in Types
      BY <2>1, EvaluatedRows DEF RecordQuiet, IsStored, saveVars
    <3> QED
      BY <1>5, <3>1 DEF SaveHolds
  <2>2. ASSUME NEW copy \in todo[w], NEW time \in Times, RecordTrigger(w, copy, time) PROVE SaveHolds'
    <3>1. saving' = saving /\ rules[copy.type].gen \notin locked /\ copy.type \in Types
      BY <2>2, EvaluatedRows DEF RecordTrigger, IsStored, saveVars
    <3> QED
      BY <1>5, <3>1 DEF SaveHolds
  <2>3. CASE ListEnabled(w) \/ EndCheck(w) \/ \E copy \in todo[w] : Skip(w, copy) \/ RecordRefused(w, copy)
    BY <1>4, <1>7, <2>3 DEF ListEnabled, EndCheck, Skip, RecordRefused, saveVars
  <2> QED
    BY <1>7, <2>1, <2>2, <2>3, Zenon DEF Evaluate
<1>8. CASE OwnerNext /\ Quiet'
  <2>1. ASSUME NEW b \in Tabs, ReplaceCheck(b) \/ ReplaceRaises(b) PROVE SaveHolds'
    BY <1>4, <1>8, <2>1 DEF ReplaceCheck, ReplaceRaises, saveVars
  <2>2. ASSUME NEW b \in Tabs, NEW chosen \in SUBSET Types, Replace(b, chosen) PROVE SaveHolds'
    <3>1. asked[b] # 0 /\ saving' = saving
      BY <2>2 DEF Replace, saveVars
    <3>2. saving = 0
      BY <3>1 DEF SaveHolds
    <3> QED
      BY <1>5, <3>1, <3>2
  <2>3. ASSUME NEW v \in Versions, ConfirmEntry(v) PROVE SaveHolds'
    <3>1. position[v] \in Live /\ saving' = saving
      BY <2>3 DEF ConfirmEntry, saveVars
    <3>2. saving = 0
      BY <3>1 DEF SaveHolds
    <3> QED
      BY <1>5, <3>1, <3>2
  <2> QED
    BY <1>8, <2>1, <2>2, <2>3, Zenon DEF OwnerNext
<1> QED
  BY <1>1, <1>2, <1>3, <1>7, <1>8, Zenon DEF QuietNext, Next

LEMMA QuietKept == IInv /\ QuietIInv /\ SaveHolds /\ [QuietNext]_vars => QuietIInv'
<1> SUFFICES ASSUME IInv, QuietIInv, SaveHolds, [QuietNext]_vars PROVE QuietIInv'
  OBVIOUS
<1>1. /\ \A w \in Workers : \A copy \in todo[w] : copy.row.armed
      /\ \A b \in Tabs : asked[b] # 0 => asked[b] = version
  BY DEF QuietIInv, EnabledArmed, AskedActive
<1>2. CASE UNCHANGED vars
  BY <1>1, <1>2, ReadKeepsQuiet DEF vars
<1>3. ASSUME NEW b \in Tabs, ReplaceCheck(b) \/ ReplaceRaises(b) PROVE QuietIInv'
  <2>1. UNCHANGED <<version, rules, position, events, todo>>
    BY <1>3 DEF ReplaceCheck, ReplaceRaises
  <2>2. \A a \in Tabs : asked'[a] # 0 => asked'[a] = version
    BY <1>1, <1>3 DEF ReplaceCheck, ReplaceRaises, IInv, TypeOK
  <2> QED
    BY <1>1, <2>1, <2>2, ReadKeepsQuiet
<1>4. CASE OwnerNext
  BY <1>3, <1>4, ReplaceKeepsQuiet, ConfirmKeepsQuiet, Zenon DEF OwnerNext
<1>5. CASE SavePlan
  BY <1>5, SavePlanKeepsQuiet
<1>7. CASE SaveLocks
  BY <1>1, <1>7, ReadKeepsQuiet DEF SaveLocks
<1>6. ASSUME NEW w \in Workers, Evaluate(w) PROVE QuietIInv'
  BY <1>6, EvaluateKeepsQuiet
<1> QED
  BY <1>2, <1>4, <1>5, <1>6, <1>7, Zenon DEF QuietNext, Next

LEMMA AlwaysQuiet == QuietSpec => [](IInv /\ QuietIInv)
<1>1. Init => IInv /\ QuietIInv /\ SaveHolds
  BY InitIInv, InitQuiet DEF Init, SaveHolds
<1>2. IInv /\ QuietIInv /\ SaveHolds /\ [QuietNext]_vars => (IInv /\ QuietIInv /\ SaveHolds)'
  BY QuietIsNext, NextKeepsIInv, QuietKept, SaveHoldsKept
<1> QED
  BY <1>1, <1>2, PTL DEF QuietSpec

\* While no replacement overlaps the save of a version, a live position keeps the rules it
\* needs: no stale write of a worker, no replacement and no saved version turns the
\* stop of an open position off before it has alerted.
THEOREM LiveStaysWatched == QuietSpec => []LiveIsWatched
<1>1. QuietIInv => LiveIsWatched
  BY DEF QuietIInv
<1> QED
  BY <1>1, AlwaysQuiet, PTL

\* Under the same condition every stored rule is of the active version of the plan
\* (README.md:388).
THEOREM RulesFollowVersion == QuietSpec => []RulesAreOfActiveVersion
<1>1. QuietIInv => RulesAreOfActiveVersion
  BY DEF QuietIInv
<1> QED
  BY <1>1, AlwaysQuiet, PTL
=============================================================================
