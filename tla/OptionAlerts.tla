---------------------------- MODULE OptionAlerts ----------------------------
(***************************************************************************)
(* The option alert rules of one saved plan, the lifecycle of the option   *)
(* position they watch, and the alert workers that evaluate them.          *)
(*                                                                         *)
(* The SQL functions of migration 007 lock the rows they change, so each   *)
(* is one step, except two: the check of the active version in             *)
(* replace_plan_alert_rules takes no lock, and save_saved_plan_version     *)
(* locks the rules it finds, but not those a replacement inserts after     *)
(* that.  A worker evaluates copies of the rules that it listed when its   *)
(* check began; browser tabs act on pages of any age.                      *)
(***************************************************************************)
EXTENDS Naturals, FiniteSets

CONSTANTS
    Workers,    \* alert worker processes (two overlap while one is redeployed)
    Tabs,       \* browser sessions of the owner of the plan
    Exits,      \* the exit rules that a plan may have
    Times,      \* times of quotes
    MaxVersion, \* bound of the plan versions
    MaxGen      \* bound of the rule replacements

ASSUME ExitAssumption == Exits \subseteq {"option_stop", "option_target_1", "option_target_2"}
ASSUME BoundAssumption == MaxVersion \in Nat /\ MaxGen \in Nat

Types == {"option_entry"} \cup Exits
Versions == 1..MaxVersion
Live == {"entry_alerted", "open"}
States == {"none", "watching_entry", "stopped", "closed"} \cup Live

\* gen is the replacement that inserted the row and stands for its id; reached
\* says whether last_price was at the level or past it.
Rules == [gen : 0..MaxGen, version : 0..MaxVersion, enabled : BOOLEAN, armed : BOOLEAN,
          reached : BOOLEAN]
NoRule == [gen |-> 0, version |-> 0, enabled |-> FALSE, armed |-> FALSE, reached |-> FALSE]
Copies == [type : Types, row : Rules]
\* A quote is at the level or past it, near it, or so far away that it re-arms.
Zones == {"reached", "near", "away"}

VARIABLES
    version,   \* active_version of the plan, 0 before it is saved
    gen,       \* the number of replacements so far
    rules,     \* price_alerts: at most one row for each event type
    position,  \* option_positions: the lifecycle state for each version
    events,    \* alert_events, by idempotency key
    todo,      \* the listed rules that each worker has not come to
    asked,     \* the version each tab's running replacement was checked for
    saving,    \* the version that is being saved, 0 when none is
    locked     \* the replacements whose rows the save has locked

saveVars == <<saving, locked>>
vars == <<version, gen, rules, position, events, todo, asked, saving, locked>>

Events == [gen : 0..MaxGen, type : Types, time : Times]

TypeOK ==
    /\ version \in 0..MaxVersion
    /\ gen \in 0..MaxGen
    /\ rules \in [Types -> Rules]
    /\ position \in [Versions -> States]
    /\ events \subseteq Events
    /\ todo \in [Workers -> SUBSET Copies]
    /\ asked \in [Tabs -> 0..MaxVersion]
    /\ saving \in 0..MaxVersion
    /\ locked \subseteq 0..MaxGen

Init ==
    /\ version = 0
    /\ gen = 0
    /\ rules = [t \in Types |-> NoRule]
    /\ position = [v \in Versions |-> "none"]
    /\ events = {}
    /\ todo = [w \in Workers |-> {}]
    /\ asked = [b \in Tabs |-> 0]
    /\ saving = 0
    /\ locked = {}

-----------------------------------------------------------------------------
\* The row of the same rule with other contents.
Updated(row, enabled, armed, reached) ==
    [gen |-> row.gen, version |-> row.version, enabled |-> enabled, armed |-> armed, reached |-> reached]
Enabled(row) == Updated(row, TRUE, TRUE, row.reached)
Disabled(row) == Updated(row, FALSE, FALSE, row.reached)

\* Deleting the rules of the plan deletes their events with them.
DropRules == rules' = [t \in Types |-> NoRule] /\ events' = {}

\* save_saved_plan_version: the rules are locked, and the save is refused while
\* the position of any version is live.
SaveLocks ==
    /\ saving = 0 /\ version < MaxVersion
    /\ \A v \in Versions : position[v] \notin Live
    /\ saving' = version + 1
    /\ locked' = {rules[t].gen : t \in Types}
    /\ UNCHANGED <<version, gen, rules, position, events, todo, asked>>

\* Mutant: the new version keeps the rules of the old one.
SavePlan_KeepsRules ==
    /\ saving # 0
    /\ version' = saving
    /\ saving' = 0 /\ locked' = {}
    /\ UNCHANGED <<gen, rules, position, events, todo, asked>>

\* The new version and the end of the rules, locked or inserted since.
SavePlan ==
    /\ saving # 0
    /\ version' = saving
    /\ saving' = 0 /\ locked' = {}
    /\ DropRules
    /\ UNCHANGED <<gen, position, todo, asked>>

\* replace_plan_alert_rules: the version must be the active one ...
ReplaceCheck(b) ==
    /\ asked[b] = 0 /\ version > 0
    /\ asked' = [asked EXCEPT ![b] = version]
    /\ UNCHANGED <<version, gen, rules, position, events, todo, saveVars>>

ReplaceRaises(b) ==
    /\ asked[b] # 0 /\ position[asked[b]] \in Live
    /\ asked' = [asked EXCEPT ![b] = 0]
    /\ UNCHANGED <<version, gen, rules, position, events, todo, saveVars>>

\* ... and then, under the locks of the rules and of the position, all rules of
\* the plan and the position of the version are deleted and inserted anew.
Inserted(v, chosen) ==
    [t \in Types |->
        IF t \in chosen
        THEN [gen |-> gen + 1, version |-> v, enabled |-> t = "option_entry",
              armed |-> TRUE, reached |-> FALSE]
        ELSE NoRule]

Replace(b, chosen) ==
    /\ asked[b] # 0 /\ position[asked[b]] \notin Live
    /\ gen < MaxGen
    /\ gen' = gen + 1
    /\ rules' = Inserted(asked[b], chosen)
    /\ events' = {}
    /\ position' = [position EXCEPT ![asked[b]] =
                        IF "option_entry" \in chosen THEN "watching_entry" ELSE "none"]
    /\ asked' = [asked EXCEPT ![b] = 0]
    /\ UNCHANGED <<version, todo, saveVars>>

\* confirm_option_position_entry, for the version a page shows.
ConfirmEntry(v) ==
    /\ position[v] = "entry_alerted"
    /\ \A t \in Types : rules[t].version = v => rules[t].gen \notin locked
    /\ position' = [position EXCEPT ![v] = "open"]
    /\ rules' = [t \in Types |->
                    IF rules[t].version # v THEN rules[t]
                    ELSE IF t \in Exits THEN Enabled(rules[t]) ELSE Updated(rules[t], FALSE, rules[t].armed, rules[t].reached)]
    /\ UNCHANGED <<version, gen, events, todo, asked, saveVars>>

-----------------------------------------------------------------------------
\* check_alerts begins: the enabled rules are listed.
ListEnabled(w) ==
    /\ todo[w] = {}
    /\ todo' = [todo EXCEPT ![w] =
                   {[type |-> t, row |-> rules[t]] : t \in {u \in Types : rules[u].enabled}}]
    /\ UNCHANGED <<version, gen, rules, position, events, asked, saveVars>>

\* A quote that is stale, or that the risk gate turns down, is not recorded.
Skip(w, copy) ==
    /\ copy \in todo[w]
    /\ todo' = [todo EXCEPT ![w] = @ \ {copy}]
    /\ UNCHANGED <<version, gen, rules, position, events, asked, saveVars>>

\* evaluate_alert_transition for at_or_above and at_or_below.
Triggered(row, zone) == row.armed /\ zone = "reached" /\ ~row.reached
Armed(row, zone) == ~Triggered(row, zone) /\ (row.armed \/ zone = "away")

\* record_alert_evaluation writes what the worker made of its copy; it looks at
\* the row itself only when a trigger is to be recorded.  It waits for a row that
\* a save has locked, and which the save then deletes.
Evaluated(copy, zone) ==
    [rules EXCEPT ![copy.type] = Updated(@, @.enabled, Armed(copy.row, zone), zone = "reached")]

IsStored(copy) == rules[copy.type].gen = copy.row.gen /\ copy.row.gen \notin locked
Needed(type) == IF type = "option_entry" THEN "watching_entry" ELSE "open"
\* Mutant: only the position is looked at.
StillWanted_PositionOnly(copy) == position[rules[copy.type].version] = Needed(copy.type)
StillWanted(copy) ==
    LET row == rules[copy.type] IN
    row.enabled /\ row.armed /\ position[row.version] = Needed(copy.type)

RecordQuiet(w, copy, zone) ==
    /\ copy \in todo[w] /\ IsStored(copy)
    /\ ~Triggered(copy.row, zone)
    /\ rules' = Evaluated(copy, zone)
    /\ todo' = [todo EXCEPT ![w] = @ \ {copy}]
    /\ UNCHANGED <<version, gen, position, events, asked, saveVars>>

RecordRefused(w, copy) ==
    /\ copy \in todo[w] /\ IsStored(copy)
    /\ Triggered(copy.row, "reached") /\ ~StillWanted(copy)
    /\ todo' = [todo EXCEPT ![w] = @ \ {copy}]
    /\ UNCHANGED <<version, gen, rules, position, events, asked, saveVars>>

\* A trigger ends the watch of its rule, and a stop or the second target that of
\* the whole position.
\* Mutant: the first target ends the watch of the stop as well.
After_AnyExit(type, v, stored) ==
    IF type \in Exits
    THEN [t \in Types |-> IF stored[t].version = v THEN Disabled(stored[t]) ELSE stored[t]]
    ELSE [stored EXCEPT ![type] = Disabled(@)]
After(type, v, stored) ==
    IF type \in {"option_stop", "option_target_2"}
    THEN [t \in Types |-> IF stored[t].version = v THEN Disabled(stored[t]) ELSE stored[t]]
    ELSE [stored EXCEPT ![type] = Disabled(@)]
Moved(type, state) ==
    CASE type = "option_entry"    -> "entry_alerted"
      [] type = "option_stop"     -> "stopped"
      [] type = "option_target_1" -> state
      [] type = "option_target_2" -> "closed"

RecordTrigger(w, copy, time) ==
    LET v == rules[copy.type].version IN
    /\ copy \in todo[w] /\ IsStored(copy)
    /\ Triggered(copy.row, "reached") /\ StillWanted(copy)
    /\ rules' = After(copy.type, v, Evaluated(copy, "reached"))
    /\ events' = events \cup {[gen |-> copy.row.gen, type |-> copy.type, time |-> time]}
    /\ position' = [position EXCEPT ![v] = Moved(copy.type, @)]
    /\ todo' = [todo EXCEPT ![w] = @ \ {copy}]
    /\ UNCHANGED <<version, gen, asked, saveVars>>

\* The check ends before its list does: the worker dies, or a rule is gone and
\* record_alert_evaluation raises.
EndCheck(w) ==
    /\ todo[w] # {}
    /\ todo' = [todo EXCEPT ![w] = {}]
    /\ UNCHANGED <<version, gen, rules, position, events, asked, saveVars>>

-----------------------------------------------------------------------------
Evaluate(w) ==
    \/ ListEnabled(w) \/ EndCheck(w)
    \/ \E copy \in todo[w] :
          \/ Skip(w, copy) \/ RecordRefused(w, copy)
          \/ \E zone \in Zones : RecordQuiet(w, copy, zone)
          \/ \E time \in Times : RecordTrigger(w, copy, time)

OwnerNext ==
    \/ \E b \in Tabs : ReplaceCheck(b) \/ ReplaceRaises(b) \/ \E chosen \in SUBSET Types : Replace(b, chosen)
    \/ \E v \in Versions : ConfirmEntry(v)

Next ==
    \/ \E w \in Workers : Evaluate(w)
    \/ OwnerNext
    \/ SaveLocks \/ SavePlan

\* No replacement is under way while a version is saved.
Quiet == saving # 0 => \A b \in Tabs : asked[b] = 0
QuietNext == Next /\ Quiet'

Spec == Init /\ [][Next]_vars
QuietSpec == Init /\ [][QuietNext]_vars

-----------------------------------------------------------------------------
\* Stores "duplicate-safe events" (README.md): however two workers interleave
\* and whatever quotes they saw, a rule alerts once.
AlertsOnce == \A e, f \in events : e.gen = f.gen /\ e.type = f.type => e = f

\* Stop and target alerts come only after an entry alert of the same rules that
\* the owner confirmed, and a stop and a second target exclude each other.
ExitsFollowEntry ==
    \A e \in events :
        /\ e.type # "option_entry" => \E f \in events : f.gen = e.gen /\ f.type = "option_entry"
        /\ e.type = "option_stop" => ~\E f \in events : f.gen = e.gen /\ f.type = "option_target_2"

Alerted(t) == \E e \in events : e.gen = rules[t].gen /\ e.type = t

\* While a position is live its rules are there, and once it is open each of its
\* exit rules watches until it has alerted: no stale write of a worker, no
\* replacement and no saved version turns the stop off.
LiveIsWatched ==
    \A v \in Versions :
        /\ position[v] \in Live => rules["option_entry"].version = v /\ Alerted("option_entry")
        /\ position[v] = "open" =>
              \A t \in Exits : rules[t] # NoRule =>
                  rules[t].version = v /\ (Alerted(t) \/ (rules[t].enabled /\ rules[t].armed))

\* "Replacing a plan invalidates its prior alert rules" (README.md:388).
RulesAreOfActiveVersion == \A t \in Types : rules[t] # NoRule => rules[t].version = version

\* A live position moves only along its lifecycle: it is never deleted, reset or
\* sent back by a replacement, a new version or a worker's stale copy.
LiveMovesForward ==
    [][\A v \in Versions :
          /\ position[v] = "entry_alerted" => position'[v] \in Live
          /\ position[v] = "open" => position'[v] \in {"open", "stopped", "closed"}]_vars
=============================================================================
