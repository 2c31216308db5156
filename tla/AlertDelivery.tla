---------------------------- MODULE AlertDelivery ----------------------------
(***************************************************************************)
(* A stock alert rule, the alert workers that evaluate it, the events they *)
(* record and the delivery of the events to the chat.                      *)
(*                                                                         *)
(* A worker lists the rule, reads a quote, records what it made of its     *)
(* copy, claims the deliveries that are due and sends them one by one.     *)
(* Each SQL function is one step.  For a stock rule the recording looks at *)
(* nothing but the identity of the row; an event is its quote time, which  *)
(* with the rule makes the idempotency key.  Two workers overlap while one *)
(* is redeployed.                                                          *)
(***************************************************************************)
EXTENDS Naturals, FiniteSets

CONSTANTS
    Workers,      \* alert worker processes
    MaxAttempts,  \* email_attempts < 5 in the claim
    MaxTime,      \* bound of the quote times
    MaxFaults     \* bound of the deaths, lost answers and calls that raise

ASSUME AttemptAssumption == MaxAttempts \in Nat \ {0}
ASSUME BoundAssumption == MaxTime \in Nat /\ MaxFaults \in Nat

Times == 1..MaxTime
Kinds == {"crosses", "at_or", "range"}
\* A price is at the level or past it (or in the range), near it, or away.
Zones == {"reached", "near", "away"}
Copies == [armed : BOOLEAN, last : Zones \cup {"none"}]
Statuses == {"none", "pending", "sending", "sent", "failed"}
NoTime == 0

VARIABLES
    kind,     \* the comparison of the rule
    rule,     \* its row: armed, and where last_price was
    market,   \* time and zone of the quote that is offered
    pc,       \* what each worker is about to do
    copy,     \* the row each worker has listed
    quote,    \* the quote each worker has read
    status,   \* email_status of each event
    attempts, \* email_attempts
    due,      \* whether the claim is older than its lease or its back-off
    batch,    \* the claimed events each worker has not come to
    current,  \* the event each worker is reporting on
    reached,  \* history: events that reached the chat
    repeated, \* history: events that reached it again
    excused,  \* history: events with a lost answer, report or lease
    alerted,  \* history: the rule has alerted
    cleared,  \* history: a re-arming quote was recorded after the last event
    overlap,  \* history: two checks overlapped
    faults

ruleVars == <<kind, rule, market, copy, quote, alerted, cleared, overlap>>
chatVars == <<reached, repeated>>
eventVars == <<status, attempts, due, chatVars, excused>>
vars == <<ruleVars, eventVars, pc, batch, current, faults>>

TypeOK ==
    /\ kind \in Kinds
    /\ rule \in Copies
    /\ market \in [time : 0..MaxTime, zone : Zones]
    /\ pc \in [Workers -> {"idle", "listed", "quoted", "claim", "deliver", "report_sent", "report_failed"}]
    /\ copy \in [Workers -> Copies]
    /\ quote \in [Workers -> [time : 0..MaxTime, zone : Zones]]
    /\ status \in [Times -> Statuses]
    /\ attempts \in [Times -> 0..MaxAttempts]
    /\ due \in [Times -> BOOLEAN]
    /\ batch \in [Workers -> SUBSET Times]
    /\ current \in [Workers -> Times \cup {NoTime}]
    /\ reached \subseteq Times /\ repeated \subseteq reached
    /\ excused \subseteq Times
    /\ alerted \in BOOLEAN /\ cleared \in BOOLEAN /\ overlap \in BOOLEAN
    /\ faults \in 0..MaxFaults

NewRule == [armed |-> TRUE, last |-> "none"]
FiredRule == [armed |-> FALSE, last |-> "reached"]
NoQuote == [time |-> 0, zone |-> "near"]

Init ==
    /\ kind \in Kinds
    /\ rule \in {NewRule, FiredRule}
    /\ market = NoQuote
    /\ pc = [w \in Workers |-> "idle"]
    /\ copy = [w \in Workers |-> NewRule]
    /\ quote = [w \in Workers |-> NoQuote]
    /\ status = [t \in Times |-> "none"]
    /\ attempts = [t \in Times |-> 0]
    /\ due = [t \in Times |-> FALSE]
    /\ batch = [w \in Workers |-> {}]
    /\ current = [w \in Workers |-> NoTime]
    /\ reached = {} /\ repeated = {}
    /\ excused = {}
    /\ alerted = (rule = FiredRule) /\ cleared = FALSE /\ overlap = FALSE
    /\ faults = 0

Goto(w, label) == pc' = [pc EXCEPT ![w] = label]
Fault == faults < MaxFaults /\ faults' = faults + 1

-----------------------------------------------------------------------------
\* The price moves.
Market(zone) ==
    /\ market.time < MaxTime
    /\ market' = [time |-> market.time + 1, zone |-> zone]
    /\ UNCHANGED <<kind, rule, copy, quote, alerted, cleared, overlap, eventVars, pc, batch, current, faults>>

\* check_alerts begins: the rule is listed.
List(w) ==
    /\ pc[w] = "idle" /\ market.time > 0
    /\ copy' = [copy EXCEPT ![w] = rule]
    /\ overlap' = (overlap \/ \E v \in Workers \ {w} : pc[v] \in {"listed", "quoted"})
    /\ Goto(w, "listed")
    /\ UNCHANGED <<kind, rule, market, quote, alerted, cleared, eventVars, batch, current, faults>>

ReadQuote(w) ==
    /\ pc[w] = "listed"
    /\ quote' = [quote EXCEPT ![w] = market]
    /\ Goto(w, "quoted")
    /\ UNCHANGED <<kind, rule, market, copy, alerted, cleared, overlap, eventVars, batch, current, faults>>

\* A quote that is stale or could not be fetched is not recorded.
SkipStale(w) ==
    /\ pc[w] = "listed"
    /\ copy' = [copy EXCEPT ![w] = NewRule]
    /\ Goto(w, "claim")
    /\ UNCHANGED <<kind, rule, market, quote, alerted, cleared, overlap, eventVars, batch, current, faults>>

\* evaluate_alert_transition for crosses_up and crosses_down, at_or_above and
\* at_or_below, and enters_range.  A range has no re-arm buffer.
Triggered(row, zone) ==
    /\ row.armed /\ zone = "reached" /\ row.last # "reached"
    /\ kind = "crosses" => row.last # "none"
Rearms(zone) == zone = "away" \/ (kind = "range" /\ zone = "near")
\* Mutant: there is no re-arm buffer.
Armed_NoBuffer(row, zone) == ~Triggered(row, zone) /\ (row.armed \/ zone # "reached")
Armed(row, zone) == ~Triggered(row, zone) /\ (row.armed \/ Rearms(zone))

\* record_alert_evaluation of a stock rule.  An event whose key is there already
\* is not inserted again.
Record(w) ==
    LET zone == quote[w].zone
        time == quote[w].time
        isNew == Triggered(copy[w], zone) /\ status[time] = "none" IN
    /\ pc[w] = "quoted"
    /\ rule' = [armed |-> Armed(copy[w], zone), last |-> zone]
    /\ status' = [status EXCEPT ![time] = IF isNew THEN "pending" ELSE @]
    /\ alerted' = (alerted \/ isNew)
    /\ cleared' = IF isNew THEN FALSE ELSE (cleared \/ Rearms(zone))
    /\ Goto(w, "claim")
    /\ copy' = [copy EXCEPT ![w] = NewRule] /\ quote' = [quote EXCEPT ![w] = NoQuote]
    /\ UNCHANGED <<kind, market, overlap, attempts, due, chatVars, excused, batch, current, faults>>

-----------------------------------------------------------------------------
\* claim_alert_email_deliveries.
\* Mutant: a claim takes what another worker has just claimed.
Claimable_NoLease(t) ==
    /\ attempts[t] < MaxAttempts
    /\ status[t] \in {"pending", "sending"} \/ (status[t] = "failed" /\ due[t])
\* Mutant: a delivery whose worker died is never taken up again.
Claimable_NoTakeOver(t) ==
    /\ attempts[t] < MaxAttempts
    /\ status[t] = "pending" \/ (status[t] = "failed" /\ due[t])
Claimable(t) ==
    /\ attempts[t] < MaxAttempts
    /\ status[t] = "pending" \/ (status[t] \in {"sending", "failed"} /\ due[t])

Claim(w) ==
    LET claimed == {t \in Times : Claimable(t)} IN
    /\ pc[w] = "claim"
    /\ status' = [t \in Times |-> IF t \in claimed THEN "sending" ELSE status[t]]
    /\ due' = [t \in Times |-> due[t] /\ t \notin claimed]
    /\ batch' = [batch EXCEPT ![w] = claimed]
    /\ Goto(w, "deliver")
    /\ UNCHANGED <<ruleVars, attempts, chatVars, excused, current, faults>>

\* The lease of a claim runs out, or the back-off of a failed one.
Held(t) == \E w \in Workers : t \in batch[w] \/ current[w] = t
Elapse(t) ==
    /\ status[t] \in {"sending", "failed"} /\ ~due[t]
    /\ due' = [due EXCEPT ![t] = TRUE]
    /\ excused' = IF status[t] = "sending" /\ Held(t) THEN excused \cup {t} ELSE excused
    /\ UNCHANGED <<ruleVars, status, attempts, chatVars, pc, batch, current, faults>>

EndCheck(w) ==
    /\ pc[w] = "deliver" /\ batch[w] = {}
    /\ Goto(w, "idle")
    /\ UNCHANGED <<ruleVars, eventVars, batch, current, faults>>

\* send_alert_message: the chat has it, or has not, or has it and the answer is lost.
Take(w, t) ==
    /\ pc[w] = "deliver" /\ t \in batch[w]
    /\ batch' = [batch EXCEPT ![w] = @ \ {t}]
    /\ current' = [current EXCEPT ![w] = t]
Reach(t) ==
    /\ reached' = reached \cup {t}
    /\ repeated' = IF t \in reached THEN repeated \cup {t} ELSE repeated

SendOk(w, t) ==
    /\ Take(w, t)
    /\ Reach(t)
    /\ Goto(w, "report_sent")
    /\ UNCHANGED <<ruleVars, status, attempts, due, excused, faults>>

SendFails(w, t) ==
    /\ Take(w, t)
    /\ Goto(w, "report_failed")
    /\ UNCHANGED <<ruleVars, eventVars, faults>>

SendAnswerLost(w, t) ==
    /\ Take(w, t) /\ Fault
    /\ Reach(t)
    /\ excused' = excused \cup {t}
    /\ Goto(w, "report_failed")
    /\ UNCHANGED <<ruleVars, status, attempts, due>>

\* record_alert_email_delivery changes a row only while it is being sent.
Reported(t, outcome) ==
    IF status[t] = "sending"
    THEN /\ status' = [status EXCEPT ![t] = outcome]
         /\ attempts' = [attempts EXCEPT ![t] = @ + 1]
         /\ due' = [due EXCEPT ![t] = FALSE]
    ELSE UNCHANGED <<status, attempts, due>>

\* Mutant: a failure is reported as a success.
Outcome_AlwaysSent(label) == "sent"
Outcome(label) == IF label = "report_sent" THEN "sent" ELSE "failed"

Report(w) ==
    /\ pc[w] \in {"report_sent", "report_failed"}
    /\ Reported(current[w], Outcome(pc[w]))
    /\ current' = [current EXCEPT ![w] = NoTime]
    /\ Goto(w, "deliver")
    /\ UNCHANGED <<ruleVars, chatVars, excused, batch, faults>>

\* The report of a success raises, having been stored or not: the handler then
\* reports a failure.
ReportRaises(w) ==
    /\ pc[w] = "report_sent" /\ Fault
    /\ Reported(current[w], "sent") \/ UNCHANGED <<status, attempts, due>>
    /\ excused' = excused \cup {current[w]}
    /\ Goto(w, "report_failed")
    /\ UNCHANGED <<ruleVars, chatVars, batch, current>>

\* The worker dies, or a call raises that ends the check.  Its batch is left.
Leave(w) ==
    /\ pc[w] # "idle" /\ Fault
    /\ \/ UNCHANGED <<status, attempts, due>>
       \/ pc[w] = "report_failed" /\ Reported(current[w], "failed")
    /\ excused' = IF pc[w] \in {"report_sent", "report_failed"}
                  THEN excused \cup {current[w]} ELSE excused
    /\ batch' = [batch EXCEPT ![w] = {}]
    /\ current' = [current EXCEPT ![w] = NoTime]
    /\ copy' = [copy EXCEPT ![w] = NewRule] /\ quote' = [quote EXCEPT ![w] = NoQuote]
    /\ Goto(w, "idle")
    /\ UNCHANGED <<kind, rule, market, alerted, cleared, overlap, chatVars>>

-----------------------------------------------------------------------------
Work(w) ==
    \/ List(w) \/ ReadQuote(w) \/ SkipStale(w) \/ Record(w)
    \/ Claim(w) \/ EndCheck(w) \/ Report(w)
    \/ \E t \in Times : SendOk(w, t) \/ SendFails(w, t)

Next ==
    \/ \E w \in Workers :
          Work(w) \/ ReportRaises(w) \/ Leave(w) \/ \E t \in Times : SendAnswerLost(w, t)
    \/ \E t \in Times : Elapse(t)
    \/ \E zone \in Zones : Market(zone)

\* A worker never waits for another one, and time passes.
Fairness ==
    /\ \A w \in Workers : WF_vars(Work(w))
    /\ \A t \in Times : WF_vars(Elapse(t))

Spec == Init /\ [][Next]_vars /\ Fairness

-----------------------------------------------------------------------------
\* An event stored as sent did reach the chat, whatever late reports arrive.
SentWasDelivered == \A t \in Times : status[t] = "sent" => t \in reached

\* The owner is told twice only if an answer or a report was lost, a worker left
\* while sending, or a lease ran out under a worker that still had the event.
ToldOnceUnlessExcused == repeated \subseteq excused

\* A delivery stored as sent is never sent again or turned into a failure by the
\* report of a worker whose lease was over.
SentIsFinal == [][\A t \in Times : status[t] = "sent" => status'[t] = "sent"]_vars

\* "Duplicate-safe events" (README.md:37): without overlapping checks a rule
\* alerts again only after a quote that re-armed it was recorded.
AlertsAgainAfterRearm ==
    [][\A t \in Times :
          status[t] = "none" /\ status'[t] = "pending" /\ alerted =>
              overlap \/ cleared]_vars

Settled(t) == status[t] = "sent" \/ (status[t] = "failed" /\ attempts[t] = MaxAttempts)

\* "Sends claimed events ... with bounded retries" (README.md:398): every event
\* ends sent, or failed with its attempts used up.
EventsSettle == \A t \in Times : status[t] = "pending" ~> Settled(t)
=============================================================================
