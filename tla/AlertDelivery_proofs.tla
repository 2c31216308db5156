------------------------- MODULE AlertDelivery_proofs -------------------------
(***************************************************************************)
(* For any number of alert workers, times, attempts and faults: an event   *)
(* stored as sent reached the chat and stays so, the owner is told twice   *)
(* only with an excuse, and a rule alerts again only after a re-arming     *)
(* quote unless checks overlapped.                                         *)
(***************************************************************************)
EXTENDS AlertDelivery, TLAPS

Labels == {"idle", "listed", "quoted", "claim", "deliver", "report_sent", "report_failed"}
Reporting == {"report_sent", "report_failed"}
Holds(w, t) == t \in batch[w] \/ current[w] = t

\* Only a worker that delivers has claimed events, and only one that reports
\* has a current one.
Hands ==
    /\ \A w \in Workers : pc[w] \notin Reporting => current[w] = NoTime
    /\ \A w \in Workers : pc[w] \in Reporting => current[w] \in Times /\ current[w] \notin batch[w]
    /\ \A w \in Workers : pc[w] \notin Reporting \cup {"deliver"} => batch[w] = {}
    /\ \A w \in Workers : pc[w] = "report_sent" => current[w] \in reached
    /\ \A w \in Workers : pc[w] = "listed" => market.time \in Times
    /\ \A w \in Workers : pc[w] = "quoted" => quote[w].time \in Times

MayBeSent == \A t \in Times : status[t] = "sending" => attempts[t] < MaxAttempts

\* Without an excuse an event has one holder, whose claim still runs.
OneHolder ==
    \A t \in Times \ excused : \A w \in Workers :
        Holds(w, t) => /\ status[t] = "sending" /\ ~due[t]
                       /\ \A v \in Workers : Holds(v, t) => v = w

\* Without an excuse what reached the chat is stored or about to be.
ReachedIsStored ==
    \A t \in reached \ excused :
        status[t] = "sent" \/ \E w \in Workers : current[w] = t /\ pc[w] = "report_sent"

\* Without overlap a copy that is being checked is the row, and the row of a
\* rule that alerted is armed only after a re-arming quote.
Checking(w) == pc[w] \in {"listed", "quoted"}
CopyIsRow ==
    ~overlap => \A w \in Workers : Checking(w) =>
        /\ copy[w] = rule
        /\ \A v \in Workers : Checking(v) => v = w
ArmedAfterRearm == ~overlap /\ alerted /\ ~cleared => ~rule.armed

Sending == TypeOK /\ Hands /\ MayBeSent /\ SentWasDelivered
IInv == Sending /\ OneHolder /\ ReachedIsStored /\ ToldOnceUnlessExcused /\ CopyIsRow /\ ArmedAfterRearm

-----------------------------------------------------------------------------
LEMMA InitInv == Init => IInv
<1> SUFFICES ASSUME Init PROVE IInv
  OBVIOUS
<1> USE AttemptAssumption, BoundAssumption DEF Init
<1>1. TypeOK
  <2>0. alerted \in BOOLEAN
    BY Zenon
  <2>1. rule \in Copies /\ copy \in [Workers -> Copies] /\ kind \in Kinds /\ cleared \in BOOLEAN /\ overlap \in BOOLEAN
    <3>1. NewRule \in Copies /\ FiredRule \in Copies
      BY DEF Copies, NewRule, FiredRule, Zones
    <3>2. rule \in Copies
      BY <3>1
    <3>3. copy \in [Workers -> Copies]
      BY <3>1
    <3> QED
      BY <3>2, <3>3
  <2>2. market \in [time : 0..MaxTime, zone : Zones] /\ quote \in [Workers -> [time : 0..MaxTime, zone : Zones]]
    BY DEF NoQuote, Zones
  <2>3. /\ status \in [Times -> Statuses] /\ attempts \in [Times -> 0..MaxAttempts] /\ due \in [Times -> BOOLEAN]
        /\ faults \in 0..MaxFaults
    BY DEF Statuses
  <2>4. /\ pc \in [Workers -> {"idle", "listed", "quoted", "claim", "deliver", "report_sent", "report_failed"}]
        /\ batch \in [Workers -> SUBSET Times] /\ current \in [Workers -> Times \cup {NoTime}]
        /\ reached \subseteq Times /\ repeated \subseteq reached /\ excused \subseteq Times
    OBVIOUS
  <2> QED
    BY <2>0, <2>1, <2>2, <2>3, <2>4 DEF TypeOK
<1>2. Hands
  BY DEF Hands, Reporting
<1>3. MayBeSent /\ SentWasDelivered
  BY DEF MayBeSent, SentWasDelivered
<1>4. OneHolder
  BY DEF OneHolder, Holds, Times, NoTime
<1>5. ReachedIsStored /\ ToldOnceUnlessExcused
  BY DEF ReachedIsStored, ToldOnceUnlessExcused
<1>6. CopyIsRow
  BY DEF CopyIsRow, Checking
<1>7. ArmedAfterRearm
  <2>1. alerted => rule = FiredRule
    BY Zenon
  <2> QED
    BY <2>1 DEF ArmedAfterRearm, FiredRule
<1> QED
  BY <1>1, <1>2, <1>3, <1>4, <1>5, <1>6, <1>7 DEF IInv, Sending

-----------------------------------------------------------------------------
LEMMA TypeStep == Sending /\ [Next]_vars => TypeOK'
<1> SUFFICES ASSUME Sending, [Next]_vars PROVE TypeOK'
  OBVIOUS
<1> USE AttemptAssumption, BoundAssumption
<1> DEFINE RuleOK == /\ kind \in Kinds /\ rule \in Copies /\ market \in [time : 0..MaxTime, zone : Zones]
                     /\ copy \in [Workers -> Copies]
                     /\ quote \in [Workers -> [time : 0..MaxTime, zone : Zones]]
                     /\ alerted \in BOOLEAN /\ cleared \in BOOLEAN /\ overlap \in BOOLEAN
           PcOK == pc \in [Workers -> {"idle", "listed", "quoted", "claim", "deliver", "report_sent", "report_failed"}]
           EventOK == /\ status \in [Times -> Statuses] /\ attempts \in [Times -> 0..MaxAttempts]
                      /\ due \in [Times -> BOOLEAN]
           HandOK == batch \in [Workers -> SUBSET Times] /\ current \in [Workers -> Times \cup {NoTime}]
           ChatOK == reached \subseteq Times /\ repeated \subseteq reached
           FaultOK == faults \in 0..MaxFaults
<1> SUFFICES RuleOK' /\ PcOK' /\ EventOK' /\ HandOK' /\ ChatOK' /\ (excused \subseteq Times)' /\ FaultOK'
  BY DEF TypeOK
<1>0. RuleOK /\ PcOK /\ EventOK /\ HandOK /\ ChatOK /\ excused \subseteq Times /\ FaultOK
  BY DEF Sending, TypeOK
<1>1. UNCHANGED ruleVars => RuleOK'
  BY <1>0 DEF ruleVars
<1>2. ASSUME NEW w \in Workers, NEW label \in {"idle", "listed", "quoted", "claim", "deliver", "report_sent", "report_failed"}, Goto(w, label)
      PROVE  PcOK'
  BY <1>0, <1>2 DEF Goto
<1>3. UNCHANGED <<status, attempts, due>> => EventOK'
  BY <1>0
<1>4. UNCHANGED <<batch, current>> => HandOK'
  BY <1>0
<1>5. UNCHANGED chatVars => ChatOK'
  BY <1>0 DEF chatVars
<1>6. UNCHANGED faults \/ Fault => FaultOK'
  BY <1>0 DEF Fault
<1>7. ASSUME NEW t \in Times, Reach(t) PROVE ChatOK'
  BY <1>0, <1>7 DEF Reach
<1>8. ASSUME NEW w \in Workers, NEW t \in Times, Take(w, t) PROVE HandOK'
  BY <1>0, <1>8 DEF Take
<1>9. ASSUME NEW t \in Times, NEW outcome \in {"sent", "failed"}, Reported(t, outcome) PROVE EventOK'
  <2>1. CASE status[t] = "sending"
    <3>1. attempts[t] < MaxAttempts
      BY <2>1 DEF Sending, MayBeSent
    <3>2. /\ status' = [status EXCEPT ![t] = outcome] /\ due' = [due EXCEPT ![t] = FALSE]
          /\ attempts' = [attempts EXCEPT ![t] = @ + 1]
      BY <1>9, <2>1 DEF Reported
    <3>3. attempts[t] + 1 \in 0..MaxAttempts
      BY <1>0, <3>1
    <3>4. outcome \in Statuses
      BY DEF Statuses
    <3> QED
      BY <1>0, <3>2, <3>3, <3>4
  <2>2. CASE status[t] # "sending"
    BY <1>3, <1>9, <2>2 DEF Reported
  <2> QED
    BY <2>1, <2>2
<1>10. NewRule \in Copies /\ NoQuote \in [time : 0..MaxTime, zone : Zones]
  BY DEF NewRule, NoQuote, Copies, Zones
<1>11. \A w \in Workers : pc[w] \in Reporting => current[w] \in Times
  BY DEF Sending, Hands
<1>12. ASSUME NEW zone \in Zones, Market(zone) PROVE TypeOK'
  <2>1. RuleOK'
    BY <1>0, <1>12 DEF Market
  <2> QED
    BY <1>0, <1>12, <2>1, <1>3, <1>4, <1>5, <1>6 DEF Market, eventVars, TypeOK
<1>13. ASSUME NEW w \in Workers, List(w) PROVE TypeOK'
  <2>0. overlap' \in BOOLEAN
    BY <1>13, Zenon DEF List
  <2>1. RuleOK'
    BY <1>0, <1>13, <2>0 DEF List
  <2>2. PcOK'
    BY <1>2, <1>13 DEF List
  <2> QED
    BY <1>0, <1>13, <2>1, <2>2, <1>3, <1>4, <1>5, <1>6 DEF List, eventVars, TypeOK
<1>14. ASSUME NEW w \in Workers, ReadQuote(w) PROVE TypeOK'
  <2>1. RuleOK'
    BY <1>0, <1>14 DEF ReadQuote
  <2>2. PcOK'
    BY <1>2, <1>14 DEF ReadQuote
  <2> QED
    BY <1>0, <1>14, <2>1, <2>2, <1>3, <1>4, <1>5, <1>6 DEF ReadQuote, eventVars, TypeOK
<1>15. ASSUME NEW w \in Workers, SkipStale(w) PROVE TypeOK'
  <2>1. RuleOK'
    BY <1>0, <1>10, <1>15 DEF SkipStale
  <2>2. PcOK'
    BY <1>2, <1>15 DEF SkipStale
  <2> QED
    BY <1>0, <1>15, <2>1, <2>2, <1>3, <1>4, <1>5, <1>6 DEF SkipStale, eventVars, TypeOK
<1>16. ASSUME NEW w \in Workers, Record(w) PROVE TypeOK'
  <2>1. quote[w].zone \in Zones /\ quote[w].time \in Times
    BY <1>0, <1>16 DEF Record, Sending, Hands
  <2>2. rule' \in Copies
    <3>1. Armed(copy[w], quote[w].zone) \in BOOLEAN
      BY Zenon DEF Armed
    <3>2. rule' = [armed |-> Armed(copy[w], quote[w].zone), last |-> quote[w].zone]
      BY <1>16 DEF Record
    <3> QED
      BY <2>1, <3>1, <3>2 DEF Copies
  <2>3. alerted' \in BOOLEAN /\ cleared' \in BOOLEAN
    <3>1. Triggered(copy[w], quote[w].zone) \in BOOLEAN /\ Rearms(quote[w].zone) \in BOOLEAN
      BY Zenon DEF Triggered, Rearms
    <3> QED
      BY <1>0, <1>16, <3>1, Zenon DEF Record
  <2>4. RuleOK'
    BY <1>0, <1>10, <1>16, <2>2, <2>3 DEF Record
  <2>5. EventOK'
    BY <1>0, <1>16, <2>1 DEF Record, Statuses
  <2>6. PcOK'
    BY <1>2, <1>16 DEF Record
  <2> QED
    BY <1>0, <1>16, <2>4, <2>5, <2>6, <1>4, <1>5, <1>6 DEF Record, TypeOK
<1>17. ASSUME NEW w \in Workers, Claim(w) PROVE TypeOK'
  <2>1. EventOK'
    <3>1. \A t \in Times : (due[t] /\ t \notin {u \in Times : Claimable(u)}) \in BOOLEAN
      BY Zenon
    <3>2. due' \in [Times -> BOOLEAN]
      BY <1>17, <3>1, Zenon DEF Claim
    <3> QED
      BY <1>0, <1>17, <3>2 DEF Claim, Statuses
  <2>2. HandOK'
    BY <1>0, <1>17 DEF Claim
  <2>3. PcOK'
    BY <1>2, <1>17 DEF Claim
  <2> QED
    BY <1>0, <1>17, <2>1, <2>2, <2>3, <1>1, <1>5, <1>6 DEF Claim, TypeOK
<1>18. ASSUME NEW w \in Workers, EndCheck(w) PROVE TypeOK'
  <2>1. PcOK'
    BY <1>2, <1>18 DEF EndCheck
  <2> QED
    BY <1>0, <1>18, <2>1, <1>1, <1>3, <1>4, <1>5, <1>6 DEF EndCheck, eventVars, TypeOK
<1>19. ASSUME NEW w \in Workers, Report(w) PROVE TypeOK'
  <2>1. EventOK'
    BY <1>9, <1>11, <1>19 DEF Report, Outcome, Reporting
  <2>2. HandOK'
    BY <1>0, <1>19 DEF Report
  <2>3. PcOK'
    BY <1>2, <1>19 DEF Report
  <2> QED
    BY <1>0, <1>19, <2>1, <2>2, <2>3, <1>1, <1>5, <1>6 DEF Report, TypeOK
<1>20. ASSUME NEW w \in Workers, NEW t \in Times, SendOk(w, t) \/ SendAnswerLost(w, t) PROVE TypeOK'
  <2>1. PcOK'
    BY <1>2, <1>20 DEF SendOk, SendAnswerLost
  <2>2. HandOK' /\ ChatOK'
    BY <1>7, <1>8, <1>20 DEF SendOk, SendAnswerLost
  <2> QED
    BY <1>0, <1>20, <2>1, <2>2, <1>1, <1>3, <1>6 DEF SendOk, SendAnswerLost, TypeOK
<1>21. ASSUME NEW w \in Workers, NEW t \in Times, SendFails(w, t) PROVE TypeOK'
  <2>1. PcOK'
    BY <1>2, <1>21 DEF SendFails
  <2>2. HandOK'
    BY <1>8, <1>21 DEF SendFails
  <2> QED
    BY <1>0, <1>21, <2>1, <2>2, <1>1, <1>3, <1>5, <1>6 DEF SendFails, eventVars, TypeOK
<1>22. ASSUME NEW w \in Workers, ReportRaises(w) PROVE TypeOK'
  <2>1. EventOK' /\ current[w] \in Times
    BY <1>3, <1>9, <1>11, <1>22 DEF ReportRaises, Reporting
  <2>2. PcOK'
    BY <1>2, <1>22 DEF ReportRaises
  <2> QED
    BY <1>0, <1>22, <2>1, <2>2, <1>1, <1>4, <1>5, <1>6 DEF ReportRaises, TypeOK
<1>23. ASSUME NEW w \in Workers, Leave(w) PROVE TypeOK'
  <2>1. EventOK' /\ (excused \subseteq Times)'
    BY <1>0, <1>3, <1>9, <1>11, <1>23 DEF Leave, Reporting
  <2>2. PcOK' /\ HandOK'
    BY <1>0, <1>2, <1>23 DEF Leave
  <2>3. RuleOK'
    BY <1>0, <1>10, <1>23 DEF Leave
  <2> QED
    BY <1>0, <1>23, <2>1, <2>2, <2>3, <1>5, <1>6 DEF Leave, TypeOK
<1>24. ASSUME NEW t \in Times, Elapse(t) PROVE TypeOK'
  <2>1. EventOK'
    BY <1>0, <1>24 DEF Elapse
  <2> QED
    BY <1>0, <1>24, <2>1, <1>1, <1>4, <1>5, <1>6 DEF Elapse, TypeOK
<1>25. ASSUME UNCHANGED vars PROVE TypeOK'
  BY <1>0, <1>25, <1>1, <1>3, <1>4, <1>5, <1>6 DEF vars, eventVars, TypeOK
<1>26. ASSUME NEW w \in Workers, Work(w) \/ ReportRaises(w) \/ Leave(w) \/ (\E t \in Times : SendAnswerLost(w, t))
       PROVE  TypeOK'
  BY <1>26, <1>13, <1>14, <1>15, <1>16, <1>17, <1>18, <1>19, <1>20, <1>21, <1>22, <1>23, Zenon DEF Work
<1>27. TypeOK'
  BY <1>12, <1>24, <1>25, <1>26 DEF Next
<1> QED
  BY <1>27 DEF TypeOK

-----------------------------------------------------------------------------
\* A step of a worker that is not delivering, on no claimed event.
LEMMA HandsStay ==
    ASSUME Sending, NEW w \in Workers, NEW label \in Labels, Goto(w, label),
           label \notin Reporting, pc[w] \notin Reporting, label = "deliver" \/ batch[w] = {},
           UNCHANGED <<batch, current, reached, market>>, label = "listed" => market.time \in Times,
           label = "quoted" => quote'[w].time \in Times, \A v \in Workers \ {w} : quote'[v] = quote[v]
    PROVE  Hands'
<1>1. /\ batch' = batch /\ current' = current /\ reached' = reached /\ market' = market /\ pc' = [pc EXCEPT ![w] = label]
      /\ pc \in [Workers -> Labels]
  BY DEF Goto, Sending, TypeOK, Labels
<1> QED
  BY <1>1 DEF Sending, Hands, Reporting, Labels

LEMMA HandsStep == Sending /\ [Next]_vars => Hands'
<1> SUFFICES ASSUME Sending, [Next]_vars PROVE Hands'
  OBVIOUS
<1>0. TypeOK /\ Hands /\ pc \in [Workers -> Labels]
  BY DEF Sending, TypeOK, Labels
<1>1. ASSUME UNCHANGED <<pc, batch, current, reached, quote>>, UNCHANGED market \/ market'.time \in Times PROVE Hands'
  BY <1>0, <1>1 DEF Hands
<1>2. ASSUME NEW zone \in Zones, Market(zone) PROVE Hands'
  <2>1. market'.time \in Times
    BY <1>0, <1>2, BoundAssumption DEF Market, TypeOK, Times
  <2> QED
    BY <1>1, <1>2, <2>1 DEF Market, eventVars, chatVars
<1>3. ASSUME NEW w \in Workers, List(w) PROVE Hands'
  <2>1. Goto(w, "listed") /\ UNCHANGED <<batch, current, reached, market, quote>> /\ pc[w] = "idle" /\ market.time \in Times
    BY <1>0, <1>3, BoundAssumption DEF List, eventVars, chatVars, TypeOK, Times
  <2>2. batch[w] = {}
    BY <1>0, <2>1 DEF Hands, Reporting
  <2> QED
    BY <2>1, <2>2, HandsStay DEF Labels, Reporting
<1>4. ASSUME NEW w \in Workers, ReadQuote(w) PROVE Hands'
  <2>1. Goto(w, "quoted") /\ UNCHANGED <<batch, current, reached, market>> /\ pc[w] = "listed" /\ quote' = [quote EXCEPT ![w] = market]
    BY <1>4 DEF ReadQuote, eventVars, chatVars
  <2>2. batch[w] = {}
    BY <1>0, <2>1 DEF Hands, Reporting
  <2>3. market.time \in Times
    BY <1>0, <2>1 DEF Hands
  <2>4. quote'[w].time \in Times /\ \A v \in Workers \ {w} : quote'[v] = quote[v]
    BY <1>0, <2>1, <2>3 DEF TypeOK
  <2> QED
    BY <2>1, <2>2, <2>4, HandsStay DEF Labels, Reporting
<1>5. ASSUME NEW w \in Workers, SkipStale(w) PROVE Hands'
  <2>1. Goto(w, "claim") /\ UNCHANGED <<batch, current, reached, market, quote>> /\ pc[w] = "listed"
    BY <1>5 DEF SkipStale, eventVars, chatVars
  <2>2. batch[w] = {}
    BY <1>0, <2>1 DEF Hands, Reporting
  <2> QED
    BY <2>1, <2>2, HandsStay DEF Labels, Reporting
<1>6. ASSUME NEW w \in Workers, Record(w) PROVE Hands'
  <2>1. /\ Goto(w, "claim") /\ UNCHANGED <<batch, current, reached, market>> /\ pc[w] = "quoted"
        /\ quote' = [quote EXCEPT ![w] = NoQuote]
    BY <1>6 DEF Record, chatVars
  <2>2. batch[w] = {} /\ \A v \in Workers \ {w} : quote'[v] = quote[v]
    BY <1>0, <2>1 DEF Hands, Reporting, TypeOK
  <2> QED
    BY <2>1, <2>2, HandsStay DEF Labels, Reporting
<1>7. ASSUME NEW w \in Workers, Claim(w) PROVE Hands'
  <2>1. /\ pc' = [pc EXCEPT ![w] = "deliver"] /\ UNCHANGED <<current, reached, market, quote>> /\ pc[w] = "claim"
        /\ \E claimed : batch' = [batch EXCEPT ![w] = claimed]
    BY <1>7 DEF Claim, Goto, chatVars, ruleVars
  <2> QED
    BY <1>0, <2>1 DEF Hands, Reporting, TypeOK, Labels
<1>8. ASSUME NEW w \in Workers, EndCheck(w) PROVE Hands'
  <2>1. Goto(w, "idle") /\ UNCHANGED <<batch, current, reached, market, quote>> /\ pc[w] = "deliver" /\ batch[w] = {}
    BY <1>8 DEF EndCheck, eventVars, chatVars, ruleVars
  <2> QED
    BY <2>1, HandsStay DEF Labels, Reporting
<1>9. ASSUME NEW w \in Workers, Report(w) PROVE Hands'
  <2>1. /\ pc' = [pc EXCEPT ![w] = "deliver"] /\ UNCHANGED <<batch, reached, market, quote>>
        /\ current' = [current EXCEPT ![w] = NoTime] /\ pc[w] \in Reporting
    BY <1>9 DEF Report, Goto, chatVars, ruleVars, Reporting
  <2> QED
    BY <1>0, <2>1 DEF Hands, Reporting, TypeOK, Labels
<1>10. ASSUME NEW w \in Workers, NEW t \in Times, SendOk(w, t) \/ SendFails(w, t) \/ SendAnswerLost(w, t) PROVE Hands'
  <2>1. /\ batch' = [batch EXCEPT ![w] = @ \ {t}] /\ current' = [current EXCEPT ![w] = t]
        /\ UNCHANGED <<market, quote>> /\ reached \subseteq reached' /\ pc[w] = "deliver"
        /\ \/ pc' = [pc EXCEPT ![w] = "report_failed"]
           \/ pc' = [pc EXCEPT ![w] = "report_sent"] /\ t \in reached'
    BY <1>10 DEF SendOk, SendFails, SendAnswerLost, Take, Reach, Goto, eventVars, chatVars, ruleVars
  <2> QED
    BY <1>0, <2>1 DEF Hands, Reporting, TypeOK, Labels
<1>11. ASSUME NEW w \in Workers, ReportRaises(w) PROVE Hands'
  <2>1. /\ pc' = [pc EXCEPT ![w] = "report_failed"] /\ UNCHANGED <<batch, current, reached, market, quote>>
        /\ pc[w] = "report_sent"
    BY <1>11 DEF ReportRaises, Goto, chatVars, ruleVars
  <2> QED
    BY <1>0, <2>1 DEF Hands, Reporting, Labels
<1>12. ASSUME NEW w \in Workers, Leave(w) PROVE Hands'
  <2>1. /\ pc' = [pc EXCEPT ![w] = "idle"] /\ UNCHANGED <<reached, market>>
        /\ batch' = [batch EXCEPT ![w] = {}] /\ current' = [current EXCEPT ![w] = NoTime]
        /\ quote' = [quote EXCEPT ![w] = NoQuote]
    BY <1>12 DEF Leave, Goto, chatVars
  <2> QED
    BY <1>0, <2>1 DEF Hands, Reporting, TypeOK, Labels
<1>13. ASSUME NEW t \in Times, Elapse(t) PROVE Hands'
  BY <1>1, <1>13 DEF Elapse, chatVars, ruleVars
<1>14. ASSUME UNCHANGED vars PROVE Hands'
  BY <1>1, <1>14 DEF vars, eventVars, chatVars, ruleVars
<1>15. ASSUME NEW w \in Workers, Work(w) \/ ReportRaises(w) \/ Leave(w) \/ (\E t \in Times : SendAnswerLost(w, t))
       PROVE  Hands'
  BY <1>15, <1>3, <1>4, <1>5, <1>6, <1>7, <1>8, <1>9, <1>10, <1>11, <1>12, Zenon DEF Work
<1> QED
  BY <1>2, <1>13, <1>14, <1>15 DEF Next

-----------------------------------------------------------------------------
(* What a step does to the deliveries, as few facts as the invariants need. *)

LEMMA StatusStep ==
    ASSUME Sending, [Next]_vars
    PROVE  \A t \in Times :
              /\ status[t] = "sent" => status'[t] = "sent"
              /\ status'[t] = "sent" /\ status[t] # "sent" =>
                    \E w \in Workers : pc[w] = "report_sent" /\ current[w] = t
              /\ status'[t] = "sending" =>
                    (status[t] = "sending" /\ attempts'[t] = attempts[t]) \/ attempts'[t] < MaxAttempts
<1>0. TypeOK /\ Hands /\ status \in [Times -> Statuses] /\ attempts \in [Times -> 0..MaxAttempts]
  BY DEF Sending, TypeOK
<1> DEFINE Goal == \A t \in Times :
              /\ status[t] = "sent" => status'[t] = "sent"
              /\ status'[t] = "sent" /\ status[t] # "sent" =>
                    \E w \in Workers : pc[w] = "report_sent" /\ current[w] = t
              /\ status'[t] = "sending" =>
                    (status[t] = "sending" /\ attempts'[t] = attempts[t]) \/ attempts'[t] < MaxAttempts
<1>1. ASSUME UNCHANGED <<status, attempts>> PROVE Goal
  BY <1>1
<1>2. ASSUME NEW w \in Workers, Record(w) PROVE Goal
  <2>1. PICK time : status' = [status EXCEPT ![time] = IF Triggered(copy[w], quote[w].zone) /\ status[time] = "none" THEN "pending" ELSE @]
    BY <1>2 DEF Record
  <2>2. attempts' = attempts
    BY <1>2 DEF Record
  <2>3. \A t \in Times : status'[t] = status[t] \/ (status[t] = "none" /\ status'[t] = "pending")
    BY <1>0, <2>1
  <2> QED
    BY <2>2, <2>3
<1>3. ASSUME NEW w \in Workers, Claim(w) PROVE Goal
  <2>1. /\ status' = [t \in Times |-> IF t \in {u \in Times : Claimable(u)} THEN "sending" ELSE status[t]]
        /\ attempts' = attempts
    BY <1>3 DEF Claim
  <2>2. \A t \in Times : status'[t] = status[t] \/ (Claimable(t) /\ status'[t] = "sending")
    BY <2>1
  <2> QED
    BY <1>0, <2>1, <2>2 DEF Claimable
<1>4. ASSUME NEW w \in Workers, NEW outcome \in {"sent", "failed"}, current[w] \in Times, Reported(current[w], outcome),
             outcome = "sent" => pc[w] = "report_sent"
      PROVE  Goal
  <2>1. CASE status[current[w]] = "sending"
    <3>1. status' = [status EXCEPT ![current[w]] = outcome] /\ attempts' = [attempts EXCEPT ![current[w]] = @ + 1]
      BY <1>4, <2>1 DEF Reported
    <3>2. \A t \in Times \ {current[w]} : status'[t] = status[t] /\ attempts'[t] = attempts[t]
      BY <1>0, <3>1
    <3>3. status'[current[w]] = outcome
      BY <1>0, <1>4, <3>1
    <3> QED
      BY <1>4, <2>1, <3>2, <3>3
  <2>2. CASE status[current[w]] # "sending"
    BY <1>1, <1>4, <2>2 DEF Reported
  <2> QED
    BY <2>1, <2>2
<1>5. \A w \in Workers : pc[w] \in {"report_sent", "report_failed"} => current[w] \in Times
  BY <1>0 DEF Hands, Reporting
<1>6. ASSUME NEW w \in Workers, Report(w) PROVE Goal
  BY <1>4, <1>5, <1>6 DEF Report, Outcome
<1>7. ASSUME NEW w \in Workers, ReportRaises(w) PROVE Goal
  BY <1>1, <1>4, <1>5, <1>7 DEF ReportRaises
<1>8. ASSUME NEW w \in Workers, Leave(w) PROVE Goal
  BY <1>1, <1>4, <1>5, <1>8 DEF Leave
<1>9. ASSUME NEW w \in Workers, List(w) \/ ReadQuote(w) \/ SkipStale(w) \/ EndCheck(w) PROVE Goal
  BY <1>1, <1>9 DEF List, ReadQuote, SkipStale, EndCheck, eventVars
<1>10. ASSUME NEW w \in Workers, NEW t \in Times, SendOk(w, t) \/ SendFails(w, t) \/ SendAnswerLost(w, t) PROVE Goal
  BY <1>1, <1>10 DEF SendOk, SendFails, SendAnswerLost, eventVars
<1>11. ASSUME NEW t \in Times, Elapse(t) PROVE Goal
  BY <1>1, <1>11 DEF Elapse
<1>12. ASSUME NEW zone \in Zones, Market(zone) PROVE Goal
  BY <1>1, <1>12 DEF Market, eventVars
<1>13. ASSUME UNCHANGED vars PROVE Goal
  BY <1>1, <1>13 DEF vars, eventVars
<1> HIDE DEF Goal
<1>14. ASSUME NEW w \in Workers, Work(w) \/ ReportRaises(w) \/ Leave(w) \/ (\E t \in Times : SendAnswerLost(w, t))
       PROVE  Goal
  BY <1>14, <1>2, <1>3, <1>6, <1>7, <1>8, <1>9, <1>10, Zenon DEF Work
<1>15. Goal
  BY <1>11, <1>12, <1>13, <1>14 DEF Next
<1> QED
  BY <1>15 DEF Goal

LEMMA ReachedGrows == [Next]_vars => reached \subseteq reached'
BY DEF Next, Work, Market, List, ReadQuote, SkipStale, Record, Claim, EndCheck, Report, SendOk, SendFails,
       SendAnswerLost, ReportRaises, Leave, Elapse, Reach, vars, eventVars, chatVars

LEMMA SendingStep == Sending /\ [Next]_vars => Sending'
<1> SUFFICES ASSUME Sending, [Next]_vars PROVE MayBeSent' /\ SentWasDelivered'
  BY TypeStep, HandsStep DEF Sending
<1>1. MayBeSent'
  BY StatusStep DEF Sending, MayBeSent
<1>2. SentWasDelivered'
  BY StatusStep, ReachedGrows DEF Sending, SentWasDelivered, Hands
<1> QED
  BY <1>1, <1>2

-----------------------------------------------------------------------------
(* One holder, and what reached the chat.                                  *)

Single == OneHolder /\ ReachedIsStored /\ ToldOnceUnlessExcused

\* The step changes no delivery and no holder of an event without an excuse,
\* except that holders may let go of it.
LEMMA SingleStays ==
    ASSUME Sending, Single, excused \subseteq excused',
           \A t \in Times \ excused' :
              /\ t \in reached' => t \in reached
              /\ t \in repeated' => t \in repeated
              /\ t \in reached /\ status[t] = "sent" => status'[t] = "sent"
              /\ \A w \in Workers : Holds(w, t)' =>
                    Holds(w, t) /\ status'[t] = status[t] /\ due'[t] = due[t]
              /\ \A w \in Workers : current[w] = t /\ pc[w] = "report_sent" =>
                    \/ current'[w] = t /\ pc'[w] = "report_sent"
                    \/ status'[t] = "sent",
           repeated' \subseteq reached', reached' \subseteq Times
    PROVE  Single'
<1>1. OneHolder'
  BY DEF Single, OneHolder
<1>2. ReachedIsStored'
  BY DEF Single, ReachedIsStored
<1>3. ToldOnceUnlessExcused'
  BY DEF Single, ToldOnceUnlessExcused
<1> QED
  BY <1>1, <1>2, <1>3 DEF Single

LEMMA SingleStep == Sending /\ Single /\ [Next]_vars => Single'
<1> SUFFICES ASSUME Sending, Single, [Next]_vars PROVE Single'
  OBVIOUS
<1>0. TypeOK /\ Hands /\ TypeOK'
  BY TypeStep DEF Sending
<1>1. repeated' \subseteq reached' /\ reached' \subseteq Times
  BY <1>0 DEF TypeOK
<1>2. ASSUME UNCHANGED <<reached, repeated, excused, batch, current>>,
             \A t \in Times : status[t] # "none" => status'[t] = status[t] /\ due'[t] = due[t],
             \A w \in Workers : pc[w] = "report_sent" => pc'[w] = "report_sent"
      PROVE  Single'
  <2>1. \A t \in Times \ excused, w \in Workers : (Holds(w, t)' <=> Holds(w, t)) /\ (Holds(w, t) => status[t] # "none")
    BY <1>2 DEF Holds, Single, OneHolder
  <2> QED
    BY <1>1, <1>2, <2>1, SingleStays
<1>3. ASSUME NEW zone \in Zones, Market(zone) PROVE Single'
  BY <1>2, <1>3 DEF Market, eventVars, chatVars
<1>4. ASSUME NEW w \in Workers, List(w) \/ ReadQuote(w) \/ SkipStale(w) \/ EndCheck(w) PROVE Single'
  <2>1. UNCHANGED <<reached, repeated, excused, batch, current, status, due>> /\ pc[w] # "report_sent"
        /\ \E label : pc' = [pc EXCEPT ![w] = label]
    BY <1>4 DEF List, ReadQuote, SkipStale, EndCheck, Goto, eventVars, chatVars
  <2>2. \A v \in Workers : pc[v] = "report_sent" => pc'[v] = "report_sent"
    BY <1>0, <2>1 DEF TypeOK
  <2> QED
    BY <1>2, <2>1, <2>2
<1>5. ASSUME NEW w \in Workers, Record(w) PROVE Single'
  <2>1. /\ UNCHANGED <<reached, repeated, excused, batch, current, due>> /\ pc[w] = "quoted"
        /\ pc' = [pc EXCEPT ![w] = "claim"]
    BY <1>5 DEF Record, Goto, chatVars
  <2>2. PICK time : status' = [status EXCEPT ![time] = IF Triggered(copy[w], quote[w].zone) /\ status[time] = "none" THEN "pending" ELSE @]
    BY <1>5 DEF Record
  <2>3. \A t \in Times : status[t] # "none" => status'[t] = status[t]
    BY <1>0, <2>2 DEF TypeOK
  <2>4. \A v \in Workers : pc[v] = "report_sent" => pc'[v] = "report_sent"
    BY <1>0, <2>1 DEF TypeOK
  <2> QED
    BY <1>2, <2>1, <2>3, <2>4
<1>6. ASSUME NEW w \in Workers, Claim(w) PROVE Single'
  <2> DEFINE claimed == {t \in Times : Claimable(t)}
  <2>1. /\ UNCHANGED <<reached, repeated, excused, current>> /\ pc[w] = "claim"
        /\ status' = [t \in Times |-> IF t \in claimed THEN "sending" ELSE status[t]]
        /\ due' = [t \in Times |-> due[t] /\ t \notin claimed]
        /\ batch' = [batch EXCEPT ![w] = claimed] /\ pc' = [pc EXCEPT ![w] = "deliver"]
    BY <1>6 DEF Claim, Goto, chatVars
  <2>2. batch[w] = {} /\ current[w] = NoTime
    BY <1>0, <2>1 DEF Hands, Reporting
  <2>3. \A t \in claimed : t \notin excused => \A v \in Workers : ~Holds(v, t)
    BY DEF Claimable, Single, OneHolder
  <2>4. \A t \in Times, v \in Workers : Holds(v, t)' <=> Holds(v, t) \/ (v = w /\ t \in claimed)
    BY <1>0, <2>1, <2>2 DEF Holds, TypeOK
  <2>5. \A t \in Times : /\ t \in claimed => status'[t] = "sending" /\ ~due'[t]
                         /\ t \notin claimed => status'[t] = status[t] /\ (~due[t] => ~due'[t])
    BY <2>1
  <2>6. OneHolder'
    <3> SUFFICES ASSUME NEW t \in Times \ excused, NEW v \in Workers, Holds(v, t)'
                 PROVE  status'[t] = "sending" /\ ~due'[t] /\ \A u \in Workers : Holds(u, t)' => u = v
      BY <2>1 DEF OneHolder
    <3>1. CASE t \in claimed
      BY <2>3, <2>4, <2>5, <3>1
    <3>2. CASE t \notin claimed
      BY <2>4, <2>5, <3>2 DEF Single, OneHolder
    <3> QED
      BY <3>1, <3>2
  <2>7. ReachedIsStored'
    <3>1. \A v \in Workers : pc[v] = "report_sent" => pc'[v] = "report_sent"
      BY <1>0, <2>1 DEF TypeOK
    <3>2. \A t \in Times : status[t] = "sent" => status'[t] = "sent"
      BY <2>5 DEF Claimable
    <3> QED
      BY <1>0, <2>1, <3>1, <3>2 DEF Single, ReachedIsStored, TypeOK
  <2>8. ToldOnceUnlessExcused'
    BY <2>1 DEF Single, ToldOnceUnlessExcused
  <2> QED
    BY <2>6, <2>7, <2>8 DEF Single
<1>7. ASSUME NEW w \in Workers, NEW t \in Times, Take(w, t), Goto(w, "report_sent") \/ Goto(w, "report_failed")
      PROVE  /\ \A v \in Workers, u \in Times : Holds(v, u)' <=> Holds(v, u)
             /\ \A v \in Workers : pc[v] = "report_sent" => v # w /\ pc'[v] = pc[v] /\ current'[v] = current[v]
             /\ current'[w] = t /\ pc[w] = "deliver" /\ Holds(w, t)
             /\ Goto(w, "report_sent") => pc'[w] = "report_sent"
  <2>1. /\ pc[w] = "deliver" /\ t \in batch[w] /\ current[w] = NoTime
        /\ batch' = [batch EXCEPT ![w] = @ \ {t}] /\ current' = [current EXCEPT ![w] = t]
    BY <1>0, <1>7 DEF Take, Hands, Reporting
  <2>2. NoTime \notin Times
    BY DEF NoTime, Times
  <2>3. \A v \in Workers, u \in Times : Holds(v, u)' <=> Holds(v, u)
    <3> SUFFICES ASSUME NEW v \in Workers, NEW u \in Times PROVE Holds(v, u)' <=> Holds(v, u)
      OBVIOUS
    <3>1. CASE v = w
      BY <1>0, <2>1, <2>2, <3>1 DEF TypeOK, Holds
    <3>2. CASE v # w
      BY <1>0, <2>1, <3>2 DEF TypeOK, Holds
    <3> QED
      BY <3>1, <3>2
  <2>4. \A v \in Workers : pc[v] = "report_sent" => v # w /\ pc'[v] = pc[v] /\ current'[v] = current[v]
    BY <1>0, <1>7, <2>1 DEF Goto, TypeOK
  <2> QED
    BY <1>0, <1>7, <2>1, <2>3, <2>4 DEF Goto, TypeOK, Holds
<1>8. ASSUME NEW w \in Workers, NEW t \in Times, SendOk(w, t) PROVE Single'
  <2>1. /\ UNCHANGED <<status, due, excused>> /\ reached' = reached \cup {t} /\ Take(w, t) /\ Goto(w, "report_sent")
        /\ repeated' = IF t \in reached THEN repeated \cup {t} ELSE repeated
    BY <1>8 DEF SendOk, Reach
  <2>2. /\ \A v \in Workers, u \in Times : Holds(v, u)' <=> Holds(v, u)
        /\ \A v \in Workers : pc[v] = "report_sent" => v # w /\ pc'[v] = pc[v] /\ current'[v] = current[v]
        /\ current'[w] = t /\ pc[w] = "deliver" /\ Holds(w, t) /\ pc'[w] = "report_sent"
    BY <1>7, <2>1
  <2>3. t \notin excused => t \notin reached
    <3> SUFFICES ASSUME t \notin excused, t \in reached PROVE FALSE
      OBVIOUS
    <3>1. status[t] = "sending" /\ \A v \in Workers : Holds(v, t) => v = w
      BY <2>2 DEF Single, OneHolder
    <3>2. PICK v \in Workers : current[v] = t /\ pc[v] = "report_sent"
      BY <3>1 DEF Single, ReachedIsStored
    <3> QED
      BY <2>2, <3>1, <3>2 DEF Holds
  <2>4. OneHolder'
    BY <2>1, <2>2 DEF Single, OneHolder
  <2>5. ReachedIsStored'
    BY <2>1, <2>2 DEF Single, ReachedIsStored
  <2>6. ToldOnceUnlessExcused'
    BY <2>1, <2>3 DEF Single, ToldOnceUnlessExcused
  <2> QED
    BY <2>4, <2>5, <2>6 DEF Single
<1>9. ASSUME NEW w \in Workers, NEW t \in Times, SendFails(w, t) PROVE Single'
  <2>1. UNCHANGED <<status, due, excused, reached, repeated>> /\ Take(w, t) /\ Goto(w, "report_failed")
    BY <1>9 DEF SendFails, eventVars, chatVars
  <2>2. /\ \A v \in Workers, u \in Times : Holds(v, u)' <=> Holds(v, u)
        /\ \A v \in Workers : pc[v] = "report_sent" => v # w /\ pc'[v] = pc[v] /\ current'[v] = current[v]
    BY <1>7, <2>1
  <2> QED
    BY <1>1, <2>1, <2>2, SingleStays
<1>10. ASSUME NEW w \in Workers, NEW t \in Times, SendAnswerLost(w, t) PROVE Single'
  <2>1. /\ UNCHANGED <<status, due>> /\ Take(w, t) /\ Goto(w, "report_failed") /\ excused' = excused \cup {t}
        /\ reached' = reached \cup {t} /\ repeated' \subseteq repeated \cup {t}
    BY <1>10 DEF SendAnswerLost, Reach
  <2>2. /\ \A v \in Workers, u \in Times : Holds(v, u)' <=> Holds(v, u)
        /\ \A v \in Workers : pc[v] = "report_sent" => v # w /\ pc'[v] = pc[v] /\ current'[v] = current[v]
    BY <1>7, <2>1
  <2> QED
    BY <1>1, <2>1, <2>2, SingleStays
<1>11. ASSUME NEW t, NEW outcome, Reported(t, outcome)
       PROVE  /\ \A u \in Times \ {t} : status'[u] = status[u] /\ due'[u] = due[u]
              /\ t \in Times /\ status[t] = "sending" => status'[t] = outcome
  BY <1>0, <1>11 DEF Reported, TypeOK
<1>12. ASSUME NEW w \in Workers, Report(w) PROVE Single'
  <2> DEFINE t == current[w]
  <2>1. /\ UNCHANGED <<excused, reached, repeated, batch>> /\ current' = [current EXCEPT ![w] = NoTime]
        /\ pc' = [pc EXCEPT ![w] = "deliver"] /\ pc[w] \in Reporting
        /\ Reported(t, Outcome(pc[w]))
    BY <1>12 DEF Report, Goto, chatVars, Reporting
  <2>2. t \in Times /\ t \notin batch[w] /\ Holds(w, t)
    BY <1>0, <2>1 DEF Hands, Holds
  <2>3. /\ \A u \in Times \ {t} : status'[u] = status[u] /\ due'[u] = due[u]
        /\ status[t] = "sending" => status'[t] = Outcome(pc[w])
    BY <1>11, <2>1, <2>2
  <2>4. /\ \A v \in Workers \ {w} : current'[v] = current[v] /\ pc'[v] = pc[v]
        /\ current'[w] = NoTime
    BY <1>0, <2>1 DEF TypeOK
  <2>5. NoTime \notin Times
    BY DEF NoTime, Times
  <2>6. \A v \in Workers, u \in Times : Holds(v, u)' => Holds(v, u) /\ (v # w \/ u # t)
    BY <2>1, <2>2, <2>4, <2>5 DEF Holds
  <2>7. t \notin excused => status[t] = "sending" /\ \A v \in Workers : Holds(v, t) => v = w
    BY <2>2 DEF Single, OneHolder
  <2>8. \A u \in Times : status[u] = "sent" => status'[u] = "sent"
    BY StatusStep
  <2>9. ASSUME NEW u \in Times \ excused, NEW v \in Workers
        PROVE  /\ Holds(v, u)' => Holds(v, u) /\ status'[u] = status[u] /\ due'[u] = due[u]
               /\ current[v] = u /\ pc[v] = "report_sent" =>
                    (current'[v] = u /\ pc'[v] = "report_sent") \/ status'[u] = "sent"
    <3>1. CASE u = t
      BY <2>3, <2>6, <2>7, <3>1 DEF Holds, Outcome
    <3>2. CASE u # t
      BY <2>3, <2>4, <2>6, <3>2
    <3> QED
      BY <3>1, <3>2
  <2>10. excused' = excused /\ reached' = reached /\ repeated' = repeated
    BY <2>1
  <2>11. excused \subseteq excused'
    BY <2>10
  <2>12. \A u \in Times \ excused' :
            /\ u \in reached' => u \in reached
            /\ u \in repeated' => u \in repeated
            /\ u \in reached /\ status[u] = "sent" => status'[u] = "sent"
            /\ \A v \in Workers : Holds(v, u)' =>
                  Holds(v, u) /\ status'[u] = status[u] /\ due'[u] = due[u]
            /\ \A v \in Workers : current[v] = u /\ pc[v] = "report_sent" =>
                  \/ current'[v] = u /\ pc'[v] = "report_sent"
                  \/ status'[u] = "sent"
    BY <2>8, <2>9, <2>10
  <2> HIDE DEF t
  <2>13. OneHolder'
    BY <2>11, <2>12 DEF Single, OneHolder
  <2>14. ReachedIsStored'
    BY <2>11, <2>12, <1>1 DEF Single, ReachedIsStored
  <2>15. ToldOnceUnlessExcused'
    BY <2>11, <2>12, <1>1 DEF Single, ToldOnceUnlessExcused
  <2> QED
    BY <2>13, <2>14, <2>15, <1>1 DEF Single
<1>13. ASSUME NEW w \in Workers, ReportRaises(w) PROVE Single'
  <2>1. /\ UNCHANGED <<reached, repeated, batch, current>> /\ excused' = excused \cup {current[w]}
        /\ pc' = [pc EXCEPT ![w] = "report_failed"]
        /\ Reported(current[w], "sent") \/ UNCHANGED <<status, due>>
    BY <1>13 DEF ReportRaises, Goto, chatVars
  <2>2. \A u \in Times \ excused' : u # current[w] /\ status'[u] = status[u] /\ due'[u] = due[u]
    BY <1>11, <2>1
  <2>3. \A v \in Workers \ {w} : pc'[v] = pc[v]
    BY <1>0, <2>1 DEF TypeOK
  <2>4. \A v \in Workers, u \in Times : Holds(v, u)' <=> Holds(v, u)
    BY <2>1 DEF Holds
  <2> QED
    BY <1>1, <2>1, <2>2, <2>3, <2>4, SingleStays
<1>14. ASSUME NEW w \in Workers, Leave(w) PROVE Single'
  <2>1. /\ UNCHANGED <<reached, repeated>> /\ batch' = [batch EXCEPT ![w] = {}]
        /\ current' = [current EXCEPT ![w] = NoTime] /\ pc' = [pc EXCEPT ![w] = "idle"]
        /\ excused \subseteq excused' /\ (pc[w] \in Reporting => current[w] \in excused')
        /\ (pc[w] \in Reporting /\ Reported(current[w], "failed")) \/ UNCHANGED <<status, due>>
    BY <1>14 DEF Leave, Goto, chatVars, Reporting
  <2>2. \A u \in Times \ excused' : status'[u] = status[u] /\ due'[u] = due[u]
    BY <1>11, <2>1
  <2>3. \A v \in Workers \ {w} : pc'[v] = pc[v] /\ current'[v] = current[v] /\ batch'[v] = batch[v]
    BY <1>0, <2>1 DEF TypeOK
  <2>4. batch'[w] = {} /\ current'[w] = NoTime /\ NoTime \notin Times
    BY <1>0, <2>1 DEF TypeOK, NoTime, Times
  <2>5. \A v \in Workers, u \in Times : Holds(v, u)' => Holds(v, u)
    BY <2>3, <2>4 DEF Holds
  <2>6. \A u \in Times \ excused', v \in Workers :
            current[v] = u /\ pc[v] = "report_sent" => current'[v] = u /\ pc'[v] = "report_sent"
    BY <2>1, <2>3 DEF Reporting
  <2> QED
    BY <1>1, <2>1, <2>2, <2>5, <2>6, SingleStays
<1>15. ASSUME NEW t \in Times, Elapse(t) PROVE Single'
  <2>1. /\ UNCHANGED <<status, reached, repeated, batch, current, pc>> /\ due' = [due EXCEPT ![t] = TRUE]
        /\ excused' = IF status[t] = "sending" /\ Held(t) THEN excused \cup {t} ELSE excused
    BY <1>15 DEF Elapse, chatVars
  <2>2. ASSUME NEW u \in Times \ excused', NEW v \in Workers, Holds(v, u)
        PROVE  u # t /\ due'[u] = due[u]
    <3>1. u \notin excused
      BY <2>1
    <3>2. status[u] = "sending"
      BY <2>2, <3>1 DEF Single, OneHolder
    <3>3. Held(u)
      BY <2>2 DEF Held, Holds
    <3>4. u # t
      BY <2>1, <3>2, <3>3
    <3> QED
      BY <1>0, <2>1, <3>4 DEF TypeOK
  <2>3. \A v \in Workers, u \in Times : Holds(v, u)' <=> Holds(v, u)
    BY <2>1 DEF Holds
  <2> QED
    BY <1>1, <2>1, <2>2, <2>3, SingleStays
<1>16. ASSUME UNCHANGED vars PROVE Single'
  BY <1>2, <1>16 DEF vars, eventVars, chatVars
<1>17. ASSUME NEW w \in Workers, Work(w) \/ ReportRaises(w) \/ Leave(w) \/ (\E t \in Times : SendAnswerLost(w, t))
       PROVE  Single'
  BY <1>17, <1>4, <1>5, <1>6, <1>8, <1>9, <1>10, <1>12, <1>13, <1>14, Zenon DEF Work
<1> QED
  BY <1>3, <1>15, <1>16, <1>17 DEF Next

-----------------------------------------------------------------------------
(* Alerting again.                                                         *)

LEMMA RearmStep == Sending /\ CopyIsRow /\ ArmedAfterRearm /\ [Next]_vars => CopyIsRow' /\ ArmedAfterRearm'
<1> SUFFICES ASSUME Sending, CopyIsRow, ArmedAfterRearm, [Next]_vars PROVE CopyIsRow' /\ ArmedAfterRearm'
  OBVIOUS
<1>0. TypeOK
  BY DEF Sending
\* A worker comes to a step in which it does not check, or goes on checking.
<1>1. ASSUME UNCHANGED <<rule, alerted, cleared, overlap>>,
             \A v \in Workers : Checking(v)' => Checking(v) /\ copy'[v] = copy[v]
      PROVE  CopyIsRow' /\ ArmedAfterRearm'
  <2>1. CopyIsRow'
    BY <1>1 DEF CopyIsRow
  <2>2. ArmedAfterRearm'
    BY <1>1 DEF ArmedAfterRearm
  <2> QED
    BY <2>1, <2>2
<1>2. ASSUME NEW w \in Workers, NEW label, pc' = [pc EXCEPT ![w] = label],
             label \in {"listed", "quoted"} => Checking(w) /\ copy' = copy,
             copy' = copy \/ copy' = [copy EXCEPT ![w] = NewRule], UNCHANGED <<rule, alerted, cleared, overlap>>
      PROVE  CopyIsRow' /\ ArmedAfterRearm'
  <2>1. \A v \in Workers : Checking(v)' => Checking(v) /\ copy'[v] = copy[v]
    BY <1>0, <1>2 DEF Checking, TypeOK
  <2> QED
    BY <1>1, <1>2, <2>1
<1>3. ASSUME UNCHANGED <<rule, alerted, cleared, overlap, pc, copy>> PROVE CopyIsRow' /\ ArmedAfterRearm'
  BY <1>1, <1>3 DEF Checking
<1>4. ASSUME NEW zone \in Zones, Market(zone) PROVE CopyIsRow' /\ ArmedAfterRearm'
  BY <1>3, <1>4 DEF Market
<1>5. ASSUME NEW w \in Workers, List(w) PROVE CopyIsRow' /\ ArmedAfterRearm'
  <2>1. /\ copy' = [copy EXCEPT ![w] = rule] /\ pc' = [pc EXCEPT ![w] = "listed"]
        /\ UNCHANGED <<rule, alerted, cleared>> /\ pc[w] = "idle"
        /\ overlap' = (overlap \/ \E v \in Workers \ {w} : pc[v] \in {"listed", "quoted"})
    BY <1>5 DEF List, Goto
  <2>2. ~overlap' => ~overlap /\ \A v \in Workers : ~Checking(v)
    BY <2>1 DEF Checking
  <2>3. \A v \in Workers : Checking(v)' => (v = w /\ copy'[v] = rule) \/ Checking(v)
    BY <1>0, <2>1 DEF Checking, TypeOK
  <2>4. CopyIsRow'
    BY <2>1, <2>2, <2>3 DEF CopyIsRow
  <2>5. ArmedAfterRearm'
    BY <2>1, <2>2 DEF ArmedAfterRearm
  <2> QED
    BY <2>4, <2>5
<1>6. ASSUME NEW w \in Workers, ReadQuote(w) \/ SkipStale(w) PROVE CopyIsRow' /\ ArmedAfterRearm'
  <2>1. CASE ReadQuote(w)
    BY <1>2, <2>1 DEF ReadQuote, Goto, Checking
  <2>2. CASE SkipStale(w)
    BY <1>2, <2>2 DEF SkipStale, Goto
  <2> QED
    BY <1>6, <2>1, <2>2
<1>7. ASSUME NEW w \in Workers, Record(w) PROVE CopyIsRow' /\ ArmedAfterRearm'
  <2> DEFINE zone == quote[w].zone
             isNew == Triggered(copy[w], zone) /\ status[quote[w].time] = "none"
  <2>1. /\ rule' = [armed |-> Armed(copy[w], zone), last |-> zone] /\ overlap' = overlap
        /\ alerted' = (alerted \/ isNew)
        /\ cleared' = IF isNew THEN FALSE ELSE (cleared \/ Rearms(zone))
        /\ pc[w] = "quoted" /\ pc' = [pc EXCEPT ![w] = "claim"] /\ copy' = [copy EXCEPT ![w] = NewRule]
    BY <1>7 DEF Record, Goto
  <2>2. \A v \in Workers : Checking(v)' => Checking(v) /\ v # w
    BY <1>0, <2>1 DEF Checking, TypeOK
  <2>3. Checking(w)
    BY <2>1 DEF Checking
  <2>4. CopyIsRow'
    BY <2>1, <2>2, <2>3 DEF CopyIsRow
  <2>5. ArmedAfterRearm'
    <3> HIDE DEF isNew, zone
    <3>1. rule'.armed = Armed(copy[w], zone)
      BY <2>1
    <3>2. isNew => Triggered(copy[w], zone)
      BY DEF isNew
    <3> SUFFICES ASSUME ~overlap, alerted', ~cleared' PROVE ~Armed(copy[w], zone)
      BY <2>1, <3>1, Zenon DEF ArmedAfterRearm
    <3>3. CASE isNew
      BY <3>2, <3>3, Zenon DEF Armed
    <3>4. CASE ~isNew
      <4>1. alerted /\ ~cleared /\ ~Rearms(zone)
        BY <2>1, <3>4, Zenon
      <4>2. ~rule.armed /\ copy[w] = rule
        BY <2>3, <4>1 DEF ArmedAfterRearm, CopyIsRow
      <4>3. ~copy[w].armed
        BY <4>2
      <4>4. zone = "reached" => ~Rearms(zone)
        BY DEF Rearms
      <4> QED
        BY <4>1, <4>3, Zenon DEF Armed
    <3> QED
      BY <3>3, <3>4
  <2> QED
    BY <2>4, <2>5
<1>8. ASSUME NEW w \in Workers, Claim(w) \/ EndCheck(w) \/ Report(w) \/ ReportRaises(w) PROVE CopyIsRow' /\ ArmedAfterRearm'
  <2>1. /\ UNCHANGED <<rule, alerted, cleared, overlap, copy>>
        /\ \E label \in {"deliver", "idle", "report_failed"} : pc' = [pc EXCEPT ![w] = label]
    BY <1>8 DEF Claim, EndCheck, Report, ReportRaises, Goto, ruleVars
  <2> QED
    BY <1>2, <2>1
<1>9. ASSUME NEW w \in Workers, NEW t \in Times, SendOk(w, t) \/ SendFails(w, t) \/ SendAnswerLost(w, t)
      PROVE  CopyIsRow' /\ ArmedAfterRearm'
  <2>1. /\ UNCHANGED <<rule, alerted, cleared, overlap, copy>>
        /\ \E label \in {"report_sent", "report_failed"} : pc' = [pc EXCEPT ![w] = label]
    BY <1>9 DEF SendOk, SendFails, SendAnswerLost, Goto, ruleVars
  <2> QED
    BY <1>2, <2>1
<1>10. ASSUME NEW w \in Workers, Leave(w) PROVE CopyIsRow' /\ ArmedAfterRearm'
  BY <1>2, <1>10 DEF Leave, Goto
<1>11. ASSUME NEW t \in Times, Elapse(t) PROVE CopyIsRow' /\ ArmedAfterRearm'
  BY <1>3, <1>11 DEF Elapse, ruleVars
<1>12. ASSUME UNCHANGED vars PROVE CopyIsRow' /\ ArmedAfterRearm'
  BY <1>3, <1>12 DEF vars, ruleVars
<1>13. ASSUME NEW w \in Workers, Work(w) \/ ReportRaises(w) \/ Leave(w) \/ (\E t \in Times : SendAnswerLost(w, t))
       PROVE  CopyIsRow' /\ ArmedAfterRearm'
  BY <1>13, <1>5, <1>6, <1>7, <1>8, <1>9, <1>10, Zenon DEF Work
<1> QED
  BY <1>4, <1>11, <1>12, <1>13 DEF Next

-----------------------------------------------------------------------------
LEMMA StepInv == IInv /\ [Next]_vars => IInv'
BY SendingStep, SingleStep, RearmStep DEF IInv, Single

LEMMA Always == Spec => []IInv
BY InitInv, StepInv, PTL DEF Spec

\* Rules, events and workers keep their types, the attempts their limit.
THEOREM TypeCorrect == Spec => []TypeOK
<1>1. IInv => TypeOK
  BY DEF IInv, Sending
<1> QED
  BY <1>1, Always, PTL

\* An event stored as sent is in the chat (record_alert_email_delivery).
THEOREM AlwaysDelivered == Spec => []SentWasDelivered
<1>1. IInv => SentWasDelivered
  BY DEF IInv, Sending
<1> QED
  BY <1>1, Always, PTL

\* The owner is told twice only with an excuse: claims, leases and late reports
\* of any number of workers included.
THEOREM AlwaysToldOnce == Spec => []ToldOnceUnlessExcused
<1>1. IInv => ToldOnceUnlessExcused
  BY DEF IInv
<1> QED
  BY <1>1, Always, PTL

\* No report turns a sent event into another one.
THEOREM SentStaysSent == Spec => SentIsFinal
<1>1. IInv /\ [Next]_vars => [\A t \in Times : status[t] = "sent" => status'[t] = "sent"]_vars
  BY StatusStep DEF IInv
<1> QED
  BY <1>1, Always, PTL DEF Spec, SentIsFinal

\* Without overlapping checks a rule alerts again only once it was re-armed
\* (evaluate_alert_transition with record_alert_evaluation).
THEOREM AlwaysRearmed == Spec => AlertsAgainAfterRearm
<1> DEFINE Again == \A t \in Times : status[t] = "none" /\ status'[t] = "pending" /\ alerted => overlap \/ cleared
<1>1. ASSUME IInv, NEW t \in Times, status[t] = "none", status'[t] = "pending", alerted, Next
      PROVE  overlap \/ cleared
  <2>1. PICK w \in Workers : Record(w)
    <3>1. ASSUME UNCHANGED status PROVE FALSE
      BY <1>1, <3>1
    <3>2. ASSUME NEW w \in Workers, Claim(w) PROVE FALSE
      BY <1>1, <3>2 DEF Claim
    <3>3. ASSUME NEW w \in Workers, NEW u, NEW outcome \in {"sent", "failed"}, Reported(u, outcome) PROVE FALSE
      BY <1>1, <3>3 DEF Reported, IInv, Sending, TypeOK
    <3>4. ASSUME NEW w \in Workers, Report(w) \/ ReportRaises(w) \/ Leave(w) PROVE FALSE
      BY <3>1, <3>3, <3>4 DEF Report, ReportRaises, Leave, Outcome
    <3>5. ASSUME NEW w \in Workers, List(w) \/ ReadQuote(w) \/ SkipStale(w) \/ EndCheck(w) PROVE FALSE
      BY <3>1, <3>5 DEF List, ReadQuote, SkipStale, EndCheck, eventVars
    <3>6. ASSUME NEW w \in Workers, NEW u \in Times, SendOk(w, u) \/ SendFails(w, u) \/ SendAnswerLost(w, u) PROVE FALSE
      BY <3>1, <3>6 DEF SendOk, SendFails, SendAnswerLost, eventVars
    <3>7. ASSUME NEW u \in Times, Elapse(u) PROVE FALSE
      BY <3>1, <3>7 DEF Elapse
    <3>8. ASSUME NEW zone \in Zones, Market(zone) PROVE FALSE
      BY <3>1, <3>8 DEF Market, eventVars
    <3> QED
      BY <1>1, <3>2, <3>4, <3>5, <3>6, <3>7, <3>8, Zenon DEF Next, Work
  <2>2. Triggered(copy[w], quote[w].zone)
    BY <1>1, <2>1 DEF Record, IInv, Sending, TypeOK
  <2>3. copy[w].armed /\ Checking(w)
    BY <2>1, <2>2 DEF Triggered, Record, Checking
  <2> QED
    BY <1>1, <2>3 DEF IInv, CopyIsRow, ArmedAfterRearm
<1>2. IInv /\ [Next]_vars => [Again]_vars
  BY <1>1
<1> QED
  BY <1>2, Always, PTL DEF Spec, AlertsAgainAfterRearm
=============================================================================
