-------------------------- MODULE OrderSubmission --------------------------
(***************************************************************************)
(* Order submission for one symbol and one side: the Desk request threads  *)
(* (place_desk_order), the worker thread (process_signal for buys,         *)
(* _submit_sell for sells, _sync_orders), the OrderManager they share, the *)
(* order ledger and the broker.                                            *)
(*                                                                         *)
(* The ledger is keyed by idempotency key, which is also the broker's      *)
(* client_order_id.  Every store call and the broker call is a step of its *)
(* own: no lock spans two of them, and the worker is another process.      *)
(* An exception of the broker call that is not on the lists of lost        *)
(* answers, a connection aborted say, counts as a refusal, although the    *)
(* order may have landed.                                                  *)
(* A row kept under a ":not-retry:" key is rejected and never looked up,   *)
(* so it is left out.                                                      *)
(***************************************************************************)
EXTENDS Naturals, FiniteSets

CONSTANTS
    Keys,      \* idempotency keys
    Desk,      \* Desk request threads
    Workers,   \* worker processes (the deployment runs one)
    Side,      \* "buy" or "sell": which of the worker's two paths is taken
    Answers    \* the answers of the broker that are considered

ASSUME SideAssumption == Side \in {"buy", "sell"}
ASSUME AnswerAssumption == Answers \subseteq {"accepted", "filled", "unmapped", "unknown", "refused", "aborted"}
ASSUME HandlerAssumption == Desk \cap Workers = {}

Handlers == Desk \cup Workers

Venue == {"open", "filled"}
Terminal == {"filled", "closed", "rejected"}
Statuses == {"none", "approved", "draft", "unknown", "open", "filled", "closed", "rejected"}
Rows == [status : Statuses, sticky : BOOLEAN]
Row(s, pinned) == [status |-> s, sticky |-> pinned]
NoRow == Row("none", FALSE)

VARIABLES
    ledger,    \* the order store: the row of each key
    broker,    \* what the broker has for each client_order_id
    journaled, \* history: keys whose accepted order has a journal entry
    disowned,  \* history: keys of orders the broker has whose call was read as a refusal
    pc,        \* where each handler is
    key,       \* the idempotency key of the handler's order
    resubmit,  \* safe_resubmit: the key is retried after an unknown acceptance
    replay,    \* replay_landed: a pinned order the venue has is journaled again
    result,    \* the order in the handler's hands, a copy of a row
    of         \* the key that copy belongs to

vars == <<ledger, broker, journaled, disowned, pc, key, resubmit, replay, result, of>>
locals == <<key, resubmit, replay, result, of>>

Stages == {"idle", "look", "gates", "reject", "om", "existing", "draft", "submit",
           "save", "journal", "settle", "settleFailed", "sync"}

TypeOK ==
    /\ ledger \in [Keys -> Rows]
    /\ broker \in [Keys -> {"none", "open", "filled", "closed"}]
    /\ journaled \subseteq Keys /\ disowned \subseteq Keys
    /\ pc \in [Handlers -> Stages]
    /\ key \in [Handlers -> Keys]
    /\ resubmit \in [Handlers -> BOOLEAN]
    /\ replay \in [Handlers -> BOOLEAN]
    /\ result \in [Handlers -> Rows]
    /\ of \in [Handlers -> Keys]

Init ==
    /\ ledger = [k \in Keys |-> NoRow]
    /\ broker = [k \in Keys |-> "none"]
    /\ journaled = {} /\ disowned = {}
    /\ pc = [h \in Handlers |-> "idle"]
    /\ key \in {[h \in Handlers |-> k] : k \in Keys}
    /\ resubmit = [h \in Handlers |-> FALSE]
    /\ replay = [h \in Handlers |-> FALSE]
    /\ result = [h \in Handlers |-> NoRow]
    /\ of = key

-----------------------------------------------------------------------------
\* Mutant: only a venue status counts as an open pin.
StickyOpen_VenueOnly(row) == row.sticky /\ row.status \in Venue

\* is_sticky_open, and the rows find_sticky_order matches.
StickyOpen(row) == row.sticky /\ (row.status = "unknown" \/ row.status \in Venue)
Pinned == {k \in Keys : StickyOpen(ledger[k])}

Transition(h, from, to) == pc[h] = from /\ pc' = [pc EXCEPT ![h] = to]
Save(k, row) == ledger' = [ledger EXCEPT ![k] = row]

\* The handler is done and forgets its order.
Return(h, from) ==
    /\ Transition(h, from, "idle")
    /\ resubmit' = [resubmit EXCEPT ![h] = FALSE]
    /\ replay' = [replay EXCEPT ![h] = FALSE]
    /\ result' = [result EXCEPT ![h] = NoRow]
    /\ of' = [of EXCEPT ![h] = key[h]]
    /\ UNCHANGED key

\* The handler holds its copy of key k's row as the order it will answer with.
Hold(h, k) == result' = [result EXCEPT ![h] = ledger[k]] /\ of' = [of EXCEPT ![h] = k]

-----------------------------------------------------------------------------
\* A Desk request brings the client's key, fresh or reused.
DeskArrive(h, k) ==
    /\ h \in Desk
    /\ Transition(h, "idle", "look")
    /\ key' = [key EXCEPT ![h] = k]
    /\ UNCHANGED <<ledger, broker, journaled, disowned, resubmit, replay, result, of>>

\* Nothing is pinned, or the pin is this key's and acceptance is unknown.
DeskLook(h) ==
    /\ h \in Desk
    /\ \/ Pinned = {}
       \/ key[h] \in Pinned /\ ledger[key[h]].status = "unknown"
    /\ Transition(h, "look", "gates")
    /\ UNCHANGED <<ledger, broker, journaled, disowned, locals>>

\* A pinned order the venue has, of this key or another: journal it again.
DeskReplay(h) ==
    /\ h \in Desk
    /\ \E k \in Pinned : ledger[k].status \in Venue /\ Hold(h, k)
    /\ Transition(h, "look", "journal")
    /\ replay' = [replay EXCEPT ![h] = TRUE]
    /\ UNCHANGED <<ledger, broker, journaled, disowned, key, resubmit>>

\* Another key is pinned and its acceptance is unknown: 502, nothing is done.
DeskBlind(h) ==
    /\ h \in Desk
    /\ \E k \in Pinned \ {key[h]} : ledger[k].status = "unknown"
    /\ Return(h, "look")
    /\ UNCHANGED <<ledger, broker, journaled, disowned>>

\* The worker trades the symbol: a buy only while no buy row is unfinished.
\* Its key is stamped with the time, so nobody has used it.
WorkerBegin(h, k) ==
    /\ h \in Workers
    /\ Side = "buy" => \A j \in Keys : ledger[j].status \in Terminal \cup {"none"}
    /\ ledger[k] = NoRow /\ \A g \in Handlers : pc[g] # "idle" => key[g] # k
    /\ Transition(h, "idle", "look")
    /\ key' = [key EXCEPT ![h] = k]
    /\ UNCHANGED <<ledger, broker, journaled, disowned, resubmit, replay, result, of>>

\* A pinned key is taken over, a fresh one is used when none is pinned.
WorkerLook(h) ==
    /\ h \in Workers
    /\ Transition(h, "look", "gates")
    /\ \/ Pinned = {} /\ UNCHANGED <<key, replay>>
       \/ \E k \in Pinned :
             /\ key' = [key EXCEPT ![h] = k]
             /\ replay' = [replay EXCEPT ![h] = ledger[k].status \in Venue]
    /\ UNCHANGED <<ledger, broker, journaled, disowned, resubmit, result, of>>

\* Kill switch, mandate, account, price, risk and daily slot let the order
\* through; it is stamped RISK_APPROVED.  process_signal looks its key up again.
GatesPass(h) ==
    /\ Transition(h, "gates", "om")
    /\ replay' = IF h \in Workers /\ Side = "buy"
                 THEN [replay EXCEPT ![h] = StickyOpen(ledger[key[h]])
                                            /\ ledger[key[h]].status \in Venue]
                 ELSE replay
    /\ UNCHANGED <<ledger, broker, journaled, disowned, key, resubmit, result, of>>

\* The worker's mandate and sizing gates skip a buy and leave no row.
SkipBuy(h) ==
    /\ h \in Workers /\ Side = "buy"
    /\ Return(h, "gates")
    /\ UNCHANGED <<ledger, broker, journaled, disowned>>

\* A rejected order keeps its key unless that would overwrite a pinned row
\* (detach_if_would_clobber_sticky).
BeginReject(h, from) ==
    /\ IF StickyOpen(ledger[key[h]]) THEN Return(h, from)
       ELSE Transition(h, from, "reject") /\ UNCHANGED locals
    /\ UNCHANGED <<ledger, broker, journaled, disowned>>

GateReject(h) == BeginReject(h, "gates")

\* _submit_sell turns an exception of submit_new_order (a store call raised)
\* into a rejected sell.
SellFails(h) ==
    /\ h \in Workers /\ Side = "sell"
    /\ \E from \in {"om", "existing", "draft", "save"} : BeginReject(h, from)

SaveReject(h) ==
    /\ Return(h, "reject")
    /\ Save(key[h], Row("rejected", FALSE))
    /\ UNCHANGED <<broker, journaled, disowned>>

-----------------------------------------------------------------------------
\* OrderManager.submit_new_order: another key is pinned, its row is the answer.
OmBlind(h) ==
    /\ \E k \in Pinned \ {key[h]} : Hold(h, k)
    /\ Transition(h, "om", "journal")
    /\ UNCHANGED <<ledger, broker, journaled, disowned, key, resubmit, replay>>

OmSticky(h) ==
    /\ Pinned = {} \/ key[h] \in Pinned
    /\ Transition(h, "om", "existing")
    /\ UNCHANGED <<ledger, broker, journaled, disowned, locals>>

\* The key has a row that is no pinned unknown: that row is the answer.
OmExisting(h) ==
    LET row == ledger[key[h]] IN
    /\ row # NoRow /\ row # Row("unknown", TRUE)
    /\ Hold(h, key[h])
    /\ Transition(h, "existing", "journal")
    /\ UNCHANGED <<ledger, broker, journaled, disowned, key, resubmit, replay>>

OmFresh(h) ==
    /\ ledger[key[h]] = NoRow
    /\ Transition(h, "existing", "draft")
    /\ UNCHANGED <<ledger, broker, journaled, disowned, locals>>

OmSafeResubmit(h) ==
    /\ ledger[key[h]] = Row("unknown", TRUE)
    /\ Transition(h, "existing", "submit")
    /\ resubmit' = [resubmit EXCEPT ![h] = TRUE]
    /\ UNCHANGED <<ledger, broker, journaled, disowned, key, replay, result, of>>

\* Mutant: the broker is called before the draft is saved.
OmSaveDraft_Skipped(h) ==
    /\ Transition(h, "draft", "submit")
    /\ UNCHANGED <<ledger, broker, journaled, disowned, locals>>

OmSaveDraft(h) ==
    /\ Transition(h, "draft", "submit")
    /\ Save(key[h], Row("approved", FALSE))
    /\ UNCHANGED <<broker, journaled, disowned, locals>>

\* Mutants: the first lost answer is not pinned; a safe retry that is refused
\* counts as a reject.
Answered_NoPin(h, answer) ==
    CASE answer = "accepted" -> Row("open", resubmit[h])
      [] answer = "filled"   -> Row("filled", resubmit[h])
      [] answer \in {"refused", "aborted"} -> Row("rejected", FALSE)
      [] OTHER               -> Row("unknown", resubmit[h])
Answered_RetryRejects(h, answer) ==
    CASE answer = "accepted" -> Row("open", resubmit[h])
      [] answer = "filled"   -> Row("filled", resubmit[h])
      [] answer \in {"refused", "aborted"} -> Row("rejected", FALSE)
      [] OTHER               -> Row("unknown", TRUE)

\* What the adapter and the OrderManager make of the broker's answer.  An
\* accepted order whose status the adapter does not know becomes a draft; a
\* safe retry that no venue status confirms stays unknown.
Answered(h, answer) ==
    CASE answer = "accepted" -> Row("open", resubmit[h])
      [] answer = "filled"   -> Row("filled", resubmit[h])
      [] answer = "unmapped" -> IF resubmit[h] THEN Row("unknown", TRUE) ELSE Row("draft", FALSE)
      [] answer = "unknown"  -> Row("unknown", TRUE)
      [] answer \in {"refused", "aborted"} ->
             IF resubmit[h] THEN Row("unknown", TRUE) ELSE Row("rejected", FALSE)

\* AlpacaBroker.submit_order.  A client_order_id the broker has is answered by
\* a 422, which counts as unknown; the connection may fail on either side, by an
\* exception that is known to leave the acceptance unknown or by another one.
OmSubmit(h) ==
    /\ Transition(h, "submit", "save")
    /\ \E answer \in Answers :
          /\ \/ /\ broker[key[h]] = "none" /\ answer # "refused"
                /\ broker' = [broker EXCEPT ![key[h]] = IF answer = "filled" THEN "filled" ELSE "open"]
             \/ /\ answer \in {"unknown", "refused", "aborted"}
                /\ UNCHANGED broker
          /\ result' = [result EXCEPT ![h] = Answered(h, answer)]
          /\ disowned' = IF answer = "aborted" /\ ~resubmit[h] /\ broker'[key[h]] # "none"
                         THEN disowned \cup {key[h]} ELSE disowned
    /\ of' = [of EXCEPT ![h] = key[h]]
    /\ UNCHANGED <<ledger, journaled, key, resubmit, replay>>

OmSaveResult(h) ==
    /\ Transition(h, "save", "journal")
    /\ Save(key[h], result[h])
    /\ UNCHANGED <<broker, journaled, disowned, locals>>

-----------------------------------------------------------------------------
\* record_from_order: the journal entry is written, or it is not.
Journal(h) ==
    \/ /\ Transition(h, "journal", "settle")
       /\ journaled' = IF result[h].status \in {"unknown", "rejected"}
                       THEN journaled ELSE journaled \cup {of[h]}
       /\ UNCHANGED <<ledger, broker, disowned, locals>>
    \/ /\ Transition(h, "journal", "settleFailed")
       /\ UNCHANGED <<ledger, broker, journaled, disowned, locals>>

\* pin_sticky: the handler's own copy of the row is saved with the pin.
MustPin(h) ==
    \/ pc[h] = "settleFailed" /\ result[h].status # "rejected"
    \/ h \in Desk /\ pc[h] = "settle" /\ (replay[h] \/ result[h].status = "unknown")

\* clear_sticky: the pin goes when this call saw the venue accept the order.
MayClear(h) ==
    /\ pc[h] = "settle" /\ ~replay[h] /\ result[h].sticky
    /\ \/ result[h].status \in Venue
       \/ h \in Workers /\ Side = "sell" /\ result[h].status # "unknown"

Settle(h) ==
    /\ \E from \in {"settle", "settleFailed"} : Return(h, from)
    /\ IF MustPin(h) THEN Save(of[h], Row(result[h].status, TRUE))
       ELSE IF MayClear(h) THEN Save(of[h], Row(result[h].status, FALSE))
       ELSE UNCHANGED ledger
    /\ UNCHANGED <<broker, journaled, disowned>>

\* The process dies, a store call raises, or a swallowed pin failure.
Abandon(h) ==
    /\ \E from \in Stages \ {"idle"} : Return(h, from)
    /\ UNCHANGED <<ledger, broker, journaled, disowned>>

-----------------------------------------------------------------------------
\* _sync_orders and sync_order_status: the row is read, the broker asked, and
\* the read copy saved with the broker's status, a draft when it is unmapped.
\* "closed" stands for cancelled, expired and rejected by the venue later on.
SyncRead(h, k) ==
    /\ h \in Workers /\ ledger[k].status = "open"
    /\ Transition(h, "idle", "sync")
    /\ Hold(h, k)
    /\ UNCHANGED <<ledger, broker, journaled, disowned, key, resubmit, replay>>

\* Mutant: an order the broker no longer works on is taken for a fill.
SyncWrite_AnyEndIsFill(h) ==
    /\ Return(h, "sync")
    /\ IF broker[of[h]] = "open" THEN UNCHANGED ledger
       ELSE Save(of[h], Row("filled", result[h].sticky))
    /\ UNCHANGED <<broker, journaled, disowned>>

SyncWrite(h) ==
    /\ Return(h, "sync")
    /\ \/ broker[of[h]] = "open" /\ UNCHANGED ledger
       \/ broker[of[h]] # "open" /\ Save(of[h], Row(broker[of[h]], result[h].sticky))
       \/ /\ broker[of[h]] = "open" /\ "unmapped" \in Answers
          /\ Save(of[h], Row("draft", result[h].sticky))
    /\ UNCHANGED <<broker, journaled, disowned>>

\* The broker fills an order, or cancels or expires it.
BrokerMoves(k) ==
    /\ broker[k] = "open"
    /\ \E s \in {"filled", "closed"} : broker' = [broker EXCEPT ![k] = s]
    /\ UNCHANGED <<ledger, journaled, disowned, pc, locals>>

-----------------------------------------------------------------------------
Begin(h) == \E k \in Keys : DeskArrive(h, k) \/ WorkerBegin(h, k) \/ SyncRead(h, k)

Proceed(h) ==
    \/ DeskLook(h) \/ DeskReplay(h) \/ DeskBlind(h) \/ WorkerLook(h)
    \/ GatesPass(h) \/ SkipBuy(h) \/ GateReject(h) \/ SaveReject(h)
    \/ OmBlind(h) \/ OmSticky(h) \/ OmExisting(h) \/ OmFresh(h) \/ OmSafeResubmit(h)
    \/ OmSaveDraft(h) \/ OmSubmit(h) \/ OmSaveResult(h)
    \/ Journal(h) \/ Settle(h) \/ SyncWrite(h)

Fault(h) == Abandon(h) \/ SellFails(h)

\* No crash, and no store call that raises.
SteadyNext ==
    \/ \E h \in Handlers : Begin(h) \/ Proceed(h)
    \/ \E k \in Keys : BrokerMoves(k)

Next == SteadyNext \/ \E h \in Handlers : Fault(h)

\* Nor does a request start while another is under way.
SerialNext ==
    \/ \E h \in Handlers :
          \/ (\A g \in Handlers : pc[g] = "idle") /\ Begin(h)
          \/ Proceed(h)
    \/ \E k \in Keys : BrokerMoves(k)

Spec == Init /\ [][Next]_vars
SteadySpec == Init /\ [][SteadyNext]_vars
SerialSpec == Init /\ [][SerialNext]_vars

-----------------------------------------------------------------------------
Landed == {k \in Keys : broker[k] # "none"}

\* An order is in doubt while its acceptance is unknown, and while the broker
\* has it alive and no journal entry says so, unless the code took the exception
\* of its first call for a refusal.
InDoubt(k) ==
    \/ ledger[k].status = "unknown"
    \/ broker[k] \in {"open", "filled"} /\ k \notin journaled \cup disowned

Promise == INSTANCE PlaceOnce WITH landed <- Landed \ disowned, doubt <- {k \in Keys : InDoubt(k)}

\* "A fresh key must not submit again while acceptance is unknown or the broker
\* order is not durably journaled" (desk_orders.py:550): the order path
\* implements PlaceOnce with the orders it knows to be at the broker or in doubt.
\* An order whose first call ended in an exception that is on no list of lost
\* answers (order_manager.py:175) is not among them, though it may have landed.
PlacesOnce == Promise!Spec

\* "A safe retry that fails any other way also keeps the pin: the first request
\* may have been accepted" (order_manager.py:158): an unknown acceptance ends
\* only in an accept of the same key, never in a reject or another draft.
UnknownEndsAtVenue ==
    [][\A k \in Keys : ledger[k].status = "unknown" => ledger'[k].status \in {"unknown", "open", "filled"}]_vars

\* Whatever the interleaving and whoever dies, a row of unknown acceptance
\* carries the pin: no stale copy saved by another handler, by a replay or by
\* the sync leaves an unknown order without one (sticky_idempotency.py:147).
UnknownIsPinned == \A k \in Keys : ledger[k].status = "unknown" => ledger[k].sticky

\* The broker never has an order the ledger has no row for: the draft is saved
\* before the broker is called, and no step removes a row (order_manager.py:143).
LandedIsRecorded == \A k \in Landed : ledger[k] # NoRow

\* The ledger calls an order filled or closed only when the broker does.
NoInventedOutcome ==
    \A k \in Keys : ledger[k].status \in {"filled", "closed"} => broker[k] = ledger[k].status
=============================================================================
