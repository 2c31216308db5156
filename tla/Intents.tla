------------------------------ MODULE Intents ------------------------------
(***************************************************************************)
(* The intent ledger (JSONIntentStore), the Desk API that writes and       *)
(* cancels intents, and the realtime consumer (consume_active_intents)     *)
(* that expires them or hands them on to process_signal.                   *)
(*                                                                         *)
(* A store call takes the file lock and reloads, so it is one step; no     *)
(* lock spans two calls, and the consumer is another process.  It works on *)
(* the copies of the rows that its list call returned, and on the time at  *)
(* which its tick began.                                                   *)
(***************************************************************************)
EXTENDS Naturals, FiniteSets

CONSTANTS
    Ids,        \* intent ids
    Books,      \* symbol and side
    Buys,       \* the books that buy: their orders take a daily slot
    Consumers,  \* worker processes (the deployment runs one)
    MaxTime,    \* bound of the clock
    MaxOrders   \* max_daily_orders

ASSUME BookAssumption == Buys \subseteq Books /\ "none" \notin Books
ASSUME IdAssumption == Ids # {}
ASSUME ConsumerAssumption == IsFiniteSet(Consumers)
ASSUME BoundAssumption == MaxTime \in Nat /\ MaxOrders \in Nat

Terminal == {"consumed", "cancelled", "expired"}
Rows == [status : {"none", "active"} \cup Terminal, book : Books \cup {"none"}, expiry : 0..MaxTime]
NoRow == [status |-> "none", book |-> "none", expiry |-> 0]

Items == [id : Ids, row : Rows]
NoItem == [id |-> CHOOSE i \in Ids : TRUE, row |-> NoRow]

VARIABLES
    store,   \* the ledger: the row of each id
    now,     \* the clock
    slots,   \* the daily order count
    pc,      \* where each consumer is
    when,    \* the time its tick began
    todo,    \* the listed rows it has not come to
    item,    \* the listed row it has reserved for
    handed,  \* history: how often an intent was handed to process_signal
    orders   \* history: the orders process_signal placed

vars == <<store, now, slots, pc, when, todo, item, handed, orders>>

Stages == {"idle", "listStale", "expire", "listActive", "consume", "claim", "hand"}

TypeOK ==
    /\ store \in [Ids -> Rows]
    /\ now \in 0..MaxTime
    /\ slots \in Nat
    /\ pc \in [Consumers -> Stages]
    /\ when \in [Consumers -> 0..MaxTime]
    /\ todo \in [Consumers -> SUBSET Items]
    /\ item \in [Consumers -> Items]
    /\ handed \in [Ids -> Nat]
    /\ orders \subseteq [id : Ids, book : Books \cup {"none"}]

Init ==
    /\ store = [i \in Ids |-> NoRow]
    /\ now = 0
    /\ slots = 0
    /\ pc = [c \in Consumers |-> "idle"]
    /\ when = [c \in Consumers |-> 0]
    /\ todo = [c \in Consumers |-> {}]
    /\ item = [c \in Consumers |-> NoItem]
    /\ handed = [i \in Ids |-> 0]
    /\ orders = {}

-----------------------------------------------------------------------------
IsActive(i) == store[i].status = "active"
\* Mutant: the row is still good at its expiry.
IsExpired_Strict(row, t) == row.expiry < t
IsExpired(row, t) == row.expiry <= t
ActiveItems == {[id |-> i, row |-> store[i]] : i \in {j \in Ids : IsActive(j)}}

SetStatus(i, status) == store' = [store EXCEPT ![i].status = status]

Release == slots' = IF slots = 0 THEN 0 ELSE slots - 1

Transition(c, from, to) == pc[c] = from /\ pc' = [pc EXCEPT ![c] = to]

\* The consumer forgets the row it reserved for.
Drop(c) == item' = [item EXCEPT ![c] = NoItem]

\* Mutant: the other active rows of the book stay active.
Upsert_KeepsOthers(i, book, expiry) ==
    /\ store[i].status \notin Terminal
    /\ store' = [store EXCEPT ![i] = [status |-> "active", book |-> book, expiry |-> expiry]]
    /\ UNCHANGED <<now, slots, pc, when, todo, item, handed, orders>>

\* POST /api/intents: the row is written or replaced, a terminal one never,
\* and the other active rows of the book are cancelled.
Upsert(i, book, expiry) ==
    /\ store[i].status \notin Terminal
    /\ store' = [j \in Ids |->
          IF j = i THEN [status |-> "active", book |-> book, expiry |-> expiry]
          ELSE IF IsActive(j) /\ store[j].book = book THEN [store[j] EXCEPT !.status = "cancelled"]
          ELSE store[j]]
    /\ UNCHANGED <<now, slots, pc, when, todo, item, handed, orders>>

\* POST /api/intents/{id}/cancel: 409 unless active.
Cancel(i) ==
    /\ IsActive(i)
    /\ SetStatus(i, "cancelled")
    /\ UNCHANGED <<now, slots, pc, when, todo, item, handed, orders>>

Tick ==
    /\ now < MaxTime
    /\ now' = now + 1
    /\ UNCHANGED <<store, slots, pc, when, todo, item, handed, orders>>

\* The worker has seen an active row and calls the consumer: its time is now.
BeginTick(c) ==
    /\ \E i \in Ids : IsActive(i)
    /\ Transition(c, "idle", "listStale")
    /\ when' = [when EXCEPT ![c] = now]
    /\ UNCHANGED <<store, now, slots, todo, item, handed, orders>>

\* expire_stale_intents lists the active rows and keeps those past expiry.
ListStale(c) ==
    /\ Transition(c, "listStale", "expire")
    /\ todo' = [todo EXCEPT ![c] = {x \in ActiveItems : IsExpired(x.row, when[c])}]
    /\ UNCHANGED <<store, now, slots, when, item, handed, orders>>

\* Mutant: the row is expired whatever became of it.
ExpireOne_Overwrites(c) ==
    /\ pc[c] = "expire"
    /\ \E x \in todo[c] : todo' = [todo EXCEPT ![c] = @ \ {x}] /\ SetStatus(x.id, "expired")
    /\ UNCHANGED <<now, slots, pc, when, item, handed, orders>>

\* It expires one by id, if the row of that id is still active.
ExpireOne(c) ==
    /\ pc[c] = "expire"
    /\ \E x \in todo[c] :
          /\ todo' = [todo EXCEPT ![c] = @ \ {x}]
          /\ IF IsActive(x.id) THEN SetStatus(x.id, "expired") ELSE UNCHANGED store
    /\ UNCHANGED <<now, slots, pc, when, item, handed, orders>>

\* Every stale row was tried; a killed worker goes no further.
ExpireDone(c) ==
    /\ todo[c] = {}
    /\ Transition(c, "expire", "listActive") \/ Transition(c, "expire", "idle")
    /\ UNCHANGED <<store, now, slots, when, todo, item, handed, orders>>

ListActive(c) ==
    /\ Transition(c, "listActive", "consume")
    /\ todo' = [todo EXCEPT ![c] = ActiveItems]
    /\ UNCHANGED <<store, now, slots, when, item, handed, orders>>

\* A listed row is passed over: it is past expiry, or has no price, no size,
\* no mandate or no daily slot, or its evaluation raises.
Skip(c) ==
    /\ pc[c] = "consume"
    /\ \E x \in todo[c] : todo' = [todo EXCEPT ![c] = @ \ {x}]
    /\ UNCHANGED <<store, now, slots, pc, when, item, handed, orders>>

\* A consumable row passes the mandate and the sizer; a buy reserves a slot.
Reserve(c) ==
    /\ Transition(c, "consume", "claim")
    /\ \E x \in todo[c] :
          /\ ~IsExpired(x.row, when[c])
          /\ todo' = [todo EXCEPT ![c] = @ \ {x}]
          /\ item' = [item EXCEPT ![c] = x]
          /\ IF x.row.book \in Buys THEN slots < MaxOrders /\ slots' = slots + 1 ELSE UNCHANGED slots
    /\ UNCHANGED <<store, now, when, handed, orders>>

\* Mutant: the status is written, not compared.
Claim_NoCompare(c) ==
    /\ Transition(c, "claim", "hand")
    /\ SetStatus(item[c].id, "consumed")
    /\ UNCHANGED <<now, slots, when, todo, item, handed, orders>>

\* Mutant: a lost claim goes unnoticed.
Claim_Unnoticed(c) ==
    /\ Transition(c, "claim", "hand")
    /\ IF IsActive(item[c].id) THEN SetStatus(item[c].id, "consumed") ELSE UNCHANGED store
    /\ UNCHANGED <<now, slots, when, todo, item, handed, orders>>

\* claim_for_consume: active -> consumed, by id.
Claim(c) ==
    /\ Transition(c, "claim", "hand")
    /\ IsActive(item[c].id)
    /\ SetStatus(item[c].id, "consumed")
    /\ UNCHANGED <<now, slots, when, todo, item, handed, orders>>

\* Mutant: the status is saved, and then the store raises.
ClaimRaises_AfterSave(c) ==
    /\ Transition(c, "claim", "consume")
    /\ IF IsActive(item[c].id) THEN SetStatus(item[c].id, "consumed") ELSE UNCHANGED store
    /\ Drop(c)
    /\ UNCHANGED <<now, slots, when, todo, handed, orders>>

\* A cancel or an expiry won: the slot is given back.
ClaimLost(c) ==
    /\ Transition(c, "claim", "consume")
    /\ ~IsActive(item[c].id)
    /\ IF item[c].row.book \in Buys THEN Release ELSE UNCHANGED slots
    /\ Drop(c)
    /\ UNCHANGED <<store, now, when, todo, handed, orders>>

\* The store raises, or the claim is lost and the slot cannot be given back:
\* the loop goes on with the next row, the slot stays taken.
ClaimRaises(c) ==
    /\ Transition(c, "claim", "consume")
    /\ Drop(c)
    /\ UNCHANGED <<store, now, slots, when, todo, handed, orders>>

HandTo(c) ==
    /\ Transition(c, "hand", "consume")
    /\ handed' = [handed EXCEPT ![item[c].id] = @ + 1]
    /\ Drop(c)
    /\ UNCHANGED <<store, now, when, todo>>

\* Mutant: the slot is given back once the order is placed.
Placed_GivesBack(c) ==
    /\ HandTo(c)
    /\ orders' = orders \cup {[id |-> item[c].id, book |-> item[c].row.book]}
    /\ Release

\* process_signal places the order, journaled or not.  (A TypeError makes the
\* consumer call it again with the same idempotency key.)
Placed(c) ==
    /\ HandTo(c)
    /\ orders' = orders \cup {[id |-> item[c].id, book |-> item[c].row.book]}
    /\ UNCHANGED slots

\* The risk gates reject it: the slot is given back.
RiskRejected(c) ==
    /\ HandTo(c)
    /\ IF item[c].row.book \in Buys THEN Release ELSE UNCHANGED slots
    /\ UNCHANGED orders

\* It raises, or answers with an order that the broker rejected, or the slot
\* of a risk reject cannot be given back: the slot stays taken.
NotPlaced(c) == HandTo(c) /\ UNCHANGED <<slots, orders>>

EndTick(c) ==
    /\ todo[c] = {}
    /\ Transition(c, "consume", "idle")
    /\ UNCHANGED <<store, now, slots, when, todo, item, handed, orders>>

\* The process dies, or a list call raises and ends the tick.
Stop(c) ==
    /\ pc[c] # "idle"
    /\ pc' = [pc EXCEPT ![c] = "idle"]
    /\ todo' = [todo EXCEPT ![c] = {}]
    /\ Drop(c)
    /\ UNCHANGED <<store, now, slots, when, handed, orders>>

Consume(c) ==
    \/ BeginTick(c) \/ ListStale(c) \/ ExpireOne(c) \/ ExpireDone(c) \/ ListActive(c)
    \/ Skip(c) \/ Reserve(c) \/ Claim(c) \/ ClaimLost(c) \/ ClaimRaises(c)
    \/ Placed(c) \/ RiskRejected(c) \/ NotPlaced(c) \/ EndTick(c)

Desk ==
    \E i \in Ids :
       \/ \E book \in Books, expiry \in 1..MaxTime : Upsert(i, book, expiry)
       \/ Cancel(i)

SteadyNext == Desk \/ Tick \/ \E c \in Consumers : Consume(c)
Next == SteadyNext \/ \E c \in Consumers : Stop(c)

Spec == Init /\ [][Next]_vars
SteadySpec == Init /\ [][SteadyNext]_vars

\* The clock goes on, the worker begins a cycle again and again, and its store
\* calls return.
RunningSpec ==
    /\ SteadySpec
    /\ WF_vars(Tick)
    /\ \A c \in Consumers : WF_vars(Consume(c))

-----------------------------------------------------------------------------
Life == INSTANCE IntentLife
    WITH status <- [i \in Ids |-> store[i].status], handed <- {i \in Ids : handed[i] > 0}

\* The ledger, the Desk and the consumer implement the promise of the ledger:
\* nothing ends twice or comes back, and an intent is handed on at most once
\* and only after it was consumed.
KeepsIntentLife == Life!Spec

\* "CAS active -> consumed before process_signal" (store.py:222): no intent is
\* handed to process_signal twice, whatever consumers, cancels and rewrites do.
HandedOnce == \A i \in Ids : handed[i] <= 1

\* "Replaces prior active intent for symbol+side" (writer.py:39): two active
\* intents never stand for the same symbol and side.
OneActivePerBook ==
    \A i, j \in Ids : IsActive(i) /\ IsActive(j) /\ store[i].book = store[j].book => i = j

\* "A later cancel is 409 and cannot race a submit" (harness_realtime.py:448):
\* an order comes only from an intent the ledger says was consumed.
OrdersAreConsumed == \A o \in orders : store[o.id].status = "consumed" /\ handed[o.id] = 1

\* A slot is reserved before the order and given back only when there is none:
\* every buy that was placed still holds one, so the limit bounds them
\* (harness_realtime.py:418 and :519).
OrdersHoldSlots ==
    /\ Cardinality({o \in orders : o.book \in Buys}) <= slots
    /\ slots <= MaxOrders

\* "Mark active intents past expiry as expired" (harness_realtime.py:73): no
\* intent stays active past its expiry for ever.
ExpiredEnds == \A i \in Ids : IsActive(i) ~> ~IsActive(i)

\* "consumed means H1 handed the intent to process_signal" (harness_realtime.py:14):
\* unless a worker dies, a consumed intent was handed on or is about to be.
ConsumedWasHandedOn ==
    \A i \in Ids : store[i].status = "consumed" =>
       handed[i] = 1 \/ \E c \in Consumers : pc[c] = "hand" /\ item[c].id = i
=============================================================================
