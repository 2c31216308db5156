-------------------------- MODULE Intents_proofs --------------------------
(***************************************************************************)
(* For any ids, books, consumers and bounds: an intent is handed to        *)
(* process_signal at most once and only consumed, one intent is active     *)
(* for each book, the ledger implements IntentLife, every placed buy holds *)
(* a daily slot, and while nothing dies consumed means handed on.          *)
(***************************************************************************)
EXTENDS Intents, FiniteSetTheorems, TLAPS

Orders == [id : Ids, book : Books \cup {"none"}]

\* What a consumer that has claimed an intent knows of it: it is consumed, was
\* not handed on yet, and nobody else has claimed it.
Claimed ==
    /\ \A c \in Consumers : pc[c] = "hand" =>
          store[item[c].id].status = "consumed" /\ handed[item[c].id] = 0
    /\ \A c, d \in Consumers :
          pc[c] = "hand" /\ pc[d] = "hand" /\ item[c].id = item[d].id => c = d

HandedAreConsumed == \A i \in Ids : handed[i] > 0 => store[i].status = "consumed"
OrdersWereHanded == \A o \in orders : handed[o.id] > 0

IInv ==
    /\ TypeOK
    /\ HandedOnce
    /\ HandedAreConsumed
    /\ Claimed
    /\ OrdersWereHanded
    /\ OneActivePerBook

-----------------------------------------------------------------------------
\* NoRow is a row, and NoItem an item.
LEMMA NothingIsTyped == NoRow \in Rows /\ NoItem \in Items
<1>1. NoRow \in Rows
  BY BoundAssumption DEF NoRow, Rows
<1>2. (CHOOSE i \in Ids : TRUE) \in Ids
  BY IdAssumption
<1> QED
  BY <1>1, <1>2 DEF NoItem, Items

LEMMA InitIInv == Init => IInv
<1> SUFFICES ASSUME Init PROVE IInv
  OBVIOUS
<1>1. TypeOK
  BY NothingIsTyped, BoundAssumption DEF Init, TypeOK, Stages
<1>2. HandedOnce /\ HandedAreConsumed /\ Claimed /\ OrdersWereHanded
  BY DEF Init, HandedOnce, HandedAreConsumed, Claimed, OrdersWereHanded
<1>3. OneActivePerBook
  BY DEF Init, OneActivePerBook, IsActive, NoRow
<1> QED
  BY <1>1, <1>2, <1>3 DEF IInv

\* A step of the ledger alone, in which no row that has ended changes and no
\* row becomes active again that shares its book with an active one.
LEMMA LedgerKeeps ==
    ASSUME IInv, store' \in [Ids -> Rows], OneActivePerBook',
           \A i \in Ids : store[i].status = "consumed" => store'[i] = store[i],
           UNCHANGED <<pc, item, handed, orders>>,
           now' \in 0..MaxTime, slots' \in Nat,
           when' \in [Consumers -> 0..MaxTime], todo' \in [Consumers -> SUBSET Items]
    PROVE  IInv'
<1>1. TypeOK'
  BY DEF IInv, TypeOK
<1>2. HandedOnce' /\ HandedAreConsumed' /\ OrdersWereHanded'
  BY DEF IInv, TypeOK, HandedOnce, HandedAreConsumed, OrdersWereHanded
<1>3. Claimed'
  <2>1. \A c \in Consumers : item[c].id \in Ids
    BY DEF IInv, TypeOK, Items
  <2> QED
    BY <2>1 DEF IInv, Claimed
<1> QED
  BY <1>1, <1>2, <1>3 DEF IInv

\* A step of one consumer that touches no row and claims nothing.
LEMMA ConsumerKeeps ==
    ASSUME IInv, NEW c \in Consumers, NEW to \in Stages \ {"hand"}, NEW x \in Items,
           pc' = [pc EXCEPT ![c] = to],
           item' = [item EXCEPT ![c] = x],
           UNCHANGED <<store, now, handed, orders>>, slots' \in Nat,
           when' \in [Consumers -> 0..MaxTime], todo' \in [Consumers -> SUBSET Items]
    PROVE  IInv'
<1>1. TypeOK'
  BY DEF IInv, TypeOK
<1>2. HandedOnce' /\ HandedAreConsumed' /\ OrdersWereHanded'
  BY DEF IInv, HandedOnce, HandedAreConsumed, OrdersWereHanded
<1>3. OneActivePerBook'
  BY DEF IInv, OneActivePerBook, IsActive
<1>4. Claimed'
  BY DEF IInv, TypeOK, Claimed
<1> QED
  BY <1>1, <1>2, <1>3, <1>4 DEF IInv

\* A row that ends leaves at most one active row of each book.
LEMMA EndKeepsBooks ==
    ASSUME TypeOK, OneActivePerBook, NEW i \in Ids, NEW s \in Terminal, SetStatus(i, s)
    PROVE  store' \in [Ids -> Rows] /\ OneActivePerBook'
<1>1. store' = [store EXCEPT ![i].status = s] /\ s \notin {"active", "none"}
  BY DEF SetStatus, Terminal
<1>2. store' \in [Ids -> Rows]
  BY <1>1 DEF TypeOK, Rows, Terminal
<1>3. OneActivePerBook'
  BY <1>1 DEF TypeOK, Rows, OneActivePerBook, IsActive
<1> QED
  BY <1>2, <1>3

LEMMA DeskKeeps == ASSUME IInv, Desk PROVE IInv'
<1>1. ASSUME NEW i \in Ids, NEW book \in Books, NEW expiry \in 1..MaxTime, Upsert(i, book, expiry)
      PROVE  IInv'
  <2>1. store' \in [Ids -> Rows]
    <3>1. [status |-> "active", book |-> book, expiry |-> expiry] \in Rows
      BY BoundAssumption DEF Rows
    <3>2. \A j \in Ids : [store[j] EXCEPT !.status = "cancelled"] \in Rows /\ store[j] \in Rows
      BY DEF IInv, TypeOK, Rows, Terminal
    <3> QED
      BY <1>1, <3>1, <3>2 DEF Upsert
  <2>2. OneActivePerBook'
    <3>1. \A j \in Ids : store'[j].status = "active" /\ j # i =>
             store'[j] = store[j] /\ store[j].status = "active" /\ store[j].book # book
      BY <1>1 DEF Upsert, IsActive, IInv, TypeOK, Rows
    <3>2. store'[i].book = book
      BY <1>1 DEF Upsert
    <3> QED
      BY <3>1, <3>2 DEF IInv, OneActivePerBook, IsActive
  <2>3. \A j \in Ids : store[j].status = "consumed" => store'[j] = store[j]
    BY <1>1 DEF Upsert, IsActive, Terminal
  <2> QED
    BY <1>1, <2>1, <2>2, <2>3, LedgerKeeps DEF Upsert, IInv, TypeOK
<1>2. ASSUME NEW i \in Ids, Cancel(i) PROVE IInv'
  <2>1. store' \in [Ids -> Rows] /\ OneActivePerBook'
    BY <1>2, EndKeepsBooks DEF Cancel, Terminal, IInv
  <2>2. \A j \in Ids : store[j].status = "consumed" => store'[j] = store[j]
    BY <1>2 DEF Cancel, SetStatus, IsActive, IInv, TypeOK
  <2> QED
    BY <1>2, <2>1, <2>2, LedgerKeeps DEF Cancel, IInv, TypeOK
<1> QED
  BY <1>1, <1>2 DEF Desk

LEMMA TickKeeps == ASSUME IInv, Tick PROVE IInv'
<1>1. now' \in 0..MaxTime /\ OneActivePerBook'
  BY BoundAssumption DEF Tick, IInv, TypeOK, OneActivePerBook, IsActive
<1> QED
  BY <1>1, LedgerKeeps DEF Tick, IInv, TypeOK

\* The listed rows are items.
LEMMA ListedAreItems == ASSUME TypeOK PROVE ActiveItems \subseteq Items
  BY DEF TypeOK, ActiveItems, Items

\* The steps before the claim and after it, and the end of a tick.
LEMMA LoopKeeps ==
    ASSUME IInv, NEW c \in Consumers,
           \/ BeginTick(c) \/ ListStale(c) \/ ExpireDone(c) \/ ListActive(c) \/ Skip(c) \/ EndTick(c)
    PROVE  IInv'
<1>1. item' = [item EXCEPT ![c] = item[c]] /\ item[c] \in Items /\ slots' \in Nat
  BY DEF BeginTick, ListStale, ExpireDone, ListActive, Skip, EndTick, IInv, TypeOK
<1>2. UNCHANGED <<store, now, handed, orders>>
  BY DEF BeginTick, ListStale, ExpireDone, ListActive, Skip, EndTick
<1>3. \E to \in Stages \ {"hand"} : pc' = [pc EXCEPT ![c] = to]
  <2>1. CASE Skip(c)
    BY <2>1 DEF Skip, IInv, TypeOK, Stages
  <2> QED
    BY <2>1 DEF BeginTick, ListStale, ExpireDone, ListActive, EndTick, Transition, Stages
<1>4. when' \in [Consumers -> 0..MaxTime]
  BY DEF BeginTick, ListStale, ExpireDone, ListActive, Skip, EndTick, IInv, TypeOK
<1>5. todo' \in [Consumers -> SUBSET Items]
  <2>1. {x \in ActiveItems : IsExpired(x.row, when[c])} \subseteq Items /\ ActiveItems \subseteq Items
    BY ListedAreItems DEF IInv
  <2> QED
    BY <2>1 DEF BeginTick, ListStale, ExpireDone, ListActive, Skip, EndTick, IInv, TypeOK
<1> QED
  BY <1>1, <1>2, <1>3, <1>4, <1>5, ConsumerKeeps

LEMMA ExpireKeeps == ASSUME IInv, NEW c \in Consumers, ExpireOne(c) PROVE IInv'
<1>1. PICK x \in todo[c] :
        /\ todo' = [todo EXCEPT ![c] = @ \ {x}]
        /\ IF IsActive(x.id) THEN SetStatus(x.id, "expired") ELSE UNCHANGED store
  BY DEF ExpireOne
<1>2. x.id \in Ids /\ todo' \in [Consumers -> SUBSET Items]
  BY <1>1 DEF IInv, TypeOK, Items
<1>3. store' \in [Ids -> Rows] /\ OneActivePerBook'
  <2>1. CASE IsActive(x.id)
    BY <1>1, <1>2, <2>1, EndKeepsBooks DEF IInv, Terminal
  <2>2. CASE ~IsActive(x.id)
    BY <1>1, <2>2 DEF IInv, TypeOK, OneActivePerBook, IsActive
  <2> QED
    BY <2>1, <2>2
<1>4. \A j \in Ids : store[j].status = "consumed" => store'[j] = store[j]
  BY <1>1, <1>2 DEF SetStatus, IsActive, IInv, TypeOK
<1> QED
  BY <1>2, <1>3, <1>4, LedgerKeeps DEF ExpireOne, IInv, TypeOK

LEMMA ReserveKeeps == ASSUME IInv, NEW c \in Consumers, Reserve(c) PROVE IInv'
<1>1. PICK x \in todo[c] :
        /\ todo' = [todo EXCEPT ![c] = @ \ {x}]
        /\ item' = [item EXCEPT ![c] = x]
        /\ IF x.row.book \in Buys THEN slots < MaxOrders /\ slots' = slots + 1 ELSE UNCHANGED slots
  BY DEF Reserve
<1>2. x \in Items /\ todo' \in [Consumers -> SUBSET Items] /\ slots' \in Nat
  BY <1>1 DEF IInv, TypeOK
<1>3. pc' = [pc EXCEPT ![c] = "claim"] /\ "claim" \in Stages \ {"hand"}
  BY DEF Reserve, Transition, Stages
<1> QED
  BY <1>1, <1>2, <1>3, ConsumerKeeps DEF Reserve, IInv, TypeOK

LEMMA NoClaimKeeps ==
    ASSUME IInv, NEW c \in Consumers, ClaimLost(c) \/ ClaimRaises(c) \/ Stop(c) PROVE IInv'
<1>1. slots' \in Nat
  BY DEF ClaimLost, ClaimRaises, Stop, Release, IInv, TypeOK
<1>2. item' = [item EXCEPT ![c] = NoItem] /\ NoItem \in Items
  BY NothingIsTyped DEF ClaimLost, ClaimRaises, Stop, Drop
<1>3. \E to \in Stages \ {"hand"} : pc' = [pc EXCEPT ![c] = to]
  BY DEF ClaimLost, ClaimRaises, Stop, Transition, Stages
<1>4. todo' \in [Consumers -> SUBSET Items] /\ when' \in [Consumers -> 0..MaxTime]
  BY DEF ClaimLost, ClaimRaises, Stop, IInv, TypeOK
<1>5. UNCHANGED <<store, now, handed, orders>>
  BY DEF ClaimLost, ClaimRaises, Stop
<1> QED
  BY <1>1, <1>2, <1>3, <1>4, <1>5, ConsumerKeeps

\* The claim finds the row active, so nobody has claimed it and it was never
\* handed on.
LEMMA ClaimKeeps == ASSUME IInv, NEW c \in Consumers, Claim(c) PROVE IInv'
<1> DEFINE i == item[c].id
<1>1. /\ i \in Ids /\ store[i].status = "active"
      /\ SetStatus(i, "consumed") /\ store' = [store EXCEPT ![i].status = "consumed"]
      /\ pc' = [pc EXCEPT ![c] = "hand"]
      /\ UNCHANGED <<now, slots, when, todo, item, handed, orders>>
  BY DEF Claim, Transition, SetStatus, IsActive, IInv, TypeOK, Items
<1>2. store' \in [Ids -> Rows] /\ OneActivePerBook'
  BY <1>1, EndKeepsBooks DEF IInv, Terminal
<1>3. TypeOK'
  BY <1>1, <1>2 DEF IInv, TypeOK, Stages
<1>4. handed[i] = 0
  BY <1>1 DEF IInv, TypeOK, HandedAreConsumed
<1>5. \A j \in Ids : store[j].status = "consumed" => store'[j].status = "consumed"
  BY <1>1 DEF IInv, TypeOK
<1>6. store'[i].status = "consumed"
  BY <1>1 DEF IInv, TypeOK, Rows
<1>7. HandedOnce' /\ HandedAreConsumed' /\ OrdersWereHanded'
  BY <1>1, <1>5 DEF IInv, HandedOnce, HandedAreConsumed, OrdersWereHanded
<1>8. Claimed'
  <2>1. \A d \in Consumers : item[d].id \in Ids
    BY DEF IInv, TypeOK, Items
  <2>2. \A d \in Consumers \ {c} : pc'[d] = pc[d] /\ (pc[d] = "hand" => item[d].id # i)
    BY <1>1 DEF IInv, TypeOK, Claimed
  <2>3. \A d \in Consumers \ {c} : pc'[d] = "hand" =>
           store'[item'[d].id].status = "consumed" /\ handed'[item'[d].id] = 0
    BY <1>1, <1>5, <2>1, <2>2 DEF IInv, Claimed
  <2>4. store'[item'[c].id].status = "consumed" /\ handed'[item'[c].id] = 0
    BY <1>1, <1>4, <1>6
  <2>5. \A d, e \in Consumers :
           pc'[d] = "hand" /\ pc'[e] = "hand" /\ item'[d].id = item'[e].id => d = e
    BY <1>1, <2>2 DEF IInv, Claimed
  <2> QED
    BY <2>3, <2>4, <2>5 DEF Claimed
<1> QED
  BY <1>2, <1>3, <1>7, <1>8 DEF IInv

\* The hand-over counts an intent that was not counted before.
LEMMA HandKeeps ==
    ASSUME IInv, NEW c \in Consumers, Placed(c) \/ RiskRejected(c) \/ NotPlaced(c) PROVE IInv'
<1> DEFINE i == item[c].id
<1>1. /\ pc[c] = "hand" /\ pc' = [pc EXCEPT ![c] = "consume"]
      /\ handed' = [handed EXCEPT ![i] = @ + 1]
      /\ item' = [item EXCEPT ![c] = NoItem]
      /\ UNCHANGED <<store, now, when, todo>>
  BY DEF Placed, RiskRejected, NotPlaced, HandTo, Transition, Drop
<1>2. i \in Ids /\ handed[i] = 0 /\ store[i].status = "consumed"
  BY <1>1 DEF IInv, TypeOK, Claimed, Items
<1>3. slots' \in Nat
  BY DEF Placed, RiskRejected, NotPlaced, Release, IInv, TypeOK
<1>4. orders' \subseteq orders \cup {[id |-> i, book |-> item[c].row.book]}
  BY DEF Placed, RiskRejected, NotPlaced
<1>5. [id |-> i, book |-> item[c].row.book] \in Orders
  BY <1>2 DEF IInv, TypeOK, Items, Rows, Orders
<1>6. handed' \in [Ids -> Nat] /\ handed'[i] = 1 /\ \A j \in Ids \ {i} : handed'[j] = handed[j]
  BY <1>1, <1>2 DEF IInv, TypeOK
<1>7. TypeOK'
  BY <1>1, <1>3, <1>4, <1>5, <1>6, NothingIsTyped DEF IInv, TypeOK, Orders, Stages
<1>8. HandedOnce' /\ HandedAreConsumed'
  BY <1>1, <1>2, <1>6 DEF IInv, HandedOnce, HandedAreConsumed
<1>9. OrdersWereHanded'
  <2> SUFFICES ASSUME NEW o \in orders' PROVE handed'[o.id] > 0
    BY DEF OrdersWereHanded
  <2>1. CASE o \in orders
    <3>1. o.id \in Ids /\ handed[o.id] > 0
      BY <2>1 DEF IInv, TypeOK, OrdersWereHanded
    <3> QED
      BY <3>1, <1>6
  <2>2. CASE o = [id |-> i, book |-> item[c].row.book]
    BY <1>6, <2>2
  <2> QED
    BY <1>4, <2>1, <2>2
<1>10. OneActivePerBook'
  BY <1>1 DEF IInv, OneActivePerBook, IsActive
<1>11. Claimed'
  <2>1. \A d \in Consumers : item[d].id \in Ids
    BY DEF IInv, TypeOK, Items
  <2>2. pc'[c] # "hand" /\ \A d \in Consumers \ {c} : pc'[d] = pc[d] /\ item'[d] = item[d]
    BY <1>1 DEF IInv, TypeOK
  <2>3. \A d \in Consumers \ {c} : pc[d] = "hand" => item[d].id # i
    BY <1>1 DEF IInv, Claimed
  <2>4. \A d \in Consumers : pc'[d] = "hand" =>
           store'[item'[d].id].status = "consumed" /\ handed'[item'[d].id] = 0
    BY <1>1, <1>6, <2>1, <2>2, <2>3 DEF IInv, Claimed
  <2>5. \A d, e \in Consumers :
           pc'[d] = "hand" /\ pc'[e] = "hand" /\ item'[d].id = item'[e].id => d = e
    BY <2>2 DEF IInv, Claimed
  <2> QED
    BY <2>4, <2>5 DEF Claimed
<1> QED
  BY <1>7, <1>8, <1>9, <1>10, <1>11 DEF IInv

LEMMA NextKeepsIInv == IInv /\ [Next]_vars => IInv'
<1> SUFFICES ASSUME IInv, [Next]_vars PROVE IInv'
  OBVIOUS
<1>1. CASE Desk
  BY <1>1, DeskKeeps
<1>2. CASE Tick
  BY <1>2, TickKeeps
<1>3. ASSUME NEW c \in Consumers, Consume(c) PROVE IInv'
  BY <1>3, LoopKeeps, ExpireKeeps, ReserveKeeps, ClaimKeeps, NoClaimKeeps, HandKeeps DEF Consume
<1>4. ASSUME NEW c \in Consumers, Stop(c) PROVE IInv'
  BY <1>4, NoClaimKeeps
<1>5. CASE UNCHANGED vars
  BY <1>5 DEF vars, IInv, TypeOK, HandedOnce, HandedAreConsumed, Claimed, OrdersWereHanded,
              OneActivePerBook, IsActive
<1> QED
  BY <1>1, <1>2, <1>3, <1>4, <1>5 DEF Next, SteadyNext

LEMMA AlwaysIInv == Spec => []IInv
  BY InitIInv, NextKeepsIInv, PTL DEF Spec

\* The ledger, the counters and every consumer's copies keep their types
\* (store.py, harness_realtime.py).
THEOREM TypeCorrect == Spec => []TypeOK
  BY AlwaysIInv, PTL DEF IInv

\* No intent is handed to process_signal twice, with any number of consumers
\* and whatever the Desk rewrites or cancels meanwhile (store.py:222).
THEOREM AlwaysHandedOnce == Spec => []HandedOnce
  BY AlwaysIInv, PTL DEF IInv

\* At most one intent is active for a symbol and side (store.py:122).
THEOREM AlwaysOneActive == Spec => []OneActivePerBook
  BY AlwaysIInv, PTL DEF IInv

\* Every order comes from an intent that was consumed and handed on once
\* (harness_realtime.py:448).
THEOREM AlwaysFromConsumed == Spec => []OrdersAreConsumed
<1>1. IInv => OrdersAreConsumed
  <2> SUFFICES ASSUME IInv, NEW o \in orders
               PROVE  store[o.id].status = "consumed" /\ handed[o.id] = 1
    BY DEF OrdersAreConsumed
  <2>1. o.id \in Ids /\ handed[o.id] \in Nat /\ handed[o.id] > 0 /\ handed[o.id] <= 1
    BY DEF IInv, TypeOK, OrdersWereHanded, HandedOnce
  <2> QED
    BY <2>1 DEF IInv, HandedAreConsumed
<1> QED
  BY <1>1, AlwaysIInv, PTL

-----------------------------------------------------------------------------
\* The abstract state: the status of each intent, and those handed on.
StatusOf == [i \in Ids |-> store[i].status]
HandedOn == {i \in Ids : handed[i] > 0}

\* A step that leaves both as they are is a stutter of the promise.
LEMMA StutterMaps ==
    ASSUME UNCHANGED <<store, handed>> PROVE UNCHANGED Life!vars
  BY DEF Life!vars

\* An active row that ends is the promise's End.
LEMMA EndMaps ==
    ASSUME TypeOK, NEW i \in Ids, NEW s \in Terminal, IsActive(i), SetStatus(i, s), UNCHANGED handed
    PROVE  Life!Next
<1>1. StatusOf' = [StatusOf EXCEPT ![i] = s] /\ StatusOf[i] = "active"
  BY DEF StatusOf, SetStatus, IsActive, TypeOK, Rows
<1>2. HandedOn' = HandedOn
  BY DEF HandedOn
<1>3. Life!End(i, s)
  BY <1>1, <1>2 DEF Life!End, Life!Active, StatusOf, HandedOn
<1> QED
  BY <1>3 DEF Life!Next, Terminal

\* A write is the promise's Write, replacing the other active rows of the book.
LEMMA UpsertMaps ==
    ASSUME TypeOK, NEW i \in Ids, NEW book \in Books, NEW expiry \in 1..MaxTime,
           Upsert(i, book, expiry)
    PROVE  Life!Next
<1>1. StatusOf[i] \in {"none", "active"}
  BY DEF Upsert, StatusOf, TypeOK, Rows, Terminal
<1>2. PICK replaced \in SUBSET Ids :
        replaced = {j \in Ids \ {i} : IsActive(j) /\ store[j].book = book}
  OBVIOUS
<1>3. replaced \subseteq Life!Active \ {i}
  BY <1>2 DEF Life!Active, IsActive
<1>4. StatusOf' = [j \in Ids |-> IF j = i THEN "active"
                                 ELSE IF j \in replaced THEN "cancelled" ELSE StatusOf[j]]
  BY <1>2 DEF Upsert, StatusOf, IsActive, TypeOK, Rows
<1>5. HandedOn' = HandedOn
  BY DEF Upsert, HandedOn
<1>6. Life!Write(i, replaced)
  BY <1>1, <1>3, <1>4, <1>5 DEF Life!Write, StatusOf, HandedOn
<1> QED
  BY <1>6 DEF Life!Next

\* A hand-over is the promise's HandOn.
LEMMA HandMaps ==
    ASSUME IInv, NEW c \in Consumers, Placed(c) \/ RiskRejected(c) \/ NotPlaced(c)
    PROVE  Life!Next
<1>1. PICK i \in Ids : i = item[c].id
  BY DEF IInv, TypeOK, Items
<1>2. pc[c] = "hand" /\ handed' = [handed EXCEPT ![i] = @ + 1] /\ UNCHANGED store
  BY <1>1 DEF Placed, RiskRejected, NotPlaced, HandTo, Transition
<1>3. handed[i] = 0 /\ store[i].status = "consumed"
  BY <1>1, <1>2 DEF IInv, Claimed
<1>4. StatusOf' = StatusOf /\ StatusOf[i] = "consumed"
  BY <1>2, <1>3 DEF StatusOf
<1>5. i \notin HandedOn /\ HandedOn' = HandedOn \cup {i}
  BY <1>2, <1>3 DEF HandedOn, IInv, TypeOK
<1>6. Life!HandOn(i)
  BY <1>4, <1>5 DEF Life!HandOn, StatusOf, HandedOn
<1> QED
  BY <1>6 DEF Life!Next

LEMMA InitMaps == Init => Life!Init
  BY DEF Init, Life!Init, NoRow

LEMMA StepMaps == IInv /\ [Next]_vars => [Life!Next]_(Life!vars)
<1> SUFFICES ASSUME IInv, [Next]_vars PROVE Life!Next \/ UNCHANGED Life!vars
  OBVIOUS
<1>1. ASSUME NEW i \in Ids, NEW book \in Books, NEW expiry \in 1..MaxTime, Upsert(i, book, expiry)
      PROVE  Life!Next
  BY <1>1, UpsertMaps DEF IInv
<1>2. ASSUME NEW i \in Ids, Cancel(i) PROVE Life!Next
  BY <1>2, EndMaps DEF Cancel, IInv, Terminal
<1>3. CASE Tick
  BY <1>3, StutterMaps DEF Tick
<1>4. ASSUME NEW c \in Consumers, ExpireOne(c) PROVE Life!Next \/ UNCHANGED Life!vars
  <2>1. PICK x \in todo[c] : IF IsActive(x.id) THEN SetStatus(x.id, "expired") ELSE UNCHANGED store
    BY <1>4 DEF ExpireOne
  <2>2. x.id \in Ids /\ UNCHANGED handed
    BY <1>4 DEF ExpireOne, IInv, TypeOK, Items
  <2>3. CASE IsActive(x.id)
    BY <2>1, <2>2, <2>3, EndMaps DEF IInv, Terminal
  <2>4. CASE ~IsActive(x.id)
    BY <2>1, <2>2, <2>4, StutterMaps
  <2> QED
    BY <2>3, <2>4
<1>5. ASSUME NEW c \in Consumers, Claim(c) PROVE Life!Next
  <2>1. item[c].id \in Ids
    BY DEF IInv, TypeOK, Items
  <2> QED
    BY <1>5, <2>1, EndMaps DEF Claim, IInv, Terminal
<1>6. ASSUME NEW c \in Consumers, Placed(c) \/ RiskRejected(c) \/ NotPlaced(c) PROVE Life!Next
  BY <1>6, HandMaps
<1>7. ASSUME NEW c \in Consumers,
             \/ BeginTick(c) \/ ListStale(c) \/ ExpireDone(c) \/ ListActive(c) \/ Skip(c)
             \/ Reserve(c) \/ ClaimLost(c) \/ ClaimRaises(c) \/ EndTick(c) \/ Stop(c)
      PROVE  UNCHANGED Life!vars
  <2>1. UNCHANGED <<store, handed>>
    BY <1>7 DEF BeginTick, ListStale, ExpireDone, ListActive, Skip, Reserve, ClaimLost, ClaimRaises,
                EndTick, Stop
  <2> QED
    BY <2>1, StutterMaps
<1>8. CASE UNCHANGED vars
  BY <1>8, StutterMaps DEF vars
<1> QED
  BY <1>1, <1>2, <1>3, <1>4, <1>5, <1>6, <1>7, <1>8 DEF Next, SteadyNext, Desk, Consume

\* The ledger, the Desk API and the consumer implement the promise of the
\* ledger: no intent ends twice or comes back, and none is handed on unless
\* it was consumed (store.py, harness_realtime.py).
THEOREM ImplementsIntentLife == Spec => KeepsIntentLife
  BY InitMaps, StepMaps, AlwaysIInv, PTL DEF Spec, Life!Spec, KeepsIntentLife

-----------------------------------------------------------------------------
(* The slots.                                                               *)

\* The buys that were placed, and the consumers that hold a slot for one.
PlacedBuys == {o \in orders : o.book \in Buys}
Holders == {c \in Consumers : pc[c] \in {"claim", "hand"} /\ item[c].row.book \in Buys}

\* Every placed buy and every consumer with a buy in its hands has a slot of its own.
SlotsCount ==
    /\ IsFiniteSet(orders)
    /\ Cardinality(PlacedBuys) + Cardinality(Holders) <= slots
    /\ slots <= MaxOrders

LEMMA FiniteParts ==
    ASSUME IsFiniteSet(orders)
    PROVE  /\ IsFiniteSet(PlacedBuys) /\ Cardinality(PlacedBuys) \in Nat
           /\ IsFiniteSet(Holders) /\ Cardinality(Holders) \in Nat
<1>1. PlacedBuys \subseteq orders /\ Holders \subseteq Consumers
  BY DEF PlacedBuys, Holders
<1>2. IsFiniteSet(PlacedBuys) /\ IsFiniteSet(Holders)
  BY <1>1, ConsumerAssumption, FS_Subset
<1> QED
  BY <1>2, FS_CardinalityType

\* A step that takes no slot, places no order and makes no consumer a holder.
LEMMA HoldersShrink ==
    ASSUME TypeOK, SlotsCount, UNCHANGED <<orders, slots>>, Holders' \subseteq Holders
    PROVE  SlotsCount'
<1>1. PlacedBuys' = PlacedBuys
  BY DEF PlacedBuys
<1>2. IsFiniteSet(Holders) /\ Cardinality(Holders) \in Nat /\ Cardinality(PlacedBuys) \in Nat
  BY FiniteParts DEF SlotsCount
<1>3. IsFiniteSet(Holders') /\ Cardinality(Holders') <= Cardinality(Holders)
  BY <1>2, FS_Subset
<1>4. Cardinality(Holders') \in Nat
  BY <1>3, FS_CardinalityType
<1>5. Cardinality(PlacedBuys') + Cardinality(Holders') <= slots
  <2>1. Cardinality(PlacedBuys) + Cardinality(Holders) <= slots
    BY DEF SlotsCount
  <2>2. slots \in Nat
    BY DEF TypeOK
  <2> QED
    BY <1>1, <1>2, <1>3, <1>4, <2>1, <2>2
<1> QED
  BY <1>5 DEF SlotsCount

\* A consumer that has no buy in its hands any more gives its slot back, gives it to
\* an order, or leaves it taken.
LEMMA SlotLeavesHolder ==
    ASSUME TypeOK, SlotsCount, NEW c \in Consumers, c \in Holders, Holders' = Holders \ {c},
           \/ UNCHANGED <<orders, slots>>
           \/ UNCHANGED orders /\ Release
           \/ UNCHANGED slots /\ \E o : orders' = orders \cup {o}
    PROVE  SlotsCount'
<1>1. /\ IsFiniteSet(Holders) /\ Cardinality(Holders) \in Nat
      /\ IsFiniteSet(PlacedBuys) /\ Cardinality(PlacedBuys) \in Nat
  BY FiniteParts DEF SlotsCount
<1>2. Cardinality(Holders') = Cardinality(Holders) - 1
  BY <1>1, FS_RemoveElement
<1>3. slots \in Nat /\ MaxOrders \in Nat
  BY BoundAssumption DEF TypeOK
<1>4. Cardinality(Holders) >= 1
  <2>1. Holders # {}
    OBVIOUS
  <2> QED
    BY <1>1, <2>1, FS_EmptySet
<1>5. CASE UNCHANGED <<orders, slots>>
  BY <1>5, HoldersShrink
<1>6. CASE UNCHANGED orders /\ Release
  <2>1. PlacedBuys' = PlacedBuys
    BY <1>6 DEF PlacedBuys
  <2>2. slots' = slots - 1
    BY <1>1, <1>3, <1>4, <1>6 DEF SlotsCount, Release
  <2> QED
    BY <1>1, <1>2, <1>3, <1>6, <2>1, <2>2 DEF SlotsCount
<1>7. ASSUME UNCHANGED slots, NEW o, orders' = orders \cup {o} PROVE SlotsCount'
  <2>1. IsFiniteSet(orders')
    BY <1>7, FS_AddElement DEF SlotsCount
  <2>2. PlacedBuys' = PlacedBuys \/ PlacedBuys' = PlacedBuys \cup {o}
    BY <1>7 DEF PlacedBuys
  <2>3. IsFiniteSet(PlacedBuys \cup {o}) /\ Cardinality(PlacedBuys \cup {o}) <= Cardinality(PlacedBuys) + 1
    <3>1. /\ IsFiniteSet(PlacedBuys \cup {o})
          /\ Cardinality(PlacedBuys \cup {o})
               = IF o \in PlacedBuys THEN Cardinality(PlacedBuys) ELSE Cardinality(PlacedBuys) + 1
      BY <1>1, FS_AddElement
    <3>2. Cardinality(PlacedBuys \cup {o}) <= Cardinality(PlacedBuys) + 1
      BY <1>1, <3>1
    <3> QED
      BY <3>1, <3>2
  <2>4. Cardinality(PlacedBuys \cup {o}) \in Nat
    BY <2>3, FS_CardinalityType
  <2>5. Cardinality(PlacedBuys') + Cardinality(Holders') <= slots
    <3>1. Cardinality(PlacedBuys) + Cardinality(Holders) <= slots
      BY DEF SlotsCount
    <3>2. Cardinality(PlacedBuys') \in Nat /\ Cardinality(PlacedBuys') <= Cardinality(PlacedBuys) + 1
      <4>1. CASE PlacedBuys' = PlacedBuys
        BY <1>1, <4>1
      <4>2. CASE PlacedBuys' = PlacedBuys \cup {o}
        BY <2>3, <2>4, <4>2
      <4> QED
        BY <2>2, <4>1, <4>2
    <3> QED
      BY <1>1, <1>2, <1>3, <3>1, <3>2
  <2> QED
    BY <1>7, <2>1, <2>5 DEF SlotsCount
<1> QED
  BY <1>5, <1>6, <1>7

\* A consumer reserves a slot for a buy while one is left.
LEMMA ReserveCounts == ASSUME IInv, SlotsCount, NEW c \in Consumers, Reserve(c) PROVE SlotsCount'
<1>1. /\ pc[c] = "consume" /\ pc' = [pc EXCEPT ![c] = "claim"] /\ UNCHANGED orders
      /\ pc \in [Consumers -> Stages] /\ item \in [Consumers -> Items]
  BY DEF Reserve, Transition, IInv, TypeOK
<1>2. PICK x \in todo[c] :
         /\ item' = [item EXCEPT ![c] = x]
         /\ IF x.row.book \in Buys THEN slots < MaxOrders /\ slots' = slots + 1 ELSE UNCHANGED slots
  BY DEF Reserve
<1>3. c \notin Holders
  BY <1>1 DEF Holders
<1>4. CASE x.row.book \in Buys
  <2>1. Holders' = Holders \cup {c}
    BY <1>1, <1>2, <1>4 DEF Holders
  <2>2. /\ IsFiniteSet(Holders) /\ Cardinality(Holders) \in Nat /\ Cardinality(PlacedBuys) \in Nat
    BY FiniteParts DEF SlotsCount
  <2>3. Cardinality(Holders') = Cardinality(Holders) + 1
    BY <1>3, <2>1, <2>2, FS_AddElement
  <2>4. PlacedBuys' = PlacedBuys
    BY <1>1 DEF PlacedBuys
  <2>5. slots \in Nat /\ MaxOrders \in Nat /\ slots < MaxOrders /\ slots' = slots + 1
    BY <1>2, <1>4, BoundAssumption DEF IInv, TypeOK
  <2> QED
    BY <1>1, <2>2, <2>3, <2>4, <2>5 DEF SlotsCount
<1>5. CASE x.row.book \notin Buys
  <2>1. Holders' \subseteq Holders
    BY <1>1, <1>2, <1>5 DEF Holders
  <2> QED
    BY <1>1, <1>2, <1>5, <2>1, HoldersShrink DEF IInv
<1> QED
  BY <1>4, <1>5

\* What becomes of the slot when the claim is lost or the order path has answered.
LEMMA EndCounts ==
    ASSUME IInv, SlotsCount, NEW c \in Consumers,
           ClaimLost(c) \/ ClaimRaises(c) \/ Placed(c) \/ RiskRejected(c) \/ NotPlaced(c)
    PROVE  SlotsCount'
<1>1. /\ pc[c] \in {"claim", "hand"} /\ pc' = [pc EXCEPT ![c] = "consume"]
      /\ item' = [item EXCEPT ![c] = NoItem]
      /\ pc \in [Consumers -> Stages] /\ item \in [Consumers -> Items]
  BY DEF ClaimLost, ClaimRaises, Placed, RiskRejected, NotPlaced, HandTo, Drop, Transition, IInv, TypeOK
<1>2. Holders' = Holders \ {c}
  BY <1>1 DEF Holders
<1>3. CASE item[c].row.book \in Buys
  <2>1. c \in Holders
    BY <1>1, <1>3 DEF Holders
  <2>2. \/ UNCHANGED <<orders, slots>>
        \/ UNCHANGED orders /\ Release
        \/ UNCHANGED slots /\ \E o : orders' = orders \cup {o}
    BY <1>3 DEF ClaimLost, ClaimRaises, Placed, RiskRejected, NotPlaced
  <2> QED
    BY <1>2, <2>1, <2>2, SlotLeavesHolder DEF IInv
<1>4. CASE item[c].row.book \notin Buys
  <2>1. UNCHANGED slots
    BY <1>4 DEF ClaimLost, ClaimRaises, Placed, RiskRejected, NotPlaced
  <2>2. CASE UNCHANGED orders
    BY <1>2, <2>1, <2>2, HoldersShrink DEF IInv
  <2>3. CASE orders' = orders \cup {[id |-> item[c].id, book |-> item[c].row.book]}
    <3>1. PlacedBuys' = PlacedBuys
      BY <1>4, <2>3 DEF PlacedBuys
    <3>2. IsFiniteSet(orders')
      BY <2>3, FS_AddElement DEF SlotsCount
    <3>3. Holders' = Holders
      BY <1>2, <1>4 DEF Holders
    <3> QED
      BY <2>1, <3>1, <3>2, <3>3 DEF SlotsCount
  <2> QED
    BY <2>2, <2>3 DEF ClaimLost, ClaimRaises, Placed, RiskRejected, NotPlaced
<1> QED
  BY <1>3, <1>4

LEMMA SlotsKept == IInv /\ SlotsCount /\ [Next]_vars => SlotsCount'
<1> SUFFICES ASSUME IInv, SlotsCount, [Next]_vars PROVE SlotsCount'
  OBVIOUS
<1>1. pc \in [Consumers -> Stages] /\ item \in [Consumers -> Items]
  BY DEF IInv, TypeOK
<1>2. CASE UNCHANGED <<pc, item, orders, slots>>
  BY <1>2, HoldersShrink DEF Holders, IInv
<1>3. ASSUME NEW c \in Consumers, NEW to \in Stages \ {"claim", "hand"},
             pc' = [pc EXCEPT ![c] = to], \A d \in Consumers \ {c} : item'[d] = item[d],
             UNCHANGED <<orders, slots>>
      PROVE  SlotsCount'
  <2>1. Holders' \subseteq Holders
    BY <1>1, <1>3 DEF Holders
  <2> QED
    BY <1>3, <2>1, HoldersShrink DEF IInv
<1>4. {"idle", "listStale", "expire", "listActive", "consume"} \subseteq Stages \ {"claim", "hand"}
  BY DEF Stages
<1>5. CASE Desk \/ Tick \/ UNCHANGED vars
  BY <1>2, <1>5 DEF Desk, Upsert, Cancel, Tick, vars
<1>6. ASSUME NEW c \in Consumers, Consume(c) PROVE SlotsCount'
  <2>1. CASE ExpireOne(c) \/ Skip(c)
    BY <1>2, <2>1 DEF ExpireOne, Skip
  <2>2. CASE BeginTick(c) \/ ListStale(c) \/ ExpireDone(c) \/ ListActive(c) \/ EndTick(c)
    BY <1>3, <1>4, <2>2 DEF BeginTick, ListStale, ExpireDone, ListActive, EndTick, Transition
  <2>3. CASE Claim(c)
    <3>1. /\ pc[c] = "claim" /\ pc' = [pc EXCEPT ![c] = "hand"]
          /\ UNCHANGED <<item, orders, slots>>
      BY <2>3 DEF Claim, Transition
    <3>2. Holders' = Holders
      BY <1>1, <3>1 DEF Holders
    <3> QED
      BY <3>1, <3>2, HoldersShrink DEF IInv
  <2> QED
    BY <1>6, <2>1, <2>2, <2>3, ReserveCounts, EndCounts DEF Consume
<1>7. ASSUME NEW c \in Consumers, Stop(c) PROVE SlotsCount'
  BY <1>1, <1>3, <1>4, <1>7 DEF Stop, Drop
<1> QED
  BY <1>5, <1>6, <1>7 DEF Next, SteadyNext

LEMMA InitSlots == Init => SlotsCount
<1> SUFFICES ASSUME Init PROVE SlotsCount
  OBVIOUS
<1>1. PlacedBuys = {} /\ Holders = {} /\ orders = {} /\ slots = 0
  BY DEF Init, PlacedBuys, Holders
<1> QED
  BY <1>1, FS_EmptySet, BoundAssumption DEF SlotsCount

\* Every buy that was placed holds a daily slot, and no more slots are taken than the
\* mandate allows, with any number of consumers that die, lose a claim or fail to give
\* a slot back (harness_realtime.py:418 and :519).
THEOREM BuysHoldSlots == Spec => []OrdersHoldSlots
<1>1. IInv /\ SlotsCount => OrdersHoldSlots
  <2> SUFFICES ASSUME IInv, SlotsCount PROVE OrdersHoldSlots
    OBVIOUS
  <2>1. /\ Cardinality(PlacedBuys) \in Nat /\ Cardinality(Holders) \in Nat
        /\ slots \in Nat
    BY FiniteParts DEF SlotsCount, IInv, TypeOK
  <2>2. Cardinality(PlacedBuys) <= slots /\ slots <= MaxOrders
    BY <2>1 DEF SlotsCount
  <2> QED
    BY <2>2 DEF OrdersHoldSlots, PlacedBuys
<1>2. Spec => [](IInv /\ SlotsCount)
  BY InitIInv, InitSlots, NextKeepsIInv, SlotsKept, PTL DEF Spec
<1> QED
  BY <1>1, <1>2, PTL

-----------------------------------------------------------------------------
(* Consumed means handed on.                                                *)

LEMMA SteadyIsNext == [SteadyNext]_vars => [Next]_vars
BY DEF Next

LEMMA ConsumedKept == IInv /\ ConsumedWasHandedOn /\ [SteadyNext]_vars => ConsumedWasHandedOn'
<1> SUFFICES ASSUME IInv, ConsumedWasHandedOn, [SteadyNext]_vars, NEW i \in Ids,
                    store'[i].status = "consumed"
             PROVE  handed'[i] = 1 \/ \E c \in Consumers : pc'[c] = "hand" /\ item'[c].id = i
  BY DEF ConsumedWasHandedOn
<1>0. /\ store \in [Ids -> Rows] /\ pc \in [Consumers -> Stages] /\ item \in [Consumers -> Items]
      /\ handed \in [Ids -> Nat]
  BY DEF IInv, TypeOK
<1>1. ASSUME store[i].status = "consumed", UNCHANGED handed,
             \A c \in Consumers : pc[c] = "hand" => pc'[c] = "hand" /\ item'[c] = item[c]
      PROVE  handed'[i] = 1 \/ \E c \in Consumers : pc'[c] = "hand" /\ item'[c].id = i
  BY <1>1 DEF ConsumedWasHandedOn
<1>2. CASE Desk \/ Tick \/ UNCHANGED vars
  <2>1. UNCHANGED <<pc, item, handed>>
    BY <1>2 DEF Desk, Upsert, Cancel, Tick, vars
  <2>2. store[i].status = "consumed"
    BY <1>0, <1>2 DEF Desk, Upsert, Cancel, SetStatus, IsActive, Tick, vars, Rows
  <2> QED
    BY <1>1, <2>1, <2>2
<1>3. ASSUME NEW c \in Consumers, Consume(c)
      PROVE  handed'[i] = 1 \/ \E d \in Consumers : pc'[d] = "hand" /\ item'[d].id = i
  <2>1. CASE ExpireOne(c)
    <3>1. UNCHANGED <<pc, item, handed>>
      BY <2>1 DEF ExpireOne
    <3>2. store[i].status = "consumed"
      BY <1>0, <2>1 DEF ExpireOne, SetStatus, Rows
    <3> QED
      BY <1>1, <3>1, <3>2
  <2>2. CASE \/ BeginTick(c) \/ ListStale(c) \/ ExpireDone(c) \/ ListActive(c) \/ Skip(c)
             \/ Reserve(c) \/ ClaimLost(c) \/ ClaimRaises(c) \/ EndTick(c)
    <3>1. UNCHANGED <<store, handed>>
      BY <2>2 DEF BeginTick, ListStale, ExpireDone, ListActive, Skip, Reserve, ClaimLost, ClaimRaises, EndTick
    <3>2. \A d \in Consumers : pc[d] = "hand" => pc'[d] = "hand" /\ item'[d] = item[d]
      BY <1>0, <2>2 DEF BeginTick, ListStale, ExpireDone, ListActive, Skip, Reserve, ClaimLost,
         ClaimRaises, EndTick, Transition, Drop
    <3> QED
      BY <1>1, <3>1, <3>2
  <2>3. CASE Claim(c)
    <3>1. /\ pc' = [pc EXCEPT ![c] = "hand"] /\ pc[c] = "claim" /\ UNCHANGED <<item, handed>>
          /\ store' = [store EXCEPT ![item[c].id].status = "consumed"]
      BY <2>3 DEF Claim, Transition, SetStatus
    <3>2. CASE i = item[c].id
      BY <1>0, <3>1, <3>2
    <3>3. CASE i # item[c].id
      <4>1. store[i].status = "consumed"
        BY <1>0, <3>1, <3>3
      <4> QED
        BY <1>0, <1>1, <3>1, <4>1
    <3> QED
      BY <3>2, <3>3
  <2>4. CASE Placed(c) \/ RiskRejected(c) \/ NotPlaced(c)
    <3>1. /\ pc[c] = "hand" /\ pc' = [pc EXCEPT ![c] = "consume"] /\ item' = [item EXCEPT ![c] = NoItem]
          /\ handed' = [handed EXCEPT ![item[c].id] = @ + 1] /\ UNCHANGED store
      BY <2>4 DEF Placed, RiskRejected, NotPlaced, HandTo, Transition, Drop
    <3>2. CASE i = item[c].id
      <4>1. handed[i] = 0
        BY <3>1, <3>2 DEF IInv, Claimed
      <4> QED
        BY <1>0, <3>1, <3>2, <4>1
    <3>3. CASE i # item[c].id
      <4>1. handed'[i] = handed[i]
        BY <1>0, <3>1, <3>3
      <4>2. \A d \in Consumers \ {c} : pc'[d] = pc[d] /\ item'[d] = item[d]
        BY <1>0, <3>1
      <4> QED
        BY <3>1, <3>3, <4>1, <4>2 DEF ConsumedWasHandedOn
    <3> QED
      BY <3>2, <3>3
  <2> QED
    BY <1>3, <2>1, <2>2, <2>3, <2>4 DEF Consume
<1> QED
  BY <1>2, <1>3 DEF SteadyNext

\* While no worker dies and no list call raises, an intent the ledger calls consumed was
\* handed to process_signal, or the consumer that claimed it is about to
\* (harness_realtime.py:14).
THEOREM ConsumedIsHandedOn == SteadySpec => []ConsumedWasHandedOn
<1>1. Init => ConsumedWasHandedOn
  BY DEF Init, ConsumedWasHandedOn, NoRow
<1> QED
  BY <1>1, InitIInv, SteadyIsNext, NextKeepsIInv, ConsumedKept, PTL DEF SteadySpec
=============================================================================
