---------------------------- MODULE DailyOrders ----------------------------
(***************************************************************************)
(* The daily BUY limit of the trading mandate                              *)
(* (backend/trading/safety/mandate.py, DailyOrderCounter and MandateGate). *)
(*                                                                         *)
(* One file holds a UTC date and a count.  Desk request threads, the       *)
(* worker and the intent consumer all go through it: each evaluates the    *)
(* mandate (a read under the flock), reserves a slot (a read and a write   *)
(* under one flock), submits to the broker, and gives the slot back when   *)
(* its order was not accepted.  Every counter call reads the UTC clock     *)
(* first and takes the flock after, so the clock may turn in between, and  *)
(* between the reservation and its release.                                *)
(*                                                                         *)
(* A release takes one from the count, whoever calls it.  A Desk request   *)
(* that retries the key of an order whose acceptance is unknown reserves   *)
(* nothing, and yet releases when it is told that the order is rejected:   *)
(* a sell, or the second of two retries, gives back the slot of another    *)
(* order.  So does a request that was told "rejected" of an order that the *)
(* broker has.  loose counts these.                                        *)
(***************************************************************************)
EXTENDS Naturals, FiniteSets

CONSTANTS
    Desk,      \* place_desk_order calls: release when risk or the broker rejects
    Worker,    \* worker buys: release only on a risk reject
    Retries,   \* place_desk_order calls with safe_unknown_retry, buys and sells
    Cap,       \* max_daily_orders of the mandate file
    LastDay    \* bound on the UTC clock: days 1..LastDay

Requests == Desk \cup Worker \cup Retries
Days == 1..LastDay

ASSUME CapAssumption == Cap \in Nat
ASSUME DayAssumption == LastDay \in Nat \ {0}
ASSUME RequestAssumption ==
    /\ IsFiniteSet(Desk) /\ IsFiniteSet(Worker) /\ IsFiniteSet(Retries)
    /\ Desk \cap Worker = {} /\ (Desk \cup Worker) \cap Retries = {}

VARIABLES
    today,     \* the UTC date of the clock
    file,      \* the counter file; a missing file reads 0 on every day, as date 0 does
    poisoned,  \* the .fail marker exists
    pc,        \* where each request is
    day,       \* the date the request's running counter call read from the clock
    slot,      \* the date its granted slot was counted on, 0 while it has none
    loose,     \* history: places of each date given back by who holds none, or still uses it
    stray      \* history: a counter write replaced the record of a later date

vars == <<today, file, poisoned, pc, day, slot, loose, stray>>

TypeOK ==
    /\ today \in Days
    /\ file \in [date : 0..LastDay, count : Nat]
    /\ poisoned \in BOOLEAN
    /\ pc \in [Requests -> {"idle", "evaluated", "reserving", "holding", "releasing",
                            "accepted", "rejected", "unreturned", "done"}]
    /\ day \in [Requests -> 0..LastDay]
    /\ slot \in [Requests -> 0..LastDay]
    /\ loose \in [Days -> Nat]
    /\ stray \in BOOLEAN

Init ==
    /\ today = 1
    /\ file = [date |-> 0, count |-> 0]
    /\ poisoned = FALSE
    /\ pc = [r \in Requests |-> "idle"]
    /\ day = [r \in Requests |-> 0]
    /\ slot = [r \in Requests |-> 0]
    /\ loose = [d \in Days |-> 0]
    /\ stray = FALSE

Transition(r, from, to) == pc[r] = from /\ pc' = [pc EXCEPT ![r] = to]

\* The count a reader that took d from the clock finds: another date reads 0.
Used(d) == IF file.date = d THEN file.count ELSE 0

\* os.replace puts the whole record in place, whatever date it held before.
Write(d, n) ==
    /\ file' = [date |-> d, count |-> n]
    /\ UNCHANGED poisoned

\* MandateGate.evaluate: the peek before the account, price and risk gates.
Evaluate(r) ==
    /\ r \notin Retries
    /\ ~poisoned /\ Used(today) < Cap
    /\ Transition(r, "idle", "evaluated")
    /\ UNCHANGED <<today, file, poisoned, day, slot, loose, stray>>

\* A spent limit, a poisoned counter or any other gate refuses the order.
Refuse(r) ==
    /\ \E from \in {"idle", "evaluated"} : Transition(r, from, "done")
    /\ UNCHANGED <<today, file, poisoned, day, slot, loose, stray>>

ReadClock(r) ==
    /\ Transition(r, "evaluated", "reserving")
    /\ day' = [day EXCEPT ![r] = today]
    /\ UNCHANGED <<today, file, poisoned, slot, loose, stray>>

\* Mutant: the reservation trusts the evaluation and does not look again.
Reserve_NoRecheck(r) ==
    /\ ~poisoned
    /\ Transition(r, "reserving", "holding")
    /\ Write(day[r], Used(day[r]) + 1)
    /\ slot' = [slot EXCEPT ![r] = day[r]]
    /\ stray' = (stray \/ day[r] < file.date)
    /\ UNCHANGED <<today, day, loose>>

\* DailyOrderCounter.try_reserve under the flock.
Reserve(r) ==
    /\ ~poisoned /\ Used(day[r]) < Cap
    /\ Transition(r, "reserving", "holding")
    /\ Write(day[r], Used(day[r]) + 1)
    /\ slot' = [slot EXCEPT ![r] = day[r]]
    /\ stray' = (stray \/ day[r] < file.date)
    /\ UNCHANGED <<today, day, loose>>

ReserveRefused(r) ==
    /\ poisoned \/ Used(day[r]) >= Cap
    /\ Transition(r, "reserving", "done")
    /\ UNCHANGED <<today, file, poisoned, day, slot, loose, stray>>

\* The write raises OSError: the old file stays and the marker is left,
\* unless writing the marker fails as well.
ReserveFails(r) ==
    /\ ~poisoned /\ Used(day[r]) < Cap
    /\ Transition(r, "reserving", "done")
    /\ poisoned' \in BOOLEAN
    /\ UNCHANGED <<today, file, day, slot, loose, stray>>

\* The broker has the order, or may have it: the slot is kept.
Accept(r) ==
    /\ Transition(r, "holding", "accepted")
    /\ UNCHANGED <<today, file, poisoned, day, slot, loose, stray>>

\* release() begins: it reads the clock of its own.
BeginRelease(r) ==
    /\ Transition(r, "holding", "releasing")
    /\ day' = [day EXCEPT ![r] = today]
    /\ UNCHANGED <<today, file, poisoned, slot, loose, stray>>

\* A retry found its key pinned with its acceptance unknown, reserved nothing, and is
\* told by then that the order is rejected: another request settled it in between.
RetryRejected(r) ==
    /\ r \in Retries
    /\ Transition(r, "idle", "releasing")
    /\ day' = [day EXCEPT ![r] = today]
    /\ UNCHANGED <<today, file, poisoned, slot, loose, stray>>

\* The worker returns no slot for an order the broker itself rejected.
WorkerBrokerReject(r) ==
    /\ r \in Worker
    /\ Transition(r, "holding", "rejected")
    /\ UNCHANGED <<today, file, poisoned, day, slot, loose, stray>>

\* DailyOrderCounter.release under the flock.  The order was refused, or the Desk took
\* an exception for a refusal and the broker has the order (landed).
Release(r) ==
    /\ ~poisoned
    /\ Transition(r, "releasing", "done")
    /\ \E landed \in IF r \in Desk THEN BOOLEAN ELSE {FALSE} :
         LET n == Used(day[r]) IN
         /\ Write(day[r], IF n > 0 THEN n - 1 ELSE 0)
         /\ slot' = [slot EXCEPT ![r] = IF landed THEN slot[r] ELSE 0]
         /\ loose' = [loose EXCEPT ![day[r]] =
                         IF n > 0 /\ (landed \/ slot[r] # day[r]) THEN loose[day[r]] + 1 ELSE loose[day[r]]]
    /\ stray' = (stray \/ day[r] < file.date)
    /\ UNCHANGED <<today, day>>

\* release_reservation swallows a counter that cannot be read or written.
ReleaseFails(r) ==
    /\ Transition(r, "releasing", "unreturned")
    /\ poisoned' \in (IF poisoned THEN {TRUE} ELSE BOOLEAN)
    /\ UNCHANGED <<today, file, day, slot, loose, stray>>

\* The process dies: the flock is dropped, the file and the marker stay.
Crash(r) ==
    /\ \E from \in {"evaluated", "reserving", "holding", "releasing"} :
          Transition(r, from, IF slot[r] = 0 THEN "done" ELSE "unreturned")
    /\ UNCHANGED <<today, file, poisoned, day, slot, loose, stray>>

Midnight ==
    /\ today < LastDay
    /\ today' = today + 1
    /\ UNCHANGED <<file, poisoned, pc, day, slot, loose, stray>>

Step(r) ==
    \/ Evaluate(r) \/ Refuse(r) \/ ReadClock(r)
    \/ Reserve(r) \/ ReserveRefused(r) \/ ReserveFails(r)
    \/ Accept(r) \/ BeginRelease(r) \/ RetryRejected(r) \/ WorkerBrokerReject(r)
    \/ Release(r) \/ ReleaseFails(r) \/ Crash(r)

Next == Midnight \/ \E r \in Requests : Step(r)

Spec == Init /\ [][Next]_vars

-----------------------------------------------------------------------------
\* The requests that hold, or used up, a slot counted on date d.
Slots(d) == {r \in Requests : slot[r] = d}

\* "The atomic check-and-increment used before a broker submit so concurrent
\* evaluate-then-record cannot exceed the cap" (mandate.py:250): at no time are
\* more orders of one UTC date placed, or on their way, than the limit allows
\* and than places were given back that were not the giver's to give.
CapPerDay == \A d \in Days : Cardinality(Slots(d)) <= Cap + loose[d]

\* Whatever the requests, crashes and failed writes, the limit of a date is
\* exceeded at most by one order for each place that a retry gave back without
\* holding it (desk_orders.py:990), a release gave back on another date than it
\* was taken on, or a request gave back for an order that the broker has; and
\* without a bound only after a call that read its clock before midnight wrote
\* over the record of the new date (mandate.py:349, 366).
CapUnlessStray == stray \/ CapPerDay

\* Until the first midnight nothing writes over another date's record: the flock
\* serialises every reserve and release of one date (mandate.py:277).
CapUntilMidnight == today = 1 => CapPerDay

\* The file falls behind the orders that hold a slot of its date only by those
\* same places, so a new MandateGate after a restart never grants a slot that is
\* taken for any other reason (mandate.py:372).
CountCoversSlots ==
    stray \/ \A d \in Days : file.date <= d => Cardinality(Slots(d)) <= Used(d) + loose[d]
=============================================================================
