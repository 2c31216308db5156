------------------------------ MODULE RiskGates ------------------------------
(***************************************************************************)
(* The risk gates of an order and the state that Desk and worker share for *)
(* them: the file with the start value of the day, from which the daily    *)
(* loss is measured, and the book of cool-downs, which keeps a symbol that *)
(* was sold from being bought again for a day.                             *)
(*                                                                         *)
(* A handler is one Desk request or the worker.  It takes a snapshot of    *)
(* the account, records the start of the day, reads the book and evaluates *)
(* its order against what it has read, while orders fill, the value of the *)
(* account moves, and midnight passes.  Each file is used under a flock,   *)
(* but the clock is read before it is taken, and the risk engine that      *)
(* remembers the start is one object for all requests of the Desk.         *)
(***************************************************************************)
EXTENDS Integers, FiniteSets

CONSTANTS
    Symbols,
    Nothing,      \* no symbol
    Desks,        \* requests of the Desk
    Worker,
    Values,       \* values of the account
    DeskLimit,    \* limit of open positions of the Desk's risk engine
    WorkerLimit,  \* the largest one that ai_mode.json gives the worker's
    LossPercent,  \* loss of a day that halts buying, in percent
    DayLength,    \* ticks of a day
    Window,       \* ticks of a cool-down
    MarketHours,  \* ticks at which the worker trades
    MaxTime,      \* bound of the clock
    MaxOrders     \* bound of the orders that reach the venue

\* The handlers.
Actors == Desks \cup {Worker}

ASSUME ActorsAssumption == Worker \notin Desks /\ Nothing \notin Symbols
ASSUME SymbolsAssumption == IsFiniteSet(Symbols)
ASSUME NumbersAssumption ==
    /\ Values \subseteq Nat
    /\ {DeskLimit, WorkerLimit, LossPercent, Window, MaxTime, MaxOrders} \subseteq Nat
    /\ DayLength \in Nat \ {0}

Never == -1
Times == 0..MaxTime
Date(t) == t \div DayLength
Days == {Date(t) : t \in Times}
Engines == {"desk", "worker"}
Engine(p) == IF p = Worker THEN "worker" ELSE "desk"

VARIABLES
    now,        \* the clock
    value,      \* value of the account
    held,       \* symbols of the open positions
    working,    \* symbols of the buy orders at the venue
    selling,    \* symbols of the sell orders at the venue
    orders,     \* how many orders reached the venue
    dayStart,   \* the file risk_day_start.json; its date is Never while it is missing
    book,       \* the file risk_cooldown.json: when a symbol was sold
    memory,     \* start of the day that each risk engine remembers, 0 if none
    own,        \* cool-downs in the memory of the worker
    at,         \* place of each handler
    side,       \* its order is a buy or a sell
    sym,        \* and of this symbol
    snap,       \* the account it evaluates its order against
    day,        \* date it read for the start of the day
    start,      \* start value the file gave it
    cool,       \* symbols in cool-down when it read the book
    stamp,      \* time it marks a sale with
    cycle,      \* the worker's account of this cycle
    began,      \* the time the worker reads once a cycle
    phase,      \* exits, entries or intents
    todo,       \* symbols it has not come to in this phase
    pending,    \* working buys it has seen
    first,      \* history: first positive value recorded for each date
    stray,      \* history: a start of an older date replaced a newer one
    marked,     \* history: when a sale of each symbol was last marked
    backdated,  \* history: symbols whose mark was replaced by an older one
    blind       \* history: a buy landed beside a position or order its snapshot lacked

market == <<value, held, working, selling, orders>>
files == <<dayStart, book>>
local == <<side, sym, snap, day, start, cool, stamp>>
worker == <<own, cycle, began, phase, todo, pending>>
history == <<first, stray, marked, backdated, blind>>
riskVars == <<now, market, files, memory, at, local, worker, history>>

Amounts == Values \cup {0}
Account == [value : Amounts, held : SUBSET Symbols]
AccountNow == [value |-> value, held |-> held]
Empty == [value |-> 0, held |-> {}]
Places == {"idle", "date", "persist", "remember", "book", "evaluate", "land",
           "stamp", "mark", "again", "ready"}

\* The values each part of the state may have.
RiskTypeOK ==
    /\ now \in Times /\ value \in Values /\ held \subseteq Symbols
    /\ working \subseteq Symbols /\ selling \subseteq Symbols
    /\ orders \in 0..MaxOrders
    /\ dayStart \in [date : Days \cup {Never}, value : Amounts]
    /\ book \in [Symbols -> Times \cup {Never}]
    /\ memory \in [Engines -> Amounts]
    /\ own \in [Symbols -> Times \cup {Never}]
    /\ at \in [Actors -> Places]
    /\ side \in [Actors -> {"buy", "sell"}]
    /\ sym \in [Actors -> Symbols \cup {Nothing}]
    /\ snap \in [Actors -> Account]
    /\ day \in [Actors -> Days] /\ start \in [Actors -> Amounts]
    /\ cool \in [Actors -> SUBSET Symbols] /\ stamp \in [Actors -> Times]
    /\ cycle \in Account /\ began \in Times
    /\ phase \in {"exits", "entries", "intents"}
    /\ todo \subseteq Symbols /\ pending \subseteq Symbols
    /\ first \in [Days -> Amounts] /\ stray \in BOOLEAN /\ blind \in BOOLEAN
    /\ marked \in [Symbols -> Times \cup {Never}]
    /\ backdated \subseteq Symbols

RiskInit ==
    /\ now = 0 /\ value \in Values /\ held = {} /\ working = {} /\ selling = {}
    /\ orders = 0
    /\ dayStart = [date |-> Never, value |-> 0]
    /\ book = [s \in Symbols |-> Never] /\ own = book
    /\ memory = [e \in Engines |-> 0]
    /\ at = [p \in Actors |-> "idle"]
    /\ side = [p \in Actors |-> "buy"] /\ sym = [p \in Actors |-> Nothing]
    /\ snap = [p \in Actors |-> Empty]
    /\ day = [p \in Actors |-> 0] /\ start = [p \in Actors |-> 0]
    /\ cool = [p \in Actors |-> {}] /\ stamp = [p \in Actors |-> 0]
    /\ cycle = Empty /\ began = 0 /\ phase = "exits" /\ todo = {} /\ pending = {}
    /\ first = [d \in Days |-> 0] /\ stray = FALSE /\ blind = FALSE
    /\ marked = book /\ backdated = {}

(***************************************************************************)
(* The gates.                                                              *)
(***************************************************************************)
Loss(from, to) == from > 0 /\ (from - to) * 100 >= LossPercent * from

\* The worker reads its limit from ai_mode.json in every cycle; the buys that a lower
\* one refuses are among those that Refuse refuses.
LimitOf(p) == IF p = Worker THEN WorkerLimit ELSE DeskLimit

\* Mutant: the limit itself still has room.
Room_AtLimit(p) == sym[p] \in snap[p].held \/ Cardinality(snap[p].held) <= LimitOf(p)

Room(p) == sym[p] \in snap[p].held \/ Cardinality(snap[p].held) < LimitOf(p)

\* The limits on notional, buying power, concentration and exposure and the
\* correlation compare amounts; they may refuse any buy (Refuse).
Approved(p) ==
    /\ snap[p].value > 0
    /\ side[p] = "buy" =>
        /\ sym[p] \notin cool[p]
        /\ Room(p)
        /\ ~Loss(memory[Engine(p)], snap[p].value)

(***************************************************************************)
(* The shared files.                                                       *)
(***************************************************************************)
\* Mutant: the start of yesterday is kept.
Kept_AnyDate(d) == dayStart.value > 0

\* The recorded start is kept if it is of the day and positive.
Kept(d) == dayStart.date = d /\ dayStart.value > 0

Active(marks, t) == {s \in Symbols : marks[s] # Never /\ t - marks[s] < Window}

\* A read of the book drops the marks that have run out.
Pruned(marks, t) == [s \in Symbols |-> IF s \in Active(marks, t) THEN marks[s] ELSE Never]

\* Mutant: the mark is added to a book that was not read again.
Stamped_Alone(s, t) == [u \in Symbols |-> IF u = s THEN t ELSE Never]

Stamped(s, t) == [book EXCEPT ![s] = t]

WriteMark(s, t) ==
    /\ book' = Stamped(s, t)
    /\ marked' = [marked EXCEPT ![s] = IF t > @ THEN t ELSE @]
    /\ backdated' = IF book[s] > t THEN backdated \cup {s} ELSE backdated

(***************************************************************************)
(* A request of the Desk and a cycle of the worker, up to the evaluation.  *)
(***************************************************************************)
Goto(p, place) == at' = [at EXCEPT ![p] = place]
\* Where a handler is after its order.
After(p) == IF p = Worker THEN "ready" ELSE "idle"

DeskAccount(p, s, way) ==
    /\ p \in Desks /\ at[p] = "idle"
    /\ side' = [side EXCEPT ![p] = way] /\ sym' = [sym EXCEPT ![p] = s]
    /\ snap' = [snap EXCEPT ![p] = AccountNow]
    /\ Goto(p, "date")
    /\ UNCHANGED <<now, market, files, memory, day, start, cool, stamp, worker, history>>

WorkerAccount ==
    /\ at[Worker] = "idle" /\ now \in MarketHours
    /\ cycle' = AccountNow
    /\ snap' = [snap EXCEPT ![Worker] = AccountNow]
    /\ phase' = "exits" /\ todo' = held
    /\ Goto(Worker, "date")
    /\ UNCHANGED <<now, market, files, memory, side, sym, day, start, cool, stamp,
                   own, began, pending, history>>

\* date.today() is read before the flock.
ReadDate(p) ==
    /\ at[p] = "date"
    /\ day' = [day EXCEPT ![p] = Date(now)]
    /\ Goto(p, "persist")
    /\ UNCHANGED <<now, market, files, memory, side, sym, snap, start, cool, stamp,
                   worker, history>>

Persist(p) ==
    /\ at[p] = "persist"
    /\ LET d == day[p] IN
        /\ dayStart' = IF Kept(d) THEN dayStart ELSE [date |-> d, value |-> snap[p].value]
        /\ first' = [first EXCEPT ![d] = IF @ > 0 THEN @ ELSE snap[p].value]
        /\ stray' = (stray \/ d < dayStart.date)
    /\ start' = [start EXCEPT ![p] = dayStart'.value]
    /\ Goto(p, "remember")
    /\ UNCHANGED <<now, market, book, memory, side, sym, snap, day, cool, stamp,
                   worker, marked, backdated, blind>>

Remember(p) ==
    /\ at[p] = "remember"
    /\ memory' = [memory EXCEPT ![Engine(p)] = start[p]]
    /\ Goto(p, "book")
    /\ UNCHANGED <<now, market, files, local, worker, history>>

\* The time is read just before the flock; an older one only keeps more marks.
ReadBook(p) ==
    /\ at[p] = "book"
    /\ book' = Pruned(book, now)
    /\ IF p = Worker
       THEN /\ own' = Pruned(own, now)
            /\ began' = now
            /\ cool' = [cool EXCEPT ![p] = Active(book, now) \cup Active(own, now)]
       ELSE /\ cool' = [cool EXCEPT ![p] = Active(book, now)]
            /\ UNCHANGED <<own, began>>
    /\ Goto(p, IF p = Worker THEN "ready" ELSE "evaluate")
    /\ UNCHANGED <<now, market, dayStart, memory, side, sym, snap, day, start, stamp,
                   cycle, phase, todo, pending, history>>

(***************************************************************************)
(* The worker's exits, entries and intents.  An exit takes an account of   *)
(* its own, an entry as well; the intents are evaluated against the        *)
(* account of the cycle.                                                   *)
(***************************************************************************)
Take(s, way, account) ==
    /\ at[Worker] = "ready"
    /\ side' = [side EXCEPT ![Worker] = way] /\ sym' = [sym EXCEPT ![Worker] = s]
    /\ snap' = [snap EXCEPT ![Worker] = account]
    /\ Goto(Worker, "evaluate")
    /\ UNCHANGED <<now, market, files, memory, day, start, cool, stamp,
                   own, cycle, began, phase, pending, history>>

Exit(s) ==
    /\ phase = "exits" /\ s \in todo
    /\ Take(s, "sell", AccountNow)
    /\ todo' = todo \ {s}

\* Symbols held in the account of the cycle are passed over, whatever was sold since.
Scan ==
    /\ at[Worker] = "ready" /\ phase = "exits"
    /\ phase' = "entries" /\ todo' = Symbols \ cycle.held /\ pending' = working
    /\ UNCHANGED <<now, market, files, memory, at, local, own, cycle, began, history>>

Entry(s) ==
    /\ phase = "entries" /\ s \in todo \ pending
    /\ Take(s, "buy", AccountNow)
    /\ todo' = todo \ {s}

\* The intents: the book is read again.
Intents ==
    /\ at[Worker] = "ready" /\ phase = "entries"
    /\ phase' = "intents" /\ todo' = Symbols
    /\ Goto(Worker, "book")
    /\ UNCHANGED <<now, market, files, memory, local, own, cycle, began, pending, history>>

Intent(s, way) ==
    /\ phase = "intents" /\ s \in todo
    /\ way = "sell" => s \in cycle.held
    /\ Take(s, way, cycle)
    /\ todo' = todo \ {s}

EndCycle ==
    /\ at[Worker] = "ready" /\ phase \in {"entries", "intents"}
    /\ Goto(Worker, "idle")
    /\ UNCHANGED <<now, market, files, memory, local, worker, history>>

(***************************************************************************)
(* The decision, the venue's acceptance, and the mark of a sale.           *)
(***************************************************************************)
Approve(p) ==
    /\ at[p] = "evaluate" /\ Approved(p)
    /\ Goto(p, "land")
    /\ UNCHANGED <<now, market, files, memory, local, worker, history>>

\* A gate refuses, or a later one does: kill, limit of orders, broker.
Refuse(p) ==
    /\ at[p] \in {"evaluate", "land"}
    /\ Goto(p, After(p))
    /\ UNCHANGED <<now, market, files, memory, local, worker, history>>

BuyLands(p) ==
    /\ at[p] = "land" /\ side[p] = "buy" /\ orders < MaxOrders
    /\ orders' = orders + 1
    /\ working' = working \cup {sym[p]}
    /\ blind' = (blind \/ ~((held \cup working) \subseteq snap[p].held \cup {sym[p]}))
    /\ Goto(p, After(p))
    /\ UNCHANGED <<now, value, held, selling, files, memory, local, worker,
                   first, stray, marked, backdated>>

\* Only the Desk and the worker's exits mark a sale; the intents' path does not.
SellLands(p) ==
    /\ at[p] = "land" /\ side[p] = "sell" /\ orders < MaxOrders
    /\ orders' = orders + 1
    /\ selling' = selling \cup {sym[p]}
    /\ Goto(p, IF p = Worker /\ phase = "intents" THEN "ready" ELSE "stamp")
    /\ UNCHANGED <<now, value, held, working, files, memory, local, worker,
                   first, stray, marked, backdated, blind>>

\* The answer is not one of the venue, or the journal misses it: no mark.
Unmarked(p) ==
    /\ at[p] = "stamp"
    /\ Goto(p, After(p))
    /\ UNCHANGED <<now, market, files, memory, local, worker, history>>

Stamp(p) ==
    /\ at[p] = "stamp"
    /\ stamp' = [stamp EXCEPT ![p] = now]
    /\ Goto(p, "mark")
    /\ UNCHANGED <<now, market, files, memory, side, sym, snap, day, start, cool,
                   worker, history>>

Mark(p) ==
    /\ at[p] = "mark"
    /\ WriteMark(sym[p], stamp[p])
    /\ Goto(p, IF p = Worker THEN "again" ELSE "idle")
    /\ UNCHANGED <<now, market, dayStart, memory, local, worker, first, stray, blind>>

\* The worker marks its exit a second time, with the time it read for the cycle.
MarkAgain ==
    /\ at[Worker] = "again"
    /\ own' = [own EXCEPT ![sym[Worker]] = began]
    /\ WriteMark(sym[Worker], began)
    /\ Goto(Worker, "ready")
    /\ UNCHANGED <<now, market, dayStart, memory, local, cycle, began, phase, todo,
                   pending, first, stray, blind>>

(***************************************************************************)
(* Failures: a call raises out of the handler; a process is restarted.     *)
(***************************************************************************)
GiveUp(p) ==
    /\ at[p] # "idle"
    /\ Goto(p, "idle")
    /\ UNCHANGED <<now, market, files, memory, local, worker, history>>

Restart(e) ==
    /\ memory' = [memory EXCEPT ![e] = 0]
    /\ at' = [p \in Actors |-> IF Engine(p) = e THEN "idle" ELSE at[p]]
    /\ own' = IF e = "worker" THEN [s \in Symbols |-> Never] ELSE own
    /\ UNCHANGED <<now, market, files, local, cycle, began, phase, todo, pending, history>>

(***************************************************************************)
(* The world: time, the account and the venue's orders.  A position may    *)
(* close without an order of the program, by a leg of its bracket.         *)
(***************************************************************************)
Tick ==
    /\ now < MaxTime
    /\ now' = now + 1
    /\ UNCHANGED <<market, files, memory, at, local, worker, history>>

Market ==
    /\ \/ value' \in Values \ {value} /\ UNCHANGED <<held, working, selling>>
       \/ \E s \in working :
            /\ working' = working \ {s} /\ held' \in {held, held \cup {s}}
            /\ UNCHANGED <<value, selling>>
       \/ \E s \in selling :
            /\ selling' = selling \ {s} /\ held' \in {held, held \ {s}}
            /\ UNCHANGED <<value, working>>
       \/ \E s \in held : held' = held \ {s} /\ UNCHANGED <<value, working, selling>>
    /\ UNCHANGED <<now, orders, files, memory, at, local, worker, history>>

RiskNext ==
    \/ Tick \/ Market
    \/ WorkerAccount \/ Scan \/ Intents \/ EndCycle \/ MarkAgain
    \/ \E s \in Symbols : Exit(s) \/ Entry(s)
    \/ \E s \in Symbols, way \in {"buy", "sell"} :
        Intent(s, way) \/ \E p \in Desks : DeskAccount(p, s, way)
    \/ \E p \in Actors :
        \/ ReadDate(p) \/ Persist(p) \/ Remember(p) \/ ReadBook(p)
        \/ Approve(p) \/ Refuse(p) \/ BuyLands(p) \/ SellLands(p)
        \/ Unmarked(p) \/ Stamp(p) \/ Mark(p) \/ GiveUp(p)
    \/ \E e \in Engines : Restart(e)

RiskSpec == RiskInit /\ [][RiskNext]_riskVars

(***************************************************************************)
(* Properties.                                                             *)
(***************************************************************************)
\* No buy is approved on an account that lost the limit against the first
\* value anybody recorded for the day, until a request that read yesterday's
\* date writes after midnight, and unless the handler recorded an account
\* without a value, or another request changed what the engine remembers
\* between the handler's own record and its evaluation.
HaltUnlessMixed ==
    [][\A p \in Actors :
        /\ at[p] = "evaluate" /\ at'[p] = "land" /\ side[p] = "buy"
        /\ ~stray /\ start[p] > 0 /\ memory[Engine(p)] = start[p]
        => ~Loss(first[day[p]], snap[p].value)]_riskVars

\* The larger of the two engines' limits.
MaxOpen == IF DeskLimit < WorkerLimit THEN WorkerLimit ELSE DeskLimit

\* Positions and working buys are never more than the limit of open positions,
\* the larger one where Desk and worker have different ones, until a buy lands
\* beside one that its snapshot did not have.
OpenLimitUnlessBlind ==
    ~blind => Cardinality(held \cup working) <= MaxOpen

\* A sale that was marked keeps its symbol in cool-down for the whole window,
\* whoever prunes the book or marks other symbols, unless the worker's second
\* mark took it back to the beginning of its cycle.
MarksLast == Active(marked, now) \subseteq Active(book, now) \cup backdated
=============================================================================
