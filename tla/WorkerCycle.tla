------------------------------ MODULE WorkerCycle ------------------------------
(***************************************************************************)
(* The cycle of the paper worker: sync the ledger with the venue, take a   *)
(* snapshot of the account, read the kill switch, sell what has to be      *)
(* sold, buy what the strategy asks for and the ledger does not already    *)
(* hold a working buy of, and consume the intents.                         *)
(*                                                                         *)
(* The cycle works on what it read: the snapshot, the kill switch and the  *)
(* working buys are each read once, while the venue fills orders and the   *)
(* Desk buys, saves rows and uses the kill switch.  The ledger is read     *)
(* through a window of the rows saved last.  A request that finds a pinned *)
(* row of its symbol and side repeats that row's key.  Buys are modelled   *)
(* one by one, a sell as the state of its symbol; every other row only     *)
(* pushes the buys out of the window.                                      *)
(***************************************************************************)
EXTENDS Naturals, FiniteSets

CONSTANTS
    Symbols,
    Nothing,     \* no symbol
    MaxBuys,     \* bound of the buy orders
    Window,      \* rows that get_recent_orders returns
    MaxFaults    \* bound of failing calls, rejected sells and restarts

ASSUME NothingAssumption == Nothing \notin Symbols
ASSUME BoundAssumption ==
    MaxBuys \in Nat /\ Window \in Nat \ {0} /\ MaxFaults \in Nat

Orders == 1..MaxBuys

VARIABLES
    position,  \* symbols held at the venue
    sell,      \* symbols with a working sell at the venue
    breach,    \* symbols whose exit condition holds
    sym,       \* symbol of each buy
    venue,     \* each buy at the venue
    row,       \* its row in the ledger
    newer,     \* how many rows were saved after it, up to Window, until it is settled
    pinned,    \* buys that landed and whose row keeps its pin: the journal missed them
    sellPin,   \* symbols with a sell that landed and whose row keeps its pin
    killed,    \* the KILL_SWITCH file exists
    at,        \* where the worker's loop is
    isHalted,  \* the kill switch as this cycle read it
    held,      \* symbols held in the snapshot
    todo,      \* symbols the current pass has still to look at
    cur,       \* symbol of the entry being made
    crossed,   \* history: symbols whose buy the Desk placed or repeated during this cycle
    refused,   \* history: symbols whose exit was attempted and refused in this pass
    grace,     \* history: the kill switch was engaged after this cycle read it
    late,      \* history: entries made since the kill switch was engaged
    faults

venueVars == <<position, sell, breach>>
ledgerVars == <<sym, venue, row, newer, pinned, sellPin>>
killVars == <<killed, grace, late>>
cycleVars == <<at, isHalted, held, todo, cur>>
workerVars == <<venueVars, ledgerVars, killVars, cycleVars, crossed, refused, faults>>

\* The values each part of the state may have.
CycleTypeOK ==
    /\ position \subseteq Symbols /\ sell \subseteq Symbols /\ breach \subseteq Symbols
    /\ sym \in [Orders -> Symbols \cup {Nothing}]
    /\ venue \in [Orders -> {"none", "working", "filled", "ended"}]
    /\ row \in [Orders -> {"none", "open", "unknown", "filled", "ended"}]
    /\ newer \in [Orders -> 0..Window]
    /\ pinned \subseteq Orders
    /\ sellPin \subseteq Symbols
    /\ killed \in BOOLEAN /\ grace \in BOOLEAN /\ late \in 0..MaxBuys
    /\ at \in {"sleep", "account", "exits", "entries", "submit", "intents"}
    /\ isHalted \in BOOLEAN
    /\ held \subseteq Symbols /\ todo \subseteq Symbols
    /\ cur \in Symbols \cup {Nothing}
    /\ crossed \subseteq Symbols /\ refused \subseteq Symbols
    /\ faults \in 0..MaxFaults

CycleInit ==
    /\ position = {} /\ sell = {} /\ breach = {}
    /\ sym = [o \in Orders |-> Nothing]
    /\ venue = [o \in Orders |-> "none"]
    /\ row = [o \in Orders |-> "none"]
    /\ newer = [o \in Orders |-> 0]
    /\ pinned = {}
    /\ sellPin = {}
    /\ killed = FALSE /\ grace = FALSE /\ late = 0
    /\ at = "sleep" /\ isHalted = FALSE
    /\ held = {} /\ todo = {}
    /\ cur = Nothing
    /\ crossed = {} /\ refused = {}
    /\ faults = 0

Fault == faults < MaxFaults /\ faults' = faults + 1
Midway == at \notin {"sleep", "account"}

-----------------------------------------------------------------------------
(* The ledger.                                                              *)

Least(S) == CHOOSE n \in S : \A m \in S : n <= m
Known(o) == row[o] # "none"
Visible(o) == Known(o) /\ newer[o] < Window
\* Statuses that are not terminal, those of a lost answer among them.
Unsettled(o) == row[o] \in {"open", "unknown"}
BuysOf(s) == {o \in Orders : Known(o) /\ sym[o] = s}
Bought(s) == s \in position \/ \E o \in BuysOf(s) : venue[o] = "working"

\* The rows os are saved and become the newest, after n rows of other orders.
Older(os, n) == [o \in Orders |->
    IF o \in os THEN 0
    ELSE IF Unsettled(o)
         THEN Least({Window, newer[o] + n + Cardinality({p \in os : newer[p] > newer[o]})})
         ELSE newer[o]]

RowOf(v) == IF v = "working" THEN "open" ELSE v
New(o) == ~Known(o) /\ \A p \in 1..(o - 1) : Known(p)

\* A buy with a key of its own that reaches the order manager: the venue takes
\* it or refuses it.  The pin stays on what landed and was not journaled.
Placed(s, journaled) ==
    \E o \in Orders :
        /\ New(o)
        /\ sym' = [sym EXCEPT ![o] = s]
        /\ newer' = Older({o}, 1)
        /\ \E v \in {"working", "ended"} :
             /\ venue' = [venue EXCEPT ![o] = v]
             /\ row' = [row EXCEPT ![o] = RowOf(v)]
             /\ pinned' = IF ~journaled /\ v = "working" THEN pinned \cup {o} ELSE pinned
        /\ UNCHANGED sellPin

\* The answer is lost, whether or not the venue took the order.  An exception that
\* does not look like a lost answer counts as a refusal of what the venue took.
PlacedUnknown(s) ==
    \E o \in Orders :
        /\ New(o)
        /\ sym' = [sym EXCEPT ![o] = s]
        /\ newer' = Older({o}, 1)
        /\ \/ /\ row' = [row EXCEPT ![o] = "unknown"]
              /\ \E v \in {"none", "working"} : venue' = [venue EXCEPT ![o] = v]
           \/ /\ row' = [row EXCEPT ![o] = "ended"]
              /\ venue' = [venue EXCEPT ![o] = "working"]
        /\ UNCHANGED <<pinned, sellPin>>

Place(s) ==
    \/ Placed(s, TRUE) /\ UNCHANGED faults
    \/ PlacedUnknown(s) /\ Fault

PlaceUnjournaled(s) == Placed(s, FALSE) /\ Fault

\* find_sticky_order looks through the whole ledger for a pinned row: every row
\* of unknown acceptance is pinned.
Sticky(s) == {o \in BuysOf(s) : row[o] = "unknown" \/ (o \in pinned /\ row[o] # "ended")}

\* The key of a pinned row is sent again.  Only an order the venue never had can
\* be taken now, with an answer or without; of one it has, it says no more than that
\* the key is used, and the row stays unknown.  What is known to have landed is not
\* sent again.
Replay(o, journaled) ==
    /\ \/ /\ row[o] = "unknown" /\ venue[o] = "none"
          /\ venue' = [venue EXCEPT ![o] = "working"]
          /\ row' = [row EXCEPT ![o] = "open"]
          /\ newer' = Older({o}, 0)
          /\ pinned' = IF journaled THEN pinned ELSE pinned \cup {o}
       \/ /\ row[o] = "unknown"
          /\ newer' = Older({o}, 0)
          /\ venue' \in {venue, [venue EXCEPT ![o] = IF venue[o] = "none" THEN "working" ELSE venue[o]]}
          /\ UNCHANGED <<row, pinned>>
       \/ /\ row[o] # "unknown"
          /\ UNCHANGED <<venue, row, newer, pinned>>
    /\ IF journaled THEN UNCHANGED faults ELSE Fault
    /\ UNCHANGED <<sym, sellPin>>

-----------------------------------------------------------------------------
(* The venue and the market.                                                *)

Fill(o) ==
    /\ venue[o] = "working"
    /\ venue' = [venue EXCEPT ![o] = "filled"]
    /\ position' = position \cup {sym[o]}
    /\ UNCHANGED <<sell, breach, sym, row, newer, pinned, sellPin, killVars, cycleVars, crossed, refused, faults>>

\* The order is cancelled or expires at the end of the day.
Lapse(o) ==
    /\ venue[o] = "working"
    /\ venue' = [venue EXCEPT ![o] = "ended"]
    /\ UNCHANGED <<venueVars, sym, row, newer, pinned, sellPin, killVars, cycleVars, crossed, refused, faults>>

\* A working sell, or a leg of the bracket, closes the position.
Close(s) ==
    /\ s \in position
    /\ position' = position \ {s}
    /\ sell' = sell \ {s}
    /\ breach' = breach \ {s}
    /\ UNCHANGED <<ledgerVars, killVars, cycleVars, crossed, refused, faults>>

\* A working sell is cancelled or expires.  The pin of a row that is known to have
\* ended is void, that of a row of unknown acceptance is not.
SellLapse(s) ==
    /\ s \in sell
    /\ sell' = sell \ {s}
    /\ sellPin' \in {sellPin, sellPin \ {s}}
    /\ UNCHANGED <<position, breach, sym, venue, row, newer, pinned, killVars, cycleVars, crossed, refused, faults>>

Breach(s) ==
    /\ s \in position /\ s \notin breach
    /\ breach' = breach \cup {s}
    /\ UNCHANGED <<position, sell, ledgerVars, killVars, cycleVars, crossed, refused, faults>>

-----------------------------------------------------------------------------
(* The Desk, the chat and the command line.                                 *)

Crosses(s) == crossed' = IF Midway /\ at # "intents" THEN crossed \cup {s} ELSE crossed

DeskBuy(s) ==
    /\ ~killed
    /\ Sticky(s) = {}
    /\ Place(s) \/ PlaceUnjournaled(s)
    /\ Crosses(s)
    /\ UNCHANGED <<venueVars, killVars, cycleVars, refused>>

\* A request meets a pinned row.  One of unknown acceptance is sent again, when the
\* request repeats its key; one that landed is journaled and keeps its pin.
DeskRepeat(o) ==
    /\ Known(o) /\ o \in Sticky(sym[o])
    /\ IF row[o] = "unknown" THEN ~killed /\ \E journaled \in BOOLEAN : Replay(o, journaled)
       ELSE newer' = Older({o}, 0) /\ UNCHANGED <<sym, venue, row, pinned, sellPin, faults>>
    /\ Crosses(sym[o])
    /\ UNCHANGED <<venueVars, killVars, cycleVars, refused>>

\* A gate rejects a request that repeats the key of a row without a pin: the
\* rejection is saved over the row.
DeskOverwrites(o) ==
    /\ row[o] = "open" /\ o \notin pinned
    /\ row' = [row EXCEPT ![o] = "ended"]
    /\ newer' = Older({o}, 0)
    /\ UNCHANGED <<venueVars, sym, venue, pinned, sellPin, killVars, cycleVars, crossed, refused, faults>>

\* Any other row that is saved: a sell of the Desk, a rejected request or intent.
DeskSaves ==
    /\ newer' = Older({}, 1)
    /\ newer' # newer
    /\ UNCHANGED <<venueVars, sym, venue, row, pinned, sellPin, killVars, cycleVars, crossed, refused, faults>>

Kill ==
    /\ ~killed
    /\ killed' = TRUE
    /\ late' = 0
    /\ grace' = Midway
    /\ UNCHANGED <<venueVars, ledgerVars, cycleVars, crossed, refused, faults>>

Unkill ==
    /\ killed
    /\ killed' = FALSE
    /\ grace' = FALSE
    /\ late' = 0
    /\ UNCHANGED <<venueVars, ledgerVars, cycleVars, crossed, refused, faults>>

-----------------------------------------------------------------------------
(* The loop.                                                                *)

\* The cycle is over, at its end or by an exception; what it read is gone.
Over ==
    /\ at' = "sleep" /\ grace' = FALSE /\ isHalted' = FALSE
    /\ held' = {} /\ todo' = {} /\ cur' = Nothing
    /\ crossed' = {} /\ refused' = {}

\* The entry being made is done with, and the next symbol is looked at.
Onward == at' = "entries" /\ cur' = Nothing

\* _sync_orders: the rows of the window that are open take the venue's status;
\* a call that fails leaves its row.  A row of unknown acceptance is not synced.
Synced == {o \in Orders : Visible(o) /\ row[o] = "open"}

Sync ==
    /\ at = "sleep"
    /\ \E missed \in SUBSET Synced :
         LET taken == {o \in Synced \ missed : row[o] # RowOf(venue[o])} IN
         /\ IF missed = {} THEN UNCHANGED faults ELSE Fault
         /\ row' = [o \in Orders |-> IF o \in taken THEN RowOf(venue[o]) ELSE row[o]]
         /\ newer' = Older(taken, 0)
    /\ at' = "account"
    /\ UNCHANGED <<venueVars, sym, venue, pinned, sellPin, killVars, isHalted, held, todo, cur, crossed, refused>>

\* Outside market hours, or without an account, the rest of the cycle is left out.
NoAccount ==
    /\ at = "account"
    /\ Fault
    /\ at' = "sleep"
    /\ UNCHANGED <<venueVars, ledgerVars, killVars, isHalted, held, todo, cur, crossed, refused>>

\* Mutant: a kill is noticed only where the last cycle had noticed one.
HaltedNow_Kept == isHalted
HaltedNow == killed

\* The snapshot of the account, then the kill switch: what the venue does in between
\* it might as well do after.  Exits are judged on the prices of the whole pass;
\* without any price the strategy is left out and the intents are consumed.
Begin ==
    /\ at = "account"
    /\ isHalted' = HaltedNow
    /\ grace' = FALSE
    /\ \/ /\ held' = position
          /\ todo' = position \cap breach
          /\ at' = "exits"
          /\ UNCHANGED faults
       \/ /\ at' = "intents"
          /\ Fault
          /\ UNCHANGED <<held, todo>>
    /\ UNCHANGED <<venueVars, ledgerVars, killed, late, cur, crossed, refused>>

\* _submit_sell: the kill switch is no gate.  Every attempt saves a row.
\* Mutant: the kill switch stops sells.
SellAllowed_NotHalted == ~isHalted
SellAllowed == TRUE

\* Of a position, the venue sells what no working sell holds.
Sold(s) == sell \cup ({s} \cap position)
Looked(s) ==
    /\ todo' = todo \ {s}
    /\ UNCHANGED <<at, isHalted, held, cur, crossed, grace>>

\* The venue answers: it takes the sell, or refuses it for want of free shares.
\* A journal that cannot be written ends the cycle, and the sell stays pinned.
Exit(s) ==
    /\ at = "exits" /\ s \in todo
    /\ SellAllowed /\ s \notin sellPin
    /\ newer' = Older({}, 1)
    /\ sell' = Sold(s)
    /\ \/ Looked(s) /\ UNCHANGED <<sellPin, refused, faults>>
       \/ /\ sellPin' = sellPin \cup (sell' \ sell)
          /\ Over /\ Fault
    /\ UNCHANGED <<position, breach, sym, venue, row, pinned, killed, late>>

\* The answer to the sell is lost, whether or not the venue took it.  A sell the
\* venue never had is sent again with its key: the pin makes no difference to it.
ExitUnknown(s) ==
    /\ at = "exits" /\ s \in todo
    /\ SellAllowed /\ s \notin sellPin
    /\ newer' = Older({}, 1)
    /\ sell' \in {sell, Sold(s)}
    /\ sellPin' = sellPin \cup (sell' \ sell)
    /\ Looked(s) /\ Fault
    /\ UNCHANGED <<position, breach, sym, venue, row, pinned, killed, late, refused>>

\* A pinned sell that landed is all that a later exit of the symbol finds.
ExitRepeats(s) ==
    /\ at = "exits" /\ s \in todo
    /\ SellAllowed /\ s \in sellPin
    /\ newer' \in {newer, Older({}, 1)}
    /\ Looked(s)
    /\ UNCHANGED <<venueVars, sym, venue, row, pinned, sellPin, killed, late, refused, faults>>

\* No price, too few of them, no account, no mandate, an order too large for the risk
\* engine, or an error: the same exit may be refused in every cycle.  A symbol without
\* a price is not attempted.
ExitRefused(s) ==
    /\ at = "exits" /\ s \in todo
    /\ refused' = IF SellAllowed THEN refused \cup {s} ELSE refused
    /\ newer' \in {newer, Older({}, 1)}
    /\ Looked(s)
    /\ UNCHANGED <<venueVars, sym, venue, row, pinned, sellPin, killed, late, faults>>

\* _pending_buy_symbols, after the exits.
\* Mutant: the working buys are not looked up.
PendingSymbols_None == {}
PendingSymbols == {sym[o] : o \in {p \in Orders : Visible(p) /\ Unsettled(p)}}

\* What is left to look at is neither held in the snapshot nor bought already.
Pending ==
    /\ at = "exits" /\ todo = {}
    /\ todo' = Symbols \ (held \cup PendingSymbols)
    /\ held' = {} /\ refused' = {}
    /\ at' = "entries"
    /\ UNCHANGED <<venueVars, ledgerVars, killVars, isHalted, cur, crossed, faults>>

\* worker_kill_blocks_side("buy"), read from the file for every buy.
\* Mutant: the value the cycle read is used.
Blocked_AsRead == isHalted
Blocked == killed

\* A signal: the kill switch is read first.  Symbols without a signal, with stale
\* research or blocked by the cadence, the regime, the mandate or the size are
\* passed over without effect.
Check(s) ==
    /\ at = "entries" /\ s \in todo
    /\ todo' = todo \ {s}
    /\ IF Blocked THEN UNCHANGED <<at, cur>> ELSE at' = "submit" /\ cur' = s
    /\ UNCHANGED <<venueVars, ledgerVars, killVars, isHalted, held, crossed, refused, faults>>

\* Sizing, mandate, sticky look-up, daily slot and process_signal: the buy is
\* refused by the risk gates (which saves a row), repeated, or placed.  The refusal
\* is journaled too.
RefuseEntry ==
    /\ at = "submit"
    /\ newer' = Older({}, 1)
    /\ \/ Onward /\ UNCHANGED <<grace, isHalted, held, todo, crossed, refused, faults>>
       \/ Over /\ Fault
    /\ UNCHANGED <<venueVars, sym, venue, row, pinned, sellPin, killed, late>>

Buy ==
    /\ at = "submit"
    /\ IF Sticky(cur) = {} THEN Place(cur) ELSE \E o \in Sticky(cur) : Replay(o, TRUE)
    /\ late' = IF killed THEN late + 1 ELSE late
    /\ Onward
    /\ UNCHANGED <<venueVars, killed, grace, isHalted, held, todo, crossed, refused>>

\* The journal cannot be written: the exception ends the cycle, the row is pinned.
BuyUnjournaled ==
    /\ at = "submit"
    /\ IF Sticky(cur) = {} THEN PlaceUnjournaled(cur) ELSE \E o \in Sticky(cur) : Replay(o, FALSE)
    /\ late' = IF killed THEN late + 1 ELSE late
    /\ Over
    /\ UNCHANGED <<venueVars, killed>>

ToIntents ==
    /\ at = "entries"
    /\ at' = "intents"
    /\ todo' = {} /\ crossed' = {}
    /\ UNCHANGED <<venueVars, ledgerVars, killVars, isHalted, held, cur, refused, faults>>

\* An intent is placed unless the cycle began halted; it is not compared with
\* what is held or working.
IntentBuy(s) ==
    /\ at = "intents"
    /\ ~isHalted
    /\ Sticky(s) = {}
    /\ Place(s) \/ PlaceUnjournaled(s)
    /\ UNCHANGED <<venueVars, killVars, cycleVars, crossed, refused>>

\* The order manager answers an intent with the pinned row of another request; when
\* that one landed, journaling the intent drops its pin.
IntentUnpins(o) ==
    /\ at = "intents"
    /\ ~isHalted
    /\ o \in pinned /\ row[o] # "ended"
    /\ pinned' = pinned \ {o}
    /\ newer' = Older({o}, 0)
    /\ UNCHANGED <<venueVars, sym, venue, row, sellPin, killVars, cycleVars, crossed, refused, faults>>

EndCycle ==
    /\ at = "intents"
    /\ Over
    /\ UNCHANGED <<venueVars, ledgerVars, killed, late, faults>>

\* The worker ends and is started again.
RestartWorker ==
    /\ Fault
    /\ Over
    /\ UNCHANGED <<venueVars, ledgerVars, killed, late>>

-----------------------------------------------------------------------------
Loop ==
    \/ Sync \/ NoAccount \/ Begin \/ Pending
    \/ \E s \in Symbols :
          \/ Exit(s) \/ ExitUnknown(s) \/ ExitRepeats(s) \/ ExitRefused(s)
          \/ Check(s) \/ IntentBuy(s)
    \/ \E o \in Orders : IntentUnpins(o)
    \/ RefuseEntry \/ Buy \/ BuyUnjournaled \/ ToIntents \/ EndCycle

Environment ==
    \/ \E o \in Orders : Fill(o) \/ Lapse(o) \/ DeskRepeat(o) \/ DeskOverwrites(o)
    \/ \E s \in Symbols : Close(s) \/ SellLapse(s) \/ Breach(s) \/ DeskBuy(s)
    \/ DeskSaves \/ Kill \/ Unkill

CycleNext == Loop \/ Environment \/ RestartWorker

\* The worker's loop goes on as long as its process runs.
Fairness == WF_workerVars(Loop)

CycleSpec == CycleInit /\ [][CycleNext]_workerVars /\ Fairness

-----------------------------------------------------------------------------
(* Properties.                                                              *)

\* An entry is not made for a symbol that is already bought: no lot is held
\* and no other buy works, unless that buy has left the window of the ledger,
\* its row says that it ended and the venue still has it (the Desk overwrote the
\* row, or an exception was taken for a refusal), or the Desk bought the symbol
\* in this very cycle.
EntersOnce ==
    [][at = "submit" /\ at' # "submit" =>
         \A o \in Orders : ~Known(o) /\ row'[o] # "none" =>
           \/ ~Bought(cur)
           \/ cur \in crossed
           \/ \E p \in BuysOf(cur) :
                \/ Unsettled(p) /\ ~Visible(p)
                \/ row[p] = "ended" /\ venue[p] # "ended"]_workerVars

\* A kill lets through at most the one entry that had passed its check.
KillStopsEntries == late <= 1

\* While the kill switch is on nothing new reaches the venue from the worker,
\* but in the cycle that had read the switch before: neither an entry nor the
\* intents, which are consumed under what the cycle read.
KillStopsBuying ==
    [][killed /\ ~grace => \A o \in Orders : Known(o) \/ row'[o] = "none"]_workerVars

\* A position that has to be sold is sold, or has a working sell, whether or
\* not the kill switch is on ("Allows closing positions (SELL) even when halted"),
\* unless an earlier sell of the symbol is pinned: or else every cycle that comes to
\* its exits attempts the sell again, and a gate refuses it.
ExitsAreMade ==
    \A s \in Symbols : s \in breach ~> (s \notin breach \/ s \in sell \/ s \in sellPin \/ s \in refused)
=============================================================================
