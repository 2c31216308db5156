# Verification of the trading desk

TLA+ models of the parts of this repository that must not go wrong when two
requests overlap, a process dies or an answer is lost: the daily order limit, the
submission of orders with idempotency keys, the ledger of trade intents, the
cycle of the trading worker and its start and stop, the risk state Desk and
worker share, the chat commands, the research jobs with their scheduler, and the
price and option alerts with their delivery. TLC checks the models on small
instances; TLAPS proves the most important invariants for every value of the
constants.

Paths below are relative to `src/backend/`. The order of the modules, what is
left to do and what is left out stand at the end.

## 1. The system

A single-user stock desk. A FastAPI process (the **Desk**) serves the browser,
runs research scans on threads with a scheduler, and reads commands from a
Telegram chat; a **trading worker** process runs a cycle about once a minute; an
alert worker evaluates price alerts and delivers the triggered ones. The
processes share files and a database, never memory.

| Component | State it keeps | Operations | Interacts with |
|---|---|---|---|
| Daily order limit (`trading/safety/mandate.py`) | one file: UTC date, count; a `.fail` marker | evaluate, reserve, release, increment, each under a flock | Desk orders, worker buys, intent consumer |
| Order manager (`trading/engine/order_manager.py`) | none of its own | `submit_new_order`, `sync_order_status` | order ledger, broker, pins |
| Sticky pins (`trading/engine/sticky_idempotency.py`) | a flag in the ledger row | pin, clear, find, detach a reject | Desk, signal processor, worker, order manager |
| Order ledger (`trading/storage.py`) | a row for each idempotency key (JSON or SQLite) | upsert, look-up, list | everything that trades |
| Broker adapter (`trading/alpaca_broker.py`) | the venue's orders | submit by `client_order_id`, status, positions | order manager, sync |
| Desk orders (`trading/engine/desk_orders.py`) | none | `place_desk_order`: look-up, gates, slot, submit, journal, pin | all of the above |
| Signal processor (`trading/engine/signal_processor.py`) | none | `process_signal` for worker buys and intents | order manager, journal |
| Trading worker (`trading/engine/worker.py`) | cool-downs, peak values, kill state, trailing stops | one cycle: kill check, sync, exits, strategy signals, intents | all of the above |
| Trade journal (`utils/provenance/`) | append-only JSON lines | `record_from_order` | Desk, signal processor, worker |
| Intent ledger (`trading/intents/`) | a row for each intent: status, book, expiry | save, set status, claim, each under a flock | Desk API, intent consumer |
| Intent consumer (`trading/engine/harness_realtime.py`) | copies of listed rows, the time of its tick | expire, reserve, claim, hand on | intent ledger, daily limit, signal processor |
| Kill switch (`trading/safety/kill_switch.py`) | a flag file | halt, resume, read | worker, Desk, chat inbox |
| Risk gates, shared risk state (`trading/risk/`) | day-start file, cool-down book, the start each risk engine remembers | evaluate one order, record a start, mark a sale | Desk, worker |
| Worker control (`api/worker_ctl.py`) | pid and heartbeat files | start, restart, follow, stop, status | worker process, Desk, chat inbox |
| Chat inbox (`trading/telegram_inbox.py`) | the offset of the next update | fetch, handle a command, store the offset | kill switch, worker control, settings |
| Research jobs (`api/research_jobs.py`) | jobs in memory, two books on disk | start, run, resolve | scheduler, API, worker (reads the book) |
| Scan scheduler (`api/scan_scheduler.py`) | last trigger, thread | due slot, trigger, note | research jobs |
| Plan alerts (`alert_monitor.py`, `alert_worker.py`, SQL `persistence/migrations/007…`) | rules of a plan version, option positions, events | save a version, replace rules, confirm an entry, evaluate, record | plan pages, alert worker |
| Alert delivery (SQL `persistence/migrations/006…`, `007…`, `telegram_notifier.py`) | status, attempts and lease of each event | claim, send, report | alert worker, chat |

What is hard in it:

* **No lock spans two store calls.** A Desk request looks for a pinned order,
  passes a dozen gates, asks the order manager, which looks again, and then
  calls the broker. The worker does the same in another process.
* **The broker's answer can be lost** in either direction, and the same key is
  tried again; a rejected retry says nothing of the first attempt. The same is
  true of a message to the chat.
* **Copies are acted on.** Pins, the sync, the intent consumer and the alert
  worker write back or act on a row they read earlier; the worker's cycle works
  on one snapshot of the account; a deep report is merged into an older book.
* **Processes die** between the broker's accept and the save, between a claim
  and the hand-over, between a reservation and its release, and in the middle of
  a batch of commands, which is then delivered again.
* **A check and its locks are two steps**: an alert is recorded from a copy of
  its rule, and a replacement of rules checks the plan's version before it locks.
* **The clock is read before the lock**: for the order counter and for the start
  value of the day.
* **A dead worker is not seen to be dead**: it stays a zombie of the API process
  and its heartbeat stays fresh for a while.

What makes each modelled component correct:

* *daily limit*: never more orders of one date than the limit; a slot that is
  held is never forgotten, whatever dies or fails;
* *order submission*: no fresh key reaches the broker while an order of the
  symbol and side is in doubt; what the broker has, the ledger has; no outcome
  is invented; an unknown acceptance is pinned and ends only at the venue;
* *intents*: one active intent for each symbol and side; an intent is handed on
  at most once and only after it was consumed; terminal states stay; expired
  ones are not traded; a placed buy keeps its slot;
* *worker cycle*: a symbol is entered once; the kill switch stops buying and not
  selling; what has to be sold is sold;
* *shared risk state*: the daily loss is measured from the first value of the
  day; no mark of a sale is lost; the limit of open positions;
* *worker control*: at most one worker; a stop that answers leaves none; every
  call answers;
* *chat inbox*: no command is lost; a command carried out twice leaves the kill
  switch and the worker as the last word has them;
* *research jobs and scheduler*: a slot is fired once; a job ends, and "done"
  means its book is on disk; books never go back;
* *alerts*: a rule alerts once until it is re-armed; exit alerts follow a
  confirmed entry; a live position is never reset and keeps its stop; all rules
  are of the active version; an event is sent, once, or given up after its
  attempts.

`PROJECT.json` lists every component with its status and every hazard with its
line.

## 2. Modules

| Module | Models |
|---|---|
| `DailyOrders` | the counter file, its clock, flock and failures, and the requests that use it |
| `PlaceOnce` | what order submission promises: one order in doubt at a time |
| `OrderSubmission` | Desk and worker placing orders for one symbol and side, the sync, the ledger, the pins and the broker |
| `IntentLife` | what the intent ledger promises: an intent ends once, and only a consumed one is handed on, once |
| `Intents` | the intent ledger, the Desk API on it, the consumer and its daily slots |
| `WorkerCycle` | one worker going round its cycle, with the venue, the ledger window, the Desk and the kill switch |
| `RiskGates` | the risk gates with the day-start file and the cool-down book, used by the Desk's requests and the worker |
| `WorkerControl` | start, restart, follow and stop over processes, pid file and heartbeat |
| `ChatInbox` | the chat thread, its offset, and the kill switch and worker settings it changes |
| `Scans` | scan and deep jobs, their books, and the scheduler's loop |
| `OptionAlerts` | the option rules of one plan, the lifecycle of its position, and the workers that evaluate the rules |
| `AlertDelivery` | a stock rule, the workers that evaluate it, and the delivery of its events |
| `Buying_proofs` | the theorems of `WorkerCycle` and `DailyOrders`, which limit the buying |
| `Ordering_proofs` | the theorems of `RiskGates` and `OrderSubmission` |
| other `…_proofs` | the inductive invariant and the theorems of the module they are named after |
| `MC…` | the TLC instances |

Operators named `X_Something` under a comment "Mutant" are not part of a model:
each is the operator `X` with a plausible bug. Replacing `X` by it makes a run
report the property that `PROJECT.json` names with it, so every property of a run
is one that a mistake in the code would break.


### DailyOrders

One request is one `place_desk_order` call or one worker buy. Its `pc` follows
the calls it makes of the counter: `Evaluate` (a read), `ReadClock` and
`Reserve` (the UTC date is read *before* the flock is taken, `mandate.py:351`),
then either the slot is kept (`Accept`, `WorkerBrokerReject`) or released
(`BeginRelease`, `Release`, again with a clock of its own). A release is tied to
no reservation. A member of `Retries` is a Desk request, buy or sell, that retries
the key of an unknown order: it reserves nothing, and when it is told that the
order is rejected (`RetryRejected`) it releases all the same. The order of a Desk
request that releases may have landed, because an exception can be taken for a
refusal; then it keeps its `slot` while the file forgets it. `ReserveFails` and `ReleaseFails` are an `OSError`, with the
poison marker written or not. `Crash` is the death of the process. `file` is
exactly the JSON file; a missing or other-dated file reads 0. `slot` is the date
a request's slot was counted on. `loose` and `stray` are history: the places of
each date that were given back without being held, or held by an order that
landed; and whether a call that read its clock before midnight wrote over the
record of a later date.

### OrderSubmission

State: `ledger` (status and pin of each key), `broker` (what the venue has for
each `client_order_id`), `journaled` (history), and for every handler its place
`pc`, its `key`, `resubmit` (`safe_resubmit`), `replay` (`replay_landed`), and
`result`, the copy of a row it holds, with `of`, the key of that copy.

| Steps | Code |
|---|---|
| `DeskArrive`, `DeskLook`, `DeskReplay`, `DeskBlind` | `place_desk_order` up to its gates |
| `WorkerBegin`, `WorkerLook` | the worker's choice of a key, and its take-over of a pinned one |
| `GatesPass`, `GateReject`, `SkipBuy`, `SaveReject` | kill switch, mandate, account, price, risk and slot as one decision |
| `OmBlind` … `OmSaveResult` | `submit_new_order`, a step for every store call and the broker call |
| `Journal`, `Settle` | `record_from_order`, then pin, clear or neither |
| `SyncRead`, `SyncWrite` | `_sync_orders` and `sync_order_status` |
| `SellFails`, `Abandon` | an exception that `_submit_sell` turns into a reject; a death or an uncaught exception |
| `BrokerMoves` | the venue fills, cancels or expires an order |

Abstractions: one symbol and one side (pins are looked up by both, so others do
not interfere); all gates are one decision; `closed` stands for cancelled,
expired and rejected by the venue later; `unmapped` stands for every venue
status the adapter does not know; `aborted` for an exception of the broker call
that is on none of the lists of lost answers (`sticky_idempotency.py:100`), so that
it is taken for a refusal whether or not the order landed (`disowned` is the history
of those that did); a broker query that fails in the sync is
`Abandon`. Left out: shadow mode, rows under a `:not-retry:` key (rejected and
never looked up), a store that cannot list its rows (`StickyLookupUnproven`; no
store the program builds is one). A worker's key is stamped with the time, so it
is one nobody has used; the intent consumer also calls `process_signal`, with a
key of its own, and is a module apart.

### Intents

State: `store` (status, book and expiry of each id; a *book* is a symbol with a
side), `now`, `slots` (the count of the day), and for each consumer `pc`, `when`
(the time its tick began), `todo` (the listed copies it has not come to) and
`item` (the copy it has reserved for). `handed` and `orders` are history.

`Upsert` and `Cancel` are the Desk API; each store call is one step because it
holds the flock and reloads. `BeginTick`, `ListStale`, `ExpireOne`,
`ExpireDone` are `expire_stale_intents`; `ListActive`, `Skip`, `Reserve`,
`Claim`, `ClaimLost`, `ClaimRaises`, `Placed`, `RiskRejected`, `NotPlaced`,
`EndTick` are the loop of `consume_active_intents`. `Stop` is the death of the
worker, or a list call that raises and ends the tick. Rows are taken in any
order: they are sorted by `as_of`, which the client supplies. Left out: stored
rows with veto codes (the writer refuses them), a mandate without a daily limit
(then nothing is reserved), the sizing, and the kill switch except that a killed
tick only expires (`ExpireDone`). The hand-over is one step: `process_signal` is
called again without account and extras when a `TypeError` comes out of it
(`harness_realtime.py:470`), with the same key, which the order manager answers from
the row of the first call. An expiry whose `set_status`
raises is left out: the row stays for the next tick, and one that raises in every tick is never
expired. The date change of the counter is the matter of `DailyOrders`.

### OptionAlerts

State: `version` (the plan's active one), `rules` (`price_alerts`, at most one row
for each event type; `gen`, the replacement that inserted a row, stands for its
id), `position` (`option_positions`, for each version), `events`
(`alert_events`), `todo` (the copies each worker has listed), `asked` (the
version a tab's replacement was checked for), `saving` (the version being saved) and
`locked` (the replacements whose rows the save has locked).

| Actions | Code |
|---|---|
| `SaveLocks`, `SavePlan` | `save_saved_plan_version`: it locks the rules it finds and looks for a live position, then deletes every rule of the plan, those inserted meanwhile as well |
| `ConfirmEntry` | `confirm_option_position_entry`, which locks what it changes and is one step |
| `ReplaceCheck`, `ReplaceRaises`, `Replace` | `replace_plan_alert_rules`: the check of the version takes no lock and is a step of its own |
| `ListEnabled`, `Skip`, `EndCheck` | `check_alerts` in the worker: listing, a stale or risky quote, the end of a check |
| `RecordQuiet`, `RecordRefused`, `RecordTrigger` | `evaluate_alert_transition` on the copy and `record_alert_evaluation` on the row |

A quote is a zone: at the level or past it, near it, or far enough to re-arm.
Two workers with quotes of different times build different idempotency keys, so
the key alone does not keep an alert single; the row's state must. Left out:
stock rules and the delivery of events (`AlertDelivery`), and two
replacements that both find no row to lock, so that their rules merge.
`QuietSpec` has no replacement that overlaps a save. With one that was checked before
the save, the code leaves rules and a position of an old version; with one that
inserts its rules between the locks of the save and its delete, an entry alerted in
between leaves a live position without rules. Both stand under the hazards. The proofs of `LiveIsWatched` and `RulesAreOfActiveVersion`
are about `QuietSpec`, all others about `Spec`, which has such saves.

### WorkerCycle

State of the venue: `position`, `sell`, `breach` (an exit condition holds), and
for each buy order `venue`. State of the ledger: `row`, `sym`, `newer` (how many
rows were saved later, because `get_recent_orders` returns a window of 100),
`pinned`, `sellPin`. The rest is the cycle's own: `at`, `isHalted`, `held` (the
snapshot), `todo`, `cur`.

| Steps | Code |
|---|---|
| `Sync`, `NoAccount`, `Begin` | `_sync_orders`, `_safe_get_account`, the reading of the kill switch |
| `Exit`, `ExitUnknown`, `ExitRepeats`, `ExitRefused` | the exits and `_submit_sell`: accepted, answer lost, a pinned key repeated, refused |
| `Pending`, `Check`, `RefuseEntry`, `Buy`, `BuyUnjournaled` | `_pending_buy_symbols` and the entries, each with its own reading of the kill switch |
| `ToIntents`, `IntentBuy`, `IntentUnpins`, `EndCycle` | `_consume_intents`, with the kill switch as the cycle read it |
| `Desk…`, `Kill`, `Unkill`, `Fill`, `Lapse`, `Close`, `SellLapse`, `Breach`, `RestartWorker` | everybody else |

Buys are one by one, a sell is the state of its symbol. Left out: prices,
signals, sizing and stops; they decide *which* symbol is entered or sold, and
here any may be. `ExitRefused` is not bounded: too few prices (`worker.py:367`), a
missing mandate or an order above `max_order_notional` (`gates.py:114`) refuse the same
exit in every cycle; `refused` has the symbols that the pass attempted in vain.
`PlacedUnknown` is an answer that is lost, or an exception that is taken for a refusal of
an order that landed. `DeskBuy` is the Desk's kill check and its submission in one step; the
kill properties speak of the worker's orders only.

### RiskGates

A handler is a Desk request or the worker. `DeskAccount`/`WorkerAccount`,
`ReadDate`, `Persist`, `Remember`, `ReadBook` are `get_account_summary`,
`record_day_start` in its three steps (the date, the flock, the memory of the
engine) and `active_cooldown_tickers`; `Approve` and `Refuse` are
`evaluate_order`; `BuyLands`, `SellLands` the venue; `Stamp`, `Mark`,
`MarkAgain` are `mark_cooldown`, which the worker calls twice for an exit. The
worker goes through `Exit`, `Scan`, `Entry`, `Intents`, `Intent`, `EndCycle`; an
entry is evaluated on a fresh account, an intent on that of the cycle. `dayStart`
and `book` are the two files, `memory` what each process' risk engine remembers:
all Desk requests share one (`_default_risk_engine`). The worker's engine has a limit of
open positions of its own, read from `ai_mode.json` in every cycle; `WorkerLimit` is the
largest it is given, and `LimitOf` says whose limit an evaluation uses. `GiveUp` is an exception,
`Restart` the death of a process. `stray`, `marked`, `backdated`, `blind`
and `first` are history. Gates that compare amounts may refuse any buy
(`Refuse`). The single cycle (`--once`) is left out.

### WorkerControl

`proc` is the state of every operating-system process (launched, building, up,
exiting, zombie, gone), `mine` the children of the running API process, `beat`
and `pidFile` the two files, `call` the place of each call. `Kill`, `Recheck`,
`Unlink`, `Mark` are the rounds of `stop`; `LookUp`, `Scan`, `Launch` (`Popen`),
`WritePid` or `WriteRaises`, `Poll`, `Abandon` are `start`. A write of the pid file that
raises leaves the worker running under the old file or an empty one, and so does the
end of the API process at that point. `unnamed` and `blind` are history: the
workers whose start was cut off there, and whether a listing failed while one of them
lived. A listing of processes may fail (`listed`). `FirstBeat`,
`Built`, `Beat`, `Exit`, `Crash` are the worker, `RestartApi` the death of the API
process, which the workers survive. POSIX; pids are not reused. An unlink or a
heartbeat write that fails in `stop` is swallowed there and left out.

### ChatInbox

`Fetch` asks from the stored `offset` on, the handling carries out one update
after another, `Ack` stores the offset after the last. `Raise` and `Restart` break a
batch off, so that it is delivered again.

| Steps | Code |
|---|---|
| `Ask`, `Halt`, `Resume` and `Unlink` | a command that only reads, `engage`, `disengage` in its two steps |
| `CallWorker`, `KeepsStopping`, `StopEnds`, `StartEnds`, `Save` | "start" (a restart) and "stop": the signal, its rounds, the end of the worker, the new one, the settings |
| `FollowSaves`, `FollowApplies` | "follow", which saves first and then restarts or starts |
| `CallFails` | `stop` or `start` raises: the settings stay, and a signalled worker ends all the same |
| `DeskSets`, `DeskPuts` | the Desk's use of the kill switch and its settings page |
| `DeskCalls` … `DeskSaves`, `DeskFails` | the Desk's start, restart and stop, on threads of their own |
| `Ends`, `Crash` | the worker process |

The worker is `on`, `off` or `ending`. `word`, `handled`, `crossed`, `astray` and
`breaks` are history; `astray` says that since the last call on the worker began, a
call raised, met another one or was cut off by a restart, the worker crashed, or settings
were put by hand. The rounds of a call are the matter of `WorkerControl`.

### Scans

`Enqueue` registers a job under the lock, `ThreadStarts`/`ThreadRaises` start its
thread, `RunStarts`, `ScanAnalysed` or `DeepAnalysed`, `Write`, `Finish`, `RunRaises`
are the thread. `scanBook` and `deepBook` are the files; `deepBook` has a report of each
ticker, which may be an error report. `DeepAnalysed` ends with the read of that book
(`_read_json`), and a read that fails is an empty book (`blind` has those jobs). Jobs live in memory only and `Resolve`
is what a page is told of one after a restart. The scheduler is `Poll`,
`FindsScan`, `FindsNone`, `LoopStarts`, `LoopJoins`, `Notes`, `LoopReturns`. A
tick is half a minute. `in_scan_window` ends at `Close` (16:10:00), itself a slot:
of the tick that begins there a poll meets the window only at its first instant
(`InSession`). `fires` and `hindered` are history.

### AlertDelivery

`List`, `ReadQuote`, `SkipStale`, `Record` are `check_alerts` for a stock rule,
whose recording does not look at the row; `Claim`, `Take`, `SendOk`, `SendFails`,
`SendAnswerLost`, `Report`, `ReportRaises`, `Leave` the delivery. Left out: events that are
deleted with their rule, and a rule that makes every check raise. `due[t]` says
that the claim of an event is older than its lease or its back-off: `Elapse` is
the time passing. `excused`, `overlap`, `cleared` and `alerted` are history.

## 3. What is checked

Every run is `tlc -config <cfg> MC<module>`. All runs end without an error.

| Run | Instance | Shows |
|---|---|---|
| `DailyOrders` | 2 Desk buys, 1 worker buy, 2 retries, limit 2, 2 days | `CapUnlessStray`: the limit of a date is exceeded only by places that were given back without being held, until an old date is written over a new one |
| `SubmitSerial` | buys; 2 keys, a Desk thread and the worker, requests one after another | `PlacesOnce`: the order path implements `PlaceOnce`, so no fresh key is submitted while an order is known to be in doubt; `UnknownEndsAtVenue`: an unknown acceptance ends only in an accept of its key |
| `SubmitOverlap` | sells; Desk and worker overlapping, crashes, raising stores | `LandedIsRecorded`, `NoInventedOutcome`, `UnknownIsPinned` |
| `Intents` | 2 ids, a buy and a sell book, 2 consumers that may die, limit 2 | `HandedOnce`, `OneActivePerBook`, `OrdersAreConsumed`, `OrdersHoldSlots`, `KeepsIntentLife`: the ledger implements `IntentLife` |
| `IntentsRunning` | 1 consumer, under fairness, no deaths | `ConsumedWasHandedOn`: what was consumed is handed on or in a consumer's hands; `ExpiredEnds`: no intent stays active for ever |
| `WorkerCycle` | 2 symbols, 2 buys, a ledger window of 2 rows, 1 fault | `EntersOnce`, `KillStopsEntries`, `KillStopsBuying`; `ExitsAreMade`: what has to be sold is sold or refused by a gate when it is tried, also while the kill switch is on |
| `RiskGates` | 2 Desk requests, the worker, 2 symbols, limits of 1 open position, a midnight | `HaltUnlessMixed`: nobody buys on a day that lost the limit; `MarksLast`: no mark of a sale is lost before its time; `OpenLimitUnlessBlind` |
| `WorkerControl` | 2 callers, 2 strategies, 2 pids, 1 fault | `OneWorkerUnlessTangled`, `StoppedIsStopped`, `CallsEnd` |
| `ChatInbox` | 2 updates, 2 Desk calls, 2 faults | `PassedIsHandled`, `LastWordHolds`, `SettingsMatchWorker`; `CommandsSettle`: every command is carried out in the end |
| `Scans` | 2 slots and the one at the close, 2 jobs, 2 tickers, a clock of 7 half minutes, 1 fault | `DoneWasSaved`, `SlotNotRepeated`, `SlotIsFired`, `BooksMoveForward`, `ReportsAreKept`; `JobsEnd` |
| `OptionAlerts` | 2 workers, 2 tabs, an entry and 3 exit rules, 2 versions, 2 replacements, 2 quote times | `AlertsOnce`; `LiveIsWatched`: an open position keeps each exit rule until it alerted; `RulesAreOfActiveVersion` |
| `AlertDelivery` | 2 workers, 2 quote times, 2 attempts, 1 fault | `SentWasDelivered`, `ToldOnceUnlessExcused`, `AlertsAgainAfterRearm`; `EventsSettle`: an event is sent, or given up after its attempts |

The type invariant of every module is a theorem (`TypeOK`; `CycleTypeOK` and
`RiskTypeOK` in the modules that share a proof module with another), and so are
`CapUntilMidnight`, `CountCoversSlots` (`DailyOrders`), `ExitsFollowEntry`,
`LiveMovesForward` (`OptionAlerts`), `AgainOnlyAfterBreak` (`ChatInbox`) and
`SentIsFinal` (`AlertDelivery`), which no run repeats.

### Exceptions a property names

Many properties hold up to an exception, and the exception is what the code does.
The properties say exactly when; a reader who changes the code should know them.

* *Order limit.* A rejected retry of an unknown order releases a slot whatever it
  reserved (`desk_orders.py:990`): two retries, or that of a sell, give back the slots of
  other orders. So does a release across midnight, and one for an order that landed
  while its exception was taken for a refusal. The property allows one order for each
  (`loose`). A UTC date read before midnight and written after it
  (`mandate.py:351`) lets one order too many through. A worker buy that the
  broker rejects keeps its slot (`worker.py:799`), although `mandate.py:457` has a
  call to "return a slot if we reserved then did not accept the order".
* *Pins.* Requests that overlap both look for a pinned order before either is
  answered, and both submit a key of their own: `PlacesOnce` is therefore about requests
  one after another. An exception that is on no list of lost answers, "Connection aborted"
  say, is taken for a refusal (`order_manager.py:175`): the order may be live while its row
  is rejected and without a pin, and a fresh key follows. `PlacesOnce` is therefore about the
  orders that are not `disowned` in this way. A venue status that the adapter does not know becomes a
  draft, which no look-up counts (`alpaca_broker.py:190`). A repeated key
  refused by a gate overwrites the row of its live order (`desk_orders.py:408`).
  The row saved before the broker call has no pin if the worker dies there.
* *Intents.* The tick reads the time once, so an intent that expires while it
  runs is still consumed, where `docs/MODULAR_ARCHITECTURE.md:616` says
  otherwise. The order is built from the listed copy and the claim only tests
  that the row was active (`harness_realtime.py:450`): a row that the Desk
  rewrites under its id in between is consumed and the *replaced* intent is
  ordered, although `writer.py:39` says that the write replaces the prior one. An
  intent is lost when the worker dies between claim and hand-over.
* *Worker cycle.* Working buys are looked for among the 100 rows saved last
  (`worker.py:853`); a buy beyond them is forgotten and may be made again. Intents are
  consumed under the kill switch as the cycle read it. A pinned sell blocks the
  later sells of its symbol; a sell above `max_order_notional` (`gates.py:114`), of a symbol
  with fewer than thirty prices or without a mandate is refused in every cycle, so
  `ExitsAreMade` ends with an exit that is made or refused. A buy whose exception was taken
  for a refusal is made again. An exit is submitted although
  a bracket leg has closed the position since the snapshot (`worker.py:366`).
* *Risk state.* Of the day's start `shared_state.py:88` says "First portfolio
  value of date.today() wins"; a request that read the date before midnight
  writes yesterday over it, and the next one records the value of then
  (`shared_state.py:113`). All Desk requests share what one risk engine remembers
  (`gates.py:201`), so another may replace it before the evaluation, also by a
  zero when the account could not be read. Open positions are counted without
  working orders (`gates.py:154`). `shared_state.py:7` says that a cool-down
  follows a venue sell, but a sell of an intent (`signal_processor.py:168`) and a
  leg of a bracket mark nothing, and the worker's second mark takes the first
  back to the beginning of its cycle (`worker.py:410`). The single cycle
  (`worker.py:1752`) records no day start and cannot halt.
* *Worker control.* Two overlapping calls can leave two workers, or a failed start
  the other's worker killed. A start cut off between `Popen` and the pid file
  (`worker_ctl.py:446`) leaves a worker that only a listing of processes finds before its first
  heartbeat; a listing that fails then hides it, and a second worker may follow. A worker started by the Streamlit dashboard
  (`trading/ui/dashboard.py:216`) is one that `worker_ctl` does not see, and no call of it.
* *Scans.* A scan without a ranking is written over a good book
  (`research_jobs.py:678`). A failed read of `last_deep.json` is an empty book, and the merge
  drops every report of other tickers (`research_jobs.py:874`); an error report replaces a
  good one of its ticker. A job whose thread could not be started stays queued, and each later
  scan returns it (`research_jobs.py:754`). A slot that meets a running scan is
  not recorded and may be started late or missed. "~16:10 post-close" (`scan_scheduler.py:6`)
  hardly ever happens: `in_scan_window` compares the time, seconds and all, with
  16:10:00 (`scan_scheduler.py:103`), so a poll in the ninety seconds of that slot is
  outside of the window unless it falls on the instant itself. The scan and the digest of
  the close are then not started, and `SlotIsFired` is about the slots before it.
* *Chat.* A batch broken off is carried out again from its first update; a Desk
  call in between can be undone. A stop that raises has sent its signal, so the worker ends while
  `worker_enabled` stays (`worker_ctl.py:509`); a call of the Desk that a restart cuts off is not
  repeated; the settings page writes `worker_enabled` as it shows it. `SettingsMatchWorker`
  names these until the next call on the worker. The settings are read, changed and
  written without a lock (`api/app.py:417`).
* *Alerts.* A version saved while a replacement is between its check and its locks
  leaves rules of an old version, and rules inserted between the locks of a save and its
  delete are deleted unlocked, an alerted entry with them; `QuietSpec` excludes both. A stock rule is recorded
  from a copy, so two overlapping checks alert twice.

### Bounds

* `DailyOrders`: with a limit of 2, three buys overfill it by one; two retries release
  twice. Two days hold one
  midnight; a call spans at most the days between its clock and its write, and
  the property speaks of one date at a time.
* `OrderSubmission`: two keys are the least with a fresh one beside a pinned
  one. The overlap is run for sells, the side with the extra exception path
  (`SellFails`); the proofs hold for both sides. The instances are exhaustive within
  these sets: a key may be used any number of times, and nothing counts.
* `Intents`: two ids can compete for one book or hold two. In the safety run the
  clock has a time before and at an expiry, and two consumers have their ticks at
  either; the running one has a time after it too. A limit of two is reached by
  one order and a slot that was not given back.
* `WorkerCycle`: two symbols, since a full window, a pinned sell and a Desk buy
  concern one of them while the other goes on; two buys can be of one symbol; a
  window of two rows is overrun by two later ones; one fault may hit any step.
  The symbols are interchangeable, so the first buy is of a certain one (`FirstBuy`),
  which halves the states and, unlike a symmetry set, leaves liveness alone.
* `RiskGates`: both limits are 1, the least that admits a buy (the theorem has any two);
  two days, with a midnight between any two steps; values 0 (the
  account could not be read), 97 (the limit of 3 % is lost) and 100. The
  run explores two parts (`Scenario`). In one the value moves and two Desk
  requests buy, without reaching the venue; in the other one Desk request and
  the worker reach it with two orders, the value stays, and after the tick only
  what is under way is finished. All handlers at once with a
  moving value are more than five million states.
* `WorkerControl`: two pids are the least for two workers; a stop or a
  start polls twice before its deadline (`MaxTries`); the fault is a crash of the worker, a listing that fails or a
  restart of the API process; a pid file that cannot be written is not bounded.
* `ChatInbox`: two updates are a batch with a first and a last one, or two batches; two
  faults break it off twice; two calls of the Desk can both fall into one command.
* `Scans`: three slots whose windows of three ticks follow each other, so that a scan may
  last from one into the next; the last is the one at the close. Two tickers: a job may be
  asked for one of them, the other or both, and each report may be an error.
* `OptionAlerts`: two workers with a copy of the same rule, or of the rules before
  and after a replacement; two versions and two replacements are the least with
  rules, copies and a position of an older version. Two times make two
  idempotency keys of one rule.
* `AlertDelivery`: an event for each of two quotes; two attempts are the least
  with a retry. Time only runs out leases and back-offs.
* `CHECK_DEADLOCK FALSE` stands where the program really stops within the bounds:
  requests and dates end (`DailyOrders`), fresh keys are used up and a pinned
  symbol waits (`OrderSubmission`), every intent id has ended (`Intents`), the
  clock ends (`Scans`), all updates are sent and carried out (`ChatInbox`), the
  rules of a plan have alerted (`OptionAlerts`).

Symmetry is used over requests (`DailyOrders`), keys and Desk threads
(`SubmitOverlap`), workers and tabs (`OptionAlerts`) and symbols (`RiskGates`),
never with a liveness property. The views leave out what no later step and no
checked property reads: the journal and an idle handler's key (`OverlapView`),
the tick time of an idle consumer (`IntentsView`), dead locals and, while the
value of the account stays, the start of the day (`RiskView`).

### Fairness

* `Intents` (`RunningSpec`): the clock goes on and a consumer that can take a step
  takes one. The worker calls the consumer in every cycle that finds an active
  row, its expiry part runs before the kill check of the batch, and no step waits
  for another process except for a flock held for one file write. Deaths are
  left out: a worker that dies in every tick expires nothing.
* `WorkerCycle`: `Loop`, the worker's own steps. Its loop goes on as long as the
  process runs and catches the errors of a cycle (`worker.py:240`); nothing is assumed of
  the venue, the Desk or the restarts, which are bounded.
* `WorkerControl`: `Step(c)` of each call, which is a running thread; it polls with
  time-outs. Nothing is assumed of the worker: `CallsEnd` holds also when it hangs.
* `ChatInbox`: the thread fetches, handles, stores and tries again; `Raise` and
  `Restart` are bounded faults.
* `Scans`: each thread runs on (`Run(j)`). Nothing is assumed of the scheduler.
* `AlertDelivery`: each worker works on (`Work(w)`), and leases and back-offs run
  out (`Elapse(t)`). Faults are bounded, and the market owes nothing.

The other specifications are about safety and assume no fairness.

## 4. What is proved

Every safety property of the runs, invariant or action property, is a theorem, and so
are the two refinements. TLAPS checks them for all sets of requests, keys, threads,
workers, callers, strategies, symbols, ids, books, consumers and tabs, and all limits
and bounds, from the named assumptions of the modules alone. These say that kinds of request
are disjoint; `Side` is a side and `Answers` are answers; there is an id; `"none"`
is no book and `Nothing` no symbol; exit rules are of the three exit types; bounds
are numbers; and:

* requests, consumers and symbols are finite sets (`RequestAssumption`,
  `ConsumerAssumption`, `SymbolsAssumption`), because the limits count them;
* two slots of the scheduler are at least a window of ninety seconds apart
  (`SlotsAssumption`): `_slot_times` sets them at 9:20, from 9:30 on every
  thirty minutes or more until 16:00, and at 16:10.

Some theorems are about a part of the behaviours, and name it:

* `OrdersPlacedOnce` and `UnknownEndsInAccept` are about `SerialSpec`, one
  request after another, and have the hypothesis `"unmapped" \notin Answers`. An order
  whose venue status the adapter does not know is a draft in the ledger, which no look-up
  counts (section 3, *Pins*), so without it they are false. `SubmitSerial` has the
  same answers. They promise nothing of orders that landed while their exception was taken
  for a refusal (`disowned`).
* `ConsumedIsHandedOn` is about `SteadySpec`, where no consumer dies.
* `LiveStaysWatched` and `RulesFollowVersion` are about `QuietSpec`, where no
  replacement overlaps a save.

An invariant is seldom inductive as it stands. What each one needed says why the
code keeps it; each inductive invariant was model-checked on the instance of its run
before it was proved.

**Buying_proofs, the worker's cycle.** `CycleTypeCorrect`, `AtMostOneEntryAfterKill`,
`NothingNewWhileKilled`, `EntriesAreOfFreeSymbols`. That a kill lets through one
entry needs that none was made since the kill unless one is under way (`LastEntry`);
that nothing new follows, that a cycle which began after the kill has read it
(`Halted`). An entry is made for a free symbol because the two readings of the books
meet: a position that the snapshot does not hold was filled after the rows were
synced, so its row still shows the buy (`Explained`), and every symbol that the entry
pass has yet to look at has no working or filled buy that the ledger shows
(`Entering`, with `Free` and `Overlooked`). `RowsMatch` says what row and venue can
be of one order. Steps are proved by what they do to the books (`Added`, `Resent`).

**Buying_proofs, the daily limit.** `TypeCorrect`, `LimitUnlessStray`,
`LimitUntilMidnight`, `CountCovers`. The limit alone is not inductive: that a
reservation grants a slot only below the limit says something of the count in the
file, so the count must be known to cover the slots but for the places given back loosely
(`CountCoversSlots`), and this only while no write was stray. `Bookkeeping` ties a request's place to its slot and
bounds the file's date by the clock; `StrayNeedsMidnight` turns the result into the
one for the first day, where nothing is stray. The lemmas `TakeSlot` and `ReturnSlot` count
slots.

**Ordering_proofs, the risk gates.** `RiskTypeCorrect`, `OpenLimitHolds`,
`MarksAreKept`, `HaltHolds`. The limit of open positions holds because no account that
anybody evaluates against is over it (`Seen`), and because what is about to reach the
venue had room in its account (`Roomy`): either no order came between, or the buy is
blind. A mark is not lost because the book has the last mark of each symbol until
it has run out (`BookHasMark`). The halt compares with the first value of the day
because the file has it and no later date has one (`FileHasStart`), and a handler that
recorded the start was given it (`StartIsFirst`), until a write is stray.

**Ordering_proofs, order submission.** `TypeCorrect`, `AlwaysPinned`,
`AlwaysRecorded`, `NeverInvented`, with any number of overlapping requests, crashes and
exceptions. A row is often the saved copy of an older row, so the invariant must
speak of copies too: `Backed(row, k)` says what a row says of the broker (open:
it has the order; filled or closed: so it is there; unknown: pinned), and it is
required of each ledger row and of each copy in a handler's hands. It is stable
because a broker order never returns to an earlier state. `InHand` says that a
handler calls the broker only with a row on record and carries real rows to its
saves. One lemma stands for each kind of step (`MoveKeeps`, `HoldKeeps`,
`SaveKeeps`, `ReturnKeeps` …).

`OrdersPlacedOnce` is the refinement of `PlaceOnce`, and `UnknownEndsInAccept` what
becomes of an unknown acceptance. Both rest on `SerialIInv`: one handler at most is
busy (`OneBusy`), one key at most is pinned (`OnePin`), an order in doubt is pinned or a
handler still answers for it (`Covered`), rows and journal agree between two
requests (`RowsAtRest`), and what a handler knows at each place of its request
(`InStage`). The last is what the code checks on the way and uses several calls
later: that the key it holds is free, pinned, or its own. The broker call maps to
`Land` or `Doubt` of `PlaceOnce`, a step by which an order that the broker has leaves
doubt (it is journaled, or the venue is done with it) to `Settle`, every other step
to a stutter.

**Intents_proofs.** `TypeCorrect`, `AlwaysHandedOnce`, `AlwaysOneActive`,
`AlwaysFromConsumed`, `BuysHoldSlots`, `ConsumedIsHandedOn`, and
`ImplementsIntentLife`: every behaviour of ledger, Desk and consumers is one of
`IntentLife`. `HandedOnce` is not inductive: between claim and hand-over a consumer
must know that its intent is consumed, was not handed on, and that no other consumer
claimed the same (`Claimed`); that a claim finds such an intent follows from
`HandedAreConsumed`. The slots must cover the buys that were placed *and* the
consumers with a buy in their hands (`SlotsCount`), and the placed buy of an intent
is new because it was not handed on. The refinement maps a write to `Write` with the
cancelled rows of the book, a status change to `End`, the hand-over to `HandOn`, all
else to a stutter.

**OptionAlerts_proofs.** `TypeCorrect`, `AlwaysAlertsOnce`,
`AlwaysExitsFollowEntry`, `LiveAlwaysMovesForward`, with a version saved at any time;
`LiveStaysWatched` and `RulesFollowVersion`. That an event's rule is stored and
disabled (`EventsStored`) makes alerts single, since a trigger needs an enabled row.
Exits exclude each other because the position remembers them (`ExitsMoved`), and
follow an entry because a position leaves its watch only by the entry alert of the
stored rules (`EntryAlerted`); both need the rows to be of one replacement and one
version (`RowsTogether`). An exit rule keeps watching because one that is enabled and has
not alerted is armed (`EnabledArmed`): a stale copy may write its quote but cannot
disarm it. A replacement in flight was checked for the active version
(`AskedActive`), and what has no row has no version (`Blank`). A save that is under way
has locked every rule and found no live position (`SaveHolds`), and nobody changes that before
it ends: a worker waits for the locks, and a confirmation needs a live position.

**AlertDelivery_proofs.** `TypeCorrect`, `AlwaysDelivered`, `AlwaysToldOnce`,
`SentStaysSent`, `AlwaysRearmed`. An event is told once because, without an
excuse, one worker holds it, under a claim that still runs (`OneHolder`), and
what reached the chat is stored or about to be (`ReachedIsStored`).
That a rule alerts again only after it was re-armed needs the copy a
worker holds to be the row while no check overlaps (`CopyIsRow`), and the row of a
rule that alerted to be armed only after a re-arming quote (`ArmedAfterRearm`).

**ChatInbox_proofs.** `TypeCorrect`, `NothingLost`, `RepeatedOnlyAfterBreaks`,
`LastWordAlwaysHolds`, `SettingsAlwaysMatch`. `From` is the first update that the
current delivery has not carried out. What lies before it was carried out
(`BehindIsHandled`); the repetitions are counted by the breaks (`Counted`). The last word holds because a delivery that repeats a command on
the kill switch still has the last one ahead of it, or is past it and the switch
follows it (`LastRepeatIsWord`, `SwitchFollowsWord`); where worker and settings
differ without an excuse, a call on the worker is under way or the command that repairs
them lies ahead (`RepairIsAhead`).

**Scans_proofs.** `TypeCorrect`, `DoneIsSaved`, `BooksAlwaysForward`,
`ReportsAlwaysKept`. A job that is not over is the one the process calls active
(`LiveIsActive`), and nothing starts after it (`NoneAfterActive`); so a book in the
hands of a thread is the one on disk (`ReadIsOnDisk`) unless its read failed, and one that is to be
written is newer. `BooksAreSaved` and `HoldsSlot` tie a book to the job that wrote it.

`SlotsStartOnce` and `SlotsAreStarted` rest on `SlotInv`. The scheduler remembers one
time, of the last trigger, and `due_slot` compares it with the minute of a slot. That this
is enough needs both directions: what was started in the minute of a slot in its window
is what the last trigger says (`FireIsNoted`), and a trigger in that minute was of that slot
(`NoteIsFire`). Both fail between start and note, where the loop is held
(`FirstInMinute`, `JustStarted`), and for a loop that carries an older slot into the
window of the next, which is then hindered (`LateHinders`). A slot is started by the
first poll of its window (`PollStarts`); the slots being apart, no other is due then.

**WorkerControl_proofs.** `TypeCorrect`, `AlwaysOneWorker`, `StopAlwaysStops`. A
listing of processes may fail, so that no worker is missed needs another way to
it: while calls do not overlap (`Serial`) the pid file or the call that launched it leads to
every live worker but one whose start was cut off, which every listing has shown so
far (`Known`), between the round that found none and the launch there is none
(`Cleared`), a child that `start` polls is all there is (`Own`), and a finished
stop has emptied both files (`Marked`).

Only model-checked: liveness (`ExpiredEnds`, `ExitsAreMade`, `CallsEnd`,
`CommandsSettle`, `JobsEnd`, `EventsSettle`), which under fairness is beyond the
prover.

## 5. What is left to do

In this order:

1. Composition of `Intents` with `OrderSubmission`: the intent's key, the pins
   and the hand-over of a sell through `process_signal`; whose pin a handler may
   clear.
2. The limits of the mandate and the gates that compare amounts, and the sizer, as
   functions against reference definitions over small numbers.
3. The kill switch file under concurrent halt and resume, and the settings file,
   which is read, changed and written without a lock.
4. Proofs: the safety part of the liveness properties where one stands behind them
   (a killed or pinned sell as the only reason for a position that is not sold), and
   lemmas shared by the two modules that count slots.

## 6. Not modelled

* *Strategies, agents, backtesting, lab studies*: values computed from price
  frames in floating point, by one thread, without shared state. Their
  correctness is numeric; a model over small integers would not be theirs.
* *Data fetching*: calls to external services and caches of their answers.
* *Shadow trading*: fills computed from one bar. *Reconciliation*: compares
  positions and reports, and writes no order state.
* *Accounts and persistence*: SQL rows of users and saved plans; the transactions
  in which something can interleave are in the alert modules.
* *User interfaces, translations and seed data*: pages, texts and tables. They
  are most of the source lines, which is why the modelled share of all lines is small
  although nearly all of the code that orders, counts, claims and delivers is modelled.
* *HTTP routes*: those that do not use the kill switch or the worker read, or
  forward to a component above.

`PROJECT.json` gives the reason for each component, and for a partly modelled one
what is left out of it.
