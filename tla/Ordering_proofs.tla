-------------------------- MODULE Ordering_proofs --------------------------
(***************************************************************************)
(* The risk gates and order submission, for every set of symbols, actors,  *)
(* keys, Desk threads and workers.                                         *)
(*                                                                         *)
(* Of the gates: the types, the limit of open orders, the marks of the     *)
(* cool-down book and the halt of the daily loss.  Of submission, with     *)
(* crashes, exceptions and overlapping requests of one key: an unknown     *)
(* acceptance is always pinned, an order at the broker always has a row,   *)
(* and the ledger never invents an outcome.  Of one request after the      *)
(* other: it implements PlaceOnce.                                         *)
(***************************************************************************)
EXTENDS RiskGates, OrderSubmission, FiniteSetTheorems, TLAPS

\* Whoever holds an order holds it for a symbol; only the worker marks twice.
OrderNamed ==
    \A p \in Actors :
        /\ at[p] \in {"evaluate", "land", "stamp", "mark"} \/ (p \in Desks /\ at[p] # "idle")
              => sym[p] \in Symbols
        /\ at[p] \in {"again", "ready"} => p = Worker
        /\ at[p] = "again" => sym[p] \in Symbols

\* Before a blind buy, no account that anybody evaluates against is over the limit.
Seen ==
    ~blind => /\ Cardinality(cycle.held) <= MaxOpen
              /\ \A p \in Actors : Cardinality(snap[p].held) <= MaxOpen

\* What is about to reach the venue had room in its account.
Roomy == \A p \in Actors : at[p] = "land" /\ side[p] = "buy" => Room(p)

\* The book has the last mark of a symbol, until it has run out.
BookHasMark ==
    \A s \in Symbols \ backdated :
        marked[s] = Never \/ book[s] = marked[s] \/ now - marked[s] >= Window

\* The file has the first value of its date, and no later date has one.
FileHasStart ==
    ~stray => /\ \A d \in Days : d = dayStart.date => first[d] = dayStart.value
              /\ \A d \in Days : d > dayStart.date => first[d] = 0

\* A handler that recorded the start was given the first value of its date.
StartIsFirst ==
    ~stray => \A p \in Actors :
        at[p] \notin {"idle", "date", "persist"} /\ start[p] > 0 => first[day[p]] = start[p]

RiskIInv ==
    /\ RiskTypeOK
    /\ OrderNamed
    /\ OpenLimitUnlessBlind /\ Seen /\ Roomy
    /\ BookHasMark
    /\ FileHasStart /\ StartIsFirst

-----------------------------------------------------------------------------
(* The constants and the operators.                                         *)

\* Dates are numbers, and every tick has one.
LEMMA Dates == Days \subseteq Nat /\ 0 \in Days /\ \A t \in Times : Date(t) \in Days
<1>1. DayLength \in Nat \ {0} /\ MaxTime \in Nat
  BY NumbersAssumption
<1>2. \A t \in Times : Date(t) \in Days
  BY DEF Days
<1>3. \A t \in Times : Date(t) \in Nat
  BY <1>1 DEF Times, Date
<1>4. Days \subseteq Nat
  BY <1>3 DEF Days
<1>5. 0 \in Times /\ Date(0) = 0
  BY <1>1 DEF Times, Date
<1> QED
  BY <1>2, <1>4, <1>5

\* Sets of symbols can be counted, and a part is no more than the whole.
LEMMA SymbolSets ==
    /\ \A S \in SUBSET Symbols : IsFiniteSet(S) /\ Cardinality(S) \in Nat
    /\ \A S \in SUBSET Symbols : \A T \in SUBSET S : Cardinality(T) <= Cardinality(S)
<1>1. \A S \in SUBSET Symbols : IsFiniteSet(S) /\ Cardinality(S) \in Nat
  BY SymbolsAssumption, FS_Subset, FS_CardinalityType
<1>2. \A S \in SUBSET Symbols : \A T \in SUBSET S : Cardinality(T) <= Cardinality(S)
  BY <1>1, FS_Subset
<1> QED
  BY <1>1, <1>2

\* An order whose account has room leaves the limit kept.
LEMMA RoomMeansRoom ==
    ASSUME RiskTypeOK, NEW p \in Actors, sym[p] \in Symbols, Room(p),
           Cardinality(snap[p].held) <= MaxOpen
    PROVE  Cardinality(snap[p].held \cup {sym[p]}) <= MaxOpen
<1>1. snap[p].held \in SUBSET Symbols
  BY DEF RiskTypeOK, Account
<1>2. IsFiniteSet(snap[p].held) /\ Cardinality(snap[p].held) \in Nat
  BY <1>1, SymbolSets
<1>3. CASE sym[p] \in snap[p].held
  <2>1. snap[p].held \cup {sym[p]} = snap[p].held
    BY <1>3
  <2> QED
    BY <2>1
<1>4. CASE sym[p] \notin snap[p].held
  <2>1. Cardinality(snap[p].held) < LimitOf(p)
    BY <1>4 DEF Room
  <2>2. LimitOf(p) \in Nat /\ LimitOf(p) <= MaxOpen /\ MaxOpen \in Nat
    BY NumbersAssumption DEF LimitOf, MaxOpen
  <2>3. Cardinality(snap[p].held \cup {sym[p]}) = Cardinality(snap[p].held) + 1
    BY <1>2, <1>4, FS_AddElement
  <2> QED
    BY <1>2, <2>1, <2>2, <2>3
<1> QED
  BY <1>3, <1>4

-----------------------------------------------------------------------------
(* Types.                                                                   *)

\* Marks stay times.
LEMMA MarksTyped ==
    ASSUME RiskTypeOK, NEW s, NEW t \in Times
    PROVE  /\ Pruned(book, t) \in [Symbols -> Times \cup {Never}]
           /\ Pruned(own, t) \in [Symbols -> Times \cup {Never}]
           /\ WriteMark(s, t) /\ s \in Symbols =>
                /\ book' \in [Symbols -> Times \cup {Never}]
                /\ marked' \in [Symbols -> Times \cup {Never}]
                /\ backdated' \subseteq Symbols
<1>1. /\ Pruned(book, t) \in [Symbols -> Times \cup {Never}]
      /\ Pruned(own, t) \in [Symbols -> Times \cup {Never}]
  BY DEF Pruned, RiskTypeOK
<1>2. WriteMark(s, t) /\ s \in Symbols =>
                /\ book' \in [Symbols -> Times \cup {Never}]
                /\ marked' \in [Symbols -> Times \cup {Never}]
                /\ backdated' \subseteq Symbols
  BY DEF WriteMark, Stamped, RiskTypeOK
<1> QED
  BY <1>1, <1>2

\* The account as it is now.
LEMMA AccountTyped ==
    ASSUME RiskTypeOK
    PROVE  AccountNow \in Account /\ AccountNow.held = held
BY DEF AccountNow, Account, Amounts, RiskTypeOK

\* Every step keeps the types.
LEMMA RiskTypes == RiskTypeOK /\ OrderNamed /\ [RiskNext]_riskVars => RiskTypeOK'
<1> SUFFICES ASSUME RiskTypeOK, OrderNamed, [RiskNext]_riskVars PROVE RiskTypeOK'
  OBVIOUS
<1> USE DEF market, files, local, worker, history, Goto, Places
<1>1. CASE Tick
  BY <1>1, NumbersAssumption DEF Tick, Times, RiskTypeOK
<1>2. CASE Market
  BY <1>2 DEF Market, RiskTypeOK
<1>3. CASE WorkerAccount
  BY <1>3, AccountTyped DEF WorkerAccount, RiskTypeOK
<1>4. CASE Scan \/ Intents \/ EndCycle
  BY <1>4 DEF Scan, Intents, EndCycle, RiskTypeOK
<1>5. CASE MarkAgain
  <2>1. Worker \in Actors /\ sym[Worker] \in Symbols /\ began \in Times
    BY <1>5 DEF MarkAgain, OrderNamed, Actors, RiskTypeOK
  <2>2. /\ book' \in [Symbols -> Times \cup {Never}]
        /\ marked' \in [Symbols -> Times \cup {Never}]
        /\ backdated' \subseteq Symbols
    BY <1>5, <2>1, MarksTyped DEF MarkAgain
  <2> QED
    BY <1>5, <2>1, <2>2 DEF MarkAgain, RiskTypeOK
<1>6. ASSUME NEW s \in Symbols, NEW way \in {"buy", "sell"}, NEW account \in Account, Take(s, way, account)
      PROVE  todo' \subseteq Symbols => RiskTypeOK'
  BY <1>6 DEF Take, RiskTypeOK
<1>7. ASSUME NEW s \in Symbols, Exit(s) \/ Entry(s) PROVE RiskTypeOK'
  <2>1. todo' \subseteq Symbols
    BY <1>7 DEF Exit, Entry, RiskTypeOK
  <2> QED
    BY <1>6, <1>7, <2>1, AccountTyped DEF Exit, Entry
<1>8. ASSUME NEW s \in Symbols, NEW way \in {"buy", "sell"}, Intent(s, way) PROVE RiskTypeOK'
  <2>1. todo' \subseteq Symbols /\ cycle \in Account
    BY <1>8 DEF Intent, RiskTypeOK
  <2> QED
    BY <1>6, <1>8, <2>1 DEF Intent
<1>9. ASSUME NEW p \in Desks, NEW s \in Symbols, NEW way \in {"buy", "sell"}, DeskAccount(p, s, way)
      PROVE  RiskTypeOK'
  BY <1>9, AccountTyped DEF DeskAccount, Actors, RiskTypeOK
<1>10. ASSUME NEW p \in Actors, ReadDate(p) PROVE RiskTypeOK'
  BY <1>10, Dates DEF ReadDate, RiskTypeOK
<1>11. ASSUME NEW p \in Actors, Persist(p) PROVE RiskTypeOK'
  <2>1. snap[p].value \in Amounts /\ day[p] \in Days
    BY DEF Account, RiskTypeOK
  <2>2. dayStart' \in [date : Days \cup {Never}, value : Amounts] /\ dayStart'.value \in Amounts
    BY <1>11, <2>1 DEF Persist, RiskTypeOK
  <2>3. first' \in [Days -> Amounts] /\ start' \in [Actors -> Amounts]
    BY <1>11, <2>1, <2>2 DEF Persist, RiskTypeOK
  <2>4. stray' \in BOOLEAN
    BY <1>11, Zenon DEF Persist
  <2> QED
    BY <1>11, <2>2, <2>3, <2>4 DEF Persist, RiskTypeOK
<1>12. ASSUME NEW p \in Actors, Remember(p) PROVE RiskTypeOK'
  BY <1>12 DEF Remember, Engine, Engines, RiskTypeOK
<1>13. ASSUME NEW p \in Actors, ReadBook(p) PROVE RiskTypeOK'
  <2>1. now \in Times
    BY DEF RiskTypeOK
  <2>2. book' \in [Symbols -> Times \cup {Never}] /\ own' \in [Symbols -> Times \cup {Never}]
    <3>1. /\ Pruned(book, now) \in [Symbols -> Times \cup {Never}]
          /\ Pruned(own, now) \in [Symbols -> Times \cup {Never}]
      BY <2>1, MarksTyped
    <3> QED
      BY <1>13, <3>1 DEF ReadBook, RiskTypeOK
  <2>3. cool' \in [Actors -> SUBSET Symbols] /\ began' \in Times
    BY <1>13, <2>1 DEF ReadBook, Active, RiskTypeOK
  <2> QED
    BY <1>13, <2>2, <2>3 DEF ReadBook, RiskTypeOK
<1>14. ASSUME NEW p \in Actors, Approve(p) \/ Refuse(p) \/ Unmarked(p) \/ Stamp(p) \/ GiveUp(p)
       PROVE  RiskTypeOK'
  BY <1>14 DEF Approve, Refuse, Unmarked, Stamp, GiveUp, After, RiskTypeOK
<1>15. ASSUME NEW p \in Actors, BuyLands(p) \/ SellLands(p) PROVE RiskTypeOK'
  <2>1. sym[p] \in Symbols
    BY <1>15 DEF BuyLands, SellLands, OrderNamed
  <2>2. orders' \in 0..MaxOrders
    BY <1>15, NumbersAssumption DEF BuyLands, SellLands, RiskTypeOK
  <2>3. blind' \in BOOLEAN
    <3>1. CASE BuyLands(p)
      BY <3>1, Zenon DEF BuyLands
    <3>2. CASE SellLands(p)
      BY <3>2 DEF SellLands, RiskTypeOK
    <3> QED
      BY <1>15, <3>1, <3>2
  <2>4. working' \subseteq Symbols /\ selling' \subseteq Symbols
    BY <1>15, <2>1 DEF BuyLands, SellLands, RiskTypeOK
  <2>5. at' \in [Actors -> Places]
    BY <1>15 DEF BuyLands, SellLands, After, RiskTypeOK
  <2>6. UNCHANGED <<now, value, held, files, memory, local, worker, first, stray, marked, backdated>>
    BY <1>15 DEF BuyLands, SellLands
  <2> QED
    BY <2>2, <2>3, <2>4, <2>5, <2>6 DEF RiskTypeOK
<1>16. ASSUME NEW p \in Actors, Mark(p) PROVE RiskTypeOK'
  <2>1. sym[p] \in Symbols /\ stamp[p] \in Times
    BY <1>16 DEF Mark, OrderNamed, RiskTypeOK
  <2>2. /\ book' \in [Symbols -> Times \cup {Never}]
        /\ marked' \in [Symbols -> Times \cup {Never}]
        /\ backdated' \subseteq Symbols
    BY <1>16, <2>1, MarksTyped DEF Mark
  <2> QED
    BY <1>16, <2>2 DEF Mark, RiskTypeOK
<1>17. ASSUME NEW e \in Engines, Restart(e) PROVE RiskTypeOK'
  BY <1>17 DEF Restart, Amounts, RiskTypeOK
<1>18. CASE UNCHANGED riskVars
  BY <1>18 DEF riskVars, RiskTypeOK
<1> QED
  BY <1>1, <1>2, <1>3, <1>4, <1>5, <1>7, <1>8, <1>9, <1>10, <1>11, <1>12, <1>13, <1>14, <1>15, <1>16, <1>17,
     <1>18 DEF RiskNext

\* Every step keeps the orders named.
LEMMA NamesKept == RiskTypeOK /\ OrderNamed /\ [RiskNext]_riskVars => OrderNamed'
<1> SUFFICES ASSUME RiskTypeOK, OrderNamed, [RiskNext]_riskVars PROVE OrderNamed'
  OBVIOUS
<1> USE DEF OrderNamed, RiskTypeOK, local, Goto
<1>1. CASE UNCHANGED <<at, sym>>
  BY <1>1
<1>2. CASE Tick \/ Market \/ Scan \/ UNCHANGED riskVars
  BY <1>1, <1>2 DEF Tick, Market, Scan, riskVars
<1>3. CASE WorkerAccount \/ Intents \/ EndCycle \/ MarkAgain
  BY <1>3, ActorsAssumption DEF WorkerAccount, Intents, EndCycle, MarkAgain, Actors
<1>4. ASSUME NEW s \in Symbols, NEW way, NEW account, Take(s, way, account) PROVE OrderNamed'
  BY <1>4, ActorsAssumption DEF Take, Actors
<1>5. ASSUME NEW s \in Symbols, Exit(s) \/ Entry(s) PROVE OrderNamed'
  BY <1>4, <1>5 DEF Exit, Entry
<1>6. ASSUME NEW s \in Symbols, NEW way \in {"buy", "sell"}, Intent(s, way) PROVE OrderNamed'
  BY <1>4, <1>6 DEF Intent
<1>7. ASSUME NEW p \in Desks, NEW s \in Symbols, NEW way \in {"buy", "sell"}, DeskAccount(p, s, way)
      PROVE  OrderNamed'
  BY <1>7 DEF DeskAccount, Actors
<1>8. ASSUME NEW p \in Actors, ReadDate(p) \/ Persist(p) \/ Remember(p) PROVE OrderNamed'
  BY <1>8 DEF ReadDate, Persist, Remember
<1>9. ASSUME NEW p \in Actors, ReadBook(p) PROVE OrderNamed'
  BY <1>9 DEF ReadBook, Actors
<1>10. ASSUME NEW p \in Actors, Approve(p) \/ Refuse(p) \/ Unmarked(p) PROVE OrderNamed'
  BY <1>10, ActorsAssumption DEF Approve, Refuse, Unmarked, After
<1>11. ASSUME NEW p \in Actors, BuyLands(p) \/ SellLands(p) PROVE OrderNamed'
  BY <1>11, ActorsAssumption DEF BuyLands, SellLands, After
<1>12. ASSUME NEW p \in Actors, Stamp(p) \/ Mark(p) \/ GiveUp(p) PROVE OrderNamed'
  BY <1>12, ActorsAssumption DEF Stamp, Mark, GiveUp
<1>13. ASSUME NEW e \in Engines, Restart(e) PROVE OrderNamed'
  BY <1>13 DEF Restart
<1> QED
  BY <1>2, <1>3, <1>5, <1>6, <1>7, <1>8, <1>9, <1>10, <1>11, <1>12, <1>13 DEF RiskNext

-----------------------------------------------------------------------------
(* The limit of open positions.                                             *)

\* What is held or being bought never grows but by a buy that lands, and the accounts are
\* copies of what is held.
LEMMA AccountsStep ==
    ASSUME RiskIInv, [RiskNext]_riskVars
    PROVE  \/ \E p \in Actors : BuyLands(p)
           \/ /\ held' \cup working' \subseteq held \cup working
              /\ blind' = blind
              /\ cycle'.held \in {cycle.held, held}
              /\ \A p \in Actors : snap'[p].held \in {snap[p].held, cycle.held, held}
<1> USE DEF RiskIInv, RiskTypeOK, market, local, worker, history
<1> DEFINE Copies == /\ held' \cup working' \subseteq held \cup working
                     /\ blind' = blind
                     /\ cycle'.held \in {cycle.held, held}
                     /\ \A p \in Actors : snap'[p].held \in {snap[p].held, cycle.held, held}
<1>1. ASSUME UNCHANGED <<cycle, snap, blind>>, held' \cup working' \subseteq held \cup working
      PROVE  Copies
  BY <1>1
<1>2. CASE Market
  BY <1>1, <1>2 DEF Market
<1>3. CASE Tick \/ Scan \/ Intents \/ EndCycle \/ MarkAgain \/ UNCHANGED riskVars
  BY <1>1, <1>3 DEF Tick, Scan, Intents, EndCycle, MarkAgain, riskVars
<1>4. CASE WorkerAccount
  BY <1>4, AccountTyped DEF WorkerAccount
<1>5. ASSUME NEW s, NEW way, NEW account, Take(s, way, account), account.held \in {cycle.held, held}
      PROVE  Copies
  BY <1>5 DEF Take
<1>6. ASSUME NEW s \in Symbols, Exit(s) \/ Entry(s) PROVE Copies
  BY <1>5, <1>6, AccountTyped DEF Exit, Entry
<1>7. ASSUME NEW s \in Symbols, NEW way \in {"buy", "sell"}, Intent(s, way) PROVE Copies
  BY <1>5, <1>7 DEF Intent
<1>8. ASSUME NEW p \in Desks, NEW s \in Symbols, NEW way \in {"buy", "sell"}, DeskAccount(p, s, way)
      PROVE  Copies
  BY <1>8, AccountTyped DEF DeskAccount
<1>9. ASSUME NEW p \in Actors,
             ReadDate(p) \/ Persist(p) \/ Remember(p) \/ ReadBook(p) \/ Approve(p) \/ Refuse(p)
             \/ SellLands(p) \/ Unmarked(p) \/ Stamp(p) \/ Mark(p) \/ GiveUp(p)
      PROVE  Copies
  BY <1>1, <1>9 DEF ReadDate, Persist, Remember, ReadBook, Approve, Refuse, SellLands, Unmarked, Stamp,
                    Mark, GiveUp
<1>10. ASSUME NEW e \in Engines, Restart(e) PROVE Copies
  BY <1>1, <1>10 DEF Restart
<1> QED
  BY <1>2, <1>3, <1>4, <1>6, <1>7, <1>8, <1>9, <1>10 DEF RiskNext

\* Every step keeps what is held and being bought within the limit until a blind buy.
LEMMA LimitKept == RiskIInv /\ [RiskNext]_riskVars => OpenLimitUnlessBlind' /\ Seen'
<1> SUFFICES ASSUME RiskIInv, [RiskNext]_riskVars, ~blind'
             PROVE  /\ Cardinality(held' \cup working') <= MaxOpen
                    /\ Cardinality(cycle'.held) <= MaxOpen
                    /\ \A p \in Actors : Cardinality(snap'[p].held) <= MaxOpen
  BY DEF OpenLimitUnlessBlind, Seen
<1> USE DEF RiskIInv, RiskTypeOK
<1>1. ASSUME NEW p \in Actors, BuyLands(p)
      PROVE  /\ Cardinality(held' \cup working') <= MaxOpen
             /\ UNCHANGED <<cycle, snap>> /\ ~blind
  <2>1. UNCHANGED <<cycle, snap, held>> /\ ~blind /\ working' = working \cup {sym[p]}
    BY <1>1 DEF BuyLands, local, worker
  <2>2. held \cup working \subseteq snap[p].held \cup {sym[p]}
    BY <1>1 DEF BuyLands
  <2>3. Room(p) /\ sym[p] \in Symbols
    BY <1>1 DEF BuyLands, Roomy, OrderNamed
  <2>4. Cardinality(snap[p].held \cup {sym[p]}) <= MaxOpen
    BY <2>1, <2>3, RoomMeansRoom DEF Seen
  <2>5. snap[p].held \cup {sym[p]} \in SUBSET Symbols
    BY <2>3 DEF Account
  <2>6. Cardinality(held' \cup working') <= Cardinality(snap[p].held \cup {sym[p]})
    BY <2>1, <2>2, <2>5, SymbolSets
  <2>7. held' \cup working' \in SUBSET Symbols
    BY <2>1, <2>3
  <2> QED
    BY <2>1, <2>4, <2>5, <2>6, <2>7, SymbolSets, NumbersAssumption DEF MaxOpen
<1>2. CASE \E p \in Actors : BuyLands(p)
  BY <1>1, <1>2 DEF Seen
<1>3. CASE ~\E p \in Actors : BuyLands(p)
  <2>1. /\ held' \cup working' \subseteq held \cup working
        /\ ~blind
        /\ cycle'.held \in {cycle.held, held}
        /\ \A p \in Actors : snap'[p].held \in {snap[p].held, cycle.held, held}
    BY <1>3, AccountsStep
  <2>2. held \cup working \in SUBSET Symbols /\ held \in SUBSET Symbols
    OBVIOUS
  <2>3. /\ Cardinality(held' \cup working') <= Cardinality(held \cup working)
        /\ Cardinality(held) <= Cardinality(held \cup working)
    BY <2>1, <2>2, SymbolSets
  <2>4. /\ Cardinality(held' \cup working') \in Nat
        /\ Cardinality(held) \in Nat /\ Cardinality(held \cup working) \in Nat
    BY <2>1, <2>2, SymbolSets
  <2>5. Cardinality(held \cup working) <= MaxOpen /\ MaxOpen \in Nat
    BY <2>1, NumbersAssumption DEF OpenLimitUnlessBlind, MaxOpen
  <2>6. Cardinality(held' \cup working') <= MaxOpen /\ Cardinality(held) <= MaxOpen
    BY <2>3, <2>4, <2>5
  <2> QED
    BY <2>1, <2>6 DEF Seen
<1> QED
  BY <1>2, <1>3

\* Only what the gates approve goes on to the venue.
LEMMA ApprovedBeforeLanding ==
    ASSUME RiskIInv, [RiskNext]_riskVars, NEW p \in Actors, at[p] # "land", at'[p] = "land"
    PROVE  Approved(p) /\ UNCHANGED <<sym, snap, side>>
<1> USE DEF RiskIInv, RiskTypeOK, Goto, local, Actors
<1>1. ~(Tick \/ Market \/ Scan \/ UNCHANGED riskVars)
  BY DEF Tick, Market, Scan, riskVars
<1>2. ~(WorkerAccount \/ Intents \/ EndCycle \/ MarkAgain)
  BY DEF WorkerAccount, Intents, EndCycle, MarkAgain
<1>3. \A s, way, account : ~Take(s, way, account)
  BY DEF Take
<1>4. \A s \in Symbols, way \in {"buy", "sell"} : ~Exit(s) /\ ~Entry(s) /\ ~Intent(s, way)
  BY <1>3 DEF Exit, Entry, Intent
<1>5. ASSUME NEW q \in Desks, NEW s \in Symbols, NEW way \in {"buy", "sell"}, DeskAccount(q, s, way)
      PROVE  FALSE
  BY <1>5 DEF DeskAccount
<1>6. ASSUME NEW q \in Actors,
             ReadDate(q) \/ Persist(q) \/ Remember(q) \/ ReadBook(q) \/ Refuse(q) \/ BuyLands(q)
             \/ SellLands(q) \/ Unmarked(q) \/ Stamp(q) \/ Mark(q) \/ GiveUp(q)
      PROVE  FALSE
  BY <1>6 DEF ReadDate, Persist, Remember, ReadBook, Refuse, BuyLands, SellLands, Unmarked, Stamp,
              Mark, GiveUp, After
<1>7. ASSUME NEW q \in Actors, Approve(q) PROVE q = p /\ Approved(q) /\ UNCHANGED <<sym, snap, side>>
  BY <1>7 DEF Approve
<1>8. ASSUME NEW e \in Engines, Restart(e) PROVE FALSE
  BY <1>8 DEF Restart
<1> QED
  BY <1>1, <1>2, <1>4, <1>5, <1>6, <1>7, <1>8 DEF RiskNext

\* What is approved had room, and its account is not replaced before it lands.
LEMMA RoomyKept == RiskIInv /\ [RiskNext]_riskVars => Roomy'
<1> SUFFICES ASSUME RiskIInv, [RiskNext]_riskVars, NEW p \in Actors, at'[p] = "land", side'[p] = "buy"
             PROVE  Room(p)'
  BY DEF Roomy, Room
<1> USE DEF RiskIInv, RiskTypeOK, Goto, local
<1>1. ASSUME UNCHANGED <<sym, snap, side>>, at[p] = "land"
      PROVE  Room(p)'
  BY <1>1 DEF Roomy, Room
<1>2. CASE Tick \/ Market \/ Scan \/ UNCHANGED riskVars
  BY <1>1, <1>2 DEF Tick, Market, Scan, riskVars
<1>3. CASE Intents \/ EndCycle \/ MarkAgain
  BY <1>1, <1>3 DEF Intents, EndCycle, MarkAgain
<1>4. ASSUME NEW q \in Actors, at'[q] # "land", at' = [at EXCEPT ![q] = at'[q]],
             \A r \in Actors \ {q} : sym'[r] = sym[r] /\ snap'[r] = snap[r] /\ side'[r] = side[r]
      PROVE  Room(p)'
  BY <1>4 DEF Roomy, Room
<1>5. CASE WorkerAccount
  <2>1. Worker \in Actors
    BY DEF Actors
  <2>2. at'[Worker] = "date" /\ at' = [at EXCEPT ![Worker] = at'[Worker]]
    BY <1>5, <2>1 DEF WorkerAccount
  <2>3. \A r \in Actors \ {Worker} : sym'[r] = sym[r] /\ snap'[r] = snap[r] /\ side'[r] = side[r]
    BY <1>5, <2>1 DEF WorkerAccount
  <2> QED
    BY <1>4, <2>1, <2>2, <2>3
<1>6. ASSUME NEW s, NEW way, NEW account, Take(s, way, account) PROVE Room(p)'
  <2>1. Worker \in Actors
    BY DEF Actors
  <2>2. at'[Worker] = "evaluate" /\ at' = [at EXCEPT ![Worker] = at'[Worker]]
    BY <1>6, <2>1 DEF Take
  <2>3. \A r \in Actors \ {Worker} : sym'[r] = sym[r] /\ snap'[r] = snap[r] /\ side'[r] = side[r]
    BY <1>6, <2>1 DEF Take
  <2> QED
    BY <1>4, <2>1, <2>2, <2>3
<1>7. ASSUME NEW s \in Symbols, Exit(s) \/ Entry(s) PROVE Room(p)'
  BY <1>6, <1>7 DEF Exit, Entry
<1>8. ASSUME NEW s \in Symbols, NEW way \in {"buy", "sell"}, Intent(s, way) PROVE Room(p)'
  BY <1>6, <1>8 DEF Intent
<1>9. ASSUME NEW q \in Desks, NEW s \in Symbols, NEW way \in {"buy", "sell"}, DeskAccount(q, s, way)
      PROVE  Room(p)'
  <2>1. q \in Actors
    BY DEF Actors
  <2>2. at'[q] = "date" /\ at' = [at EXCEPT ![q] = at'[q]]
    BY <1>9, <2>1 DEF DeskAccount
  <2>3. \A r \in Actors \ {q} : sym'[r] = sym[r] /\ snap'[r] = snap[r] /\ side'[r] = side[r]
    BY <1>9, <2>1 DEF DeskAccount
  <2> QED
    BY <1>4, <2>1, <2>2, <2>3
<1>10. ASSUME NEW q \in Actors,
              ReadDate(q) \/ Persist(q) \/ Remember(q) \/ ReadBook(q) \/ Refuse(q) \/ BuyLands(q)
              \/ SellLands(q) \/ Unmarked(q) \/ Stamp(q) \/ Mark(q) \/ GiveUp(q)
       PROVE  Room(p)'
  BY <1>1, <1>10 DEF ReadDate, Persist, Remember, ReadBook, Refuse, BuyLands, SellLands, Unmarked, Stamp,
                     Mark, GiveUp, After
<1>11. ASSUME NEW q \in Actors, Approve(q) PROVE Room(p)'
  <2>1. UNCHANGED <<sym, snap, side>>
    BY <1>11 DEF Approve
  <2>2. CASE q = p
    <3>1. Room(p)
      BY <1>11, <2>1, <2>2 DEF Approve, Approved
    <3> QED
      BY <2>1, <3>1 DEF Room
  <2>3. CASE q # p
    BY <1>1, <1>11, <2>1, <2>3 DEF Approve
  <2> QED
    BY <2>2, <2>3
<1>12. ASSUME NEW e \in Engines, Restart(e) PROVE Room(p)'
  BY <1>1, <1>12 DEF Restart
<1> QED
  BY <1>2, <1>3, <1>5, <1>7, <1>8, <1>9, <1>10, <1>11, <1>12 DEF RiskNext

-----------------------------------------------------------------------------
(* The cool-downs.                                                          *)

\* A mark, whoever writes it and whatever time it carries.
LEMMA MarkWritten ==
    ASSUME RiskTypeOK, BookHasMark, NEW s \in Symbols, NEW t \in Times, WriteMark(s, t), now' = now
    PROVE  BookHasMark'
<1> SUFFICES ASSUME NEW u \in Symbols, u \notin backdated'
             PROVE  marked'[u] = Never \/ book'[u] = marked'[u] \/ now - marked'[u] >= Window
  BY DEF BookHasMark
<1>1. u \notin backdated
  BY DEF WriteMark
<1>2. marked[u] = Never \/ book[u] = marked[u] \/ now - marked[u] >= Window
  BY <1>1 DEF BookHasMark
<1>3. CASE u # s
  BY <1>2, <1>3 DEF WriteMark, Stamped, RiskTypeOK
<1>4. CASE u = s
  <2>1. book'[s] = t /\ marked'[s] = (IF t > marked[s] THEN t ELSE marked[s])
    BY DEF WriteMark, Stamped, RiskTypeOK
  <2>2. ~(book[s] > t)
    BY <1>4 DEF WriteMark
  <2>3. /\ t \in Int /\ book[s] \in Int /\ marked[s] \in Int /\ t >= 0
        /\ marked[s] = Never => t > marked[s]
    BY NumbersAssumption DEF Times, Never, RiskTypeOK
  <2>4. CASE t > marked[s]
    BY <1>4, <2>1, <2>4
  <2>5. CASE ~(t > marked[s])
    BY <1>2, <1>4, <2>1, <2>2, <2>3, <2>5
  <2> QED
    BY <2>4, <2>5
<1> QED
  BY <1>3, <1>4

\* Reading the book drops only what has run out.
LEMMA BookPruned ==
    ASSUME RiskTypeOK, BookHasMark, book' = Pruned(book, now), UNCHANGED <<now, marked, backdated>>
    PROVE  BookHasMark'
<1> SUFFICES ASSUME NEW u \in Symbols \ backdated
             PROVE  marked[u] = Never \/ book'[u] = marked[u] \/ now - marked[u] >= Window
  BY DEF BookHasMark
<1>1. marked[u] = Never \/ book[u] = marked[u] \/ now - marked[u] >= Window
  BY DEF BookHasMark
<1>2. CASE book[u] = marked[u] /\ marked[u] # Never /\ now - marked[u] < Window
  BY <1>2 DEF Pruned, Active
<1>3. now - marked[u] < Window \/ now - marked[u] >= Window
  <2>1. now \in Int /\ marked[u] \in Int /\ Window \in Int
    BY NumbersAssumption DEF Times, Never, RiskTypeOK
  <2> QED
    BY <2>1
<1> QED
  BY <1>1, <1>2, <1>3

\* Every step keeps the last marks in the book.
LEMMA BookKept == RiskIInv /\ [RiskNext]_riskVars => BookHasMark'
<1> SUFFICES ASSUME RiskIInv, [RiskNext]_riskVars PROVE BookHasMark'
  OBVIOUS
<1> USE DEF RiskIInv, market, files, history
<1>1. ASSUME UNCHANGED <<now, book, marked, backdated>> PROVE BookHasMark'
  BY <1>1 DEF BookHasMark
<1>2. CASE Tick
  <2>1. now' = now + 1 /\ UNCHANGED <<book, marked, backdated>>
    BY <1>2 DEF Tick
  <2>2. now \in Int /\ Window \in Int /\ \A s \in Symbols : marked[s] \in Int
    BY NumbersAssumption DEF Times, Never, RiskTypeOK
  <2> QED
    BY <2>1, <2>2 DEF BookHasMark
<1>3. CASE Market \/ Scan \/ WorkerAccount \/ Intents \/ EndCycle \/ UNCHANGED riskVars
  BY <1>1, <1>3 DEF Market, Scan, WorkerAccount, Intents, EndCycle, riskVars
<1>4. CASE MarkAgain
  <2>1. Worker \in Actors
    BY DEF Actors
  <2>2. sym[Worker] \in Symbols /\ began \in Times /\ WriteMark(sym[Worker], began) /\ now' = now
    BY <1>4, <2>1 DEF MarkAgain, OrderNamed, RiskTypeOK
  <2> QED
    BY <2>2, MarkWritten
<1>5. ASSUME NEW p \in Actors, Mark(p) PROVE BookHasMark'
  <2>1. sym[p] \in Symbols /\ stamp[p] \in Times /\ WriteMark(sym[p], stamp[p]) /\ now' = now
    BY <1>5 DEF Mark, OrderNamed, RiskTypeOK
  <2> QED
    BY <2>1, MarkWritten
<1>6. ASSUME NEW p \in Actors, ReadBook(p) PROVE BookHasMark'
  BY <1>6, BookPruned DEF ReadBook
<1>7. ASSUME NEW p \in Actors,
             ReadDate(p) \/ Persist(p) \/ Remember(p) \/ Approve(p) \/ Refuse(p) \/ BuyLands(p)
             \/ SellLands(p) \/ Unmarked(p) \/ Stamp(p) \/ GiveUp(p)
      PROVE  BookHasMark'
  BY <1>1, <1>7 DEF ReadDate, Persist, Remember, Approve, Refuse, BuyLands, SellLands, Unmarked, Stamp, GiveUp
<1>8. ASSUME NEW s \in Symbols, Exit(s) \/ Entry(s) PROVE BookHasMark'
  BY <1>1, <1>8 DEF Exit, Entry, Take
<1>9. ASSUME NEW s \in Symbols, NEW way \in {"buy", "sell"}, Intent(s, way) PROVE BookHasMark'
  BY <1>1, <1>9 DEF Intent, Take
<1>10. ASSUME NEW p \in Desks, NEW s \in Symbols, NEW way \in {"buy", "sell"}, DeskAccount(p, s, way)
       PROVE  BookHasMark'
  BY <1>1, <1>10 DEF DeskAccount
<1>11. ASSUME NEW e \in Engines, Restart(e) PROVE BookHasMark'
  BY <1>1, <1>11 DEF Restart
<1> QED
  BY <1>2, <1>3, <1>4, <1>5, <1>6, <1>7, <1>8, <1>9, <1>10, <1>11 DEF RiskNext

-----------------------------------------------------------------------------
(* The start of the day.                                                    *)

\* Recording the start of a date gives the first value of that date, or nothing.
LEMMA PersistKeeps ==
    ASSUME RiskIInv, NEW p \in Actors, Persist(p), ~stray'
    PROVE  /\ FileHasStart'
           /\ start'[p] > 0 => first'[day'[p]] = start'[p]
           /\ \A d \in Days : first[d] > 0 => first'[d] = first[d]
<1> USE DEF RiskIInv
<1> DEFINE d == day[p]
           v == snap[p].value
<1>1. /\ d \in Days /\ v \in Nat /\ dayStart.value \in Nat /\ dayStart.date \in Int
      /\ Days \subseteq Int /\ first \in [Days -> Nat] /\ start \in [Actors -> Amounts]
      /\ day' = day
  <2>1. Amounts \subseteq Nat
    BY NumbersAssumption DEF Amounts
  <2>2. day[p] \in Days /\ snap[p].value \in Amounts /\ dayStart.value \in Amounts
    BY DEF Account, RiskTypeOK
  <2>3. Days \subseteq Int
    BY Dates
  <2>4. dayStart.date \in Int
    <3>1. dayStart.date \in Days \cup {Never}
      BY DEF RiskTypeOK
    <3>2. Never \in Int
      BY DEF Never
    <3> QED
      BY <2>3, <3>1, <3>2
  <2>5. first \in [Days -> Nat]
    BY <2>1 DEF RiskTypeOK
  <2> QED
    BY <2>1, <2>2, <2>3, <2>4, <2>5 DEF Persist, RiskTypeOK
<1>2. ~stray /\ ~(d < dayStart.date)
  BY DEF Persist
<1>3. /\ \A e \in Days : e = dayStart.date => first[e] = dayStart.value
      /\ \A e \in Days : e > dayStart.date => first[e] = 0
  BY <1>2 DEF FileHasStart
<1>4. /\ dayStart' = IF Kept(d) THEN dayStart ELSE [date |-> d, value |-> v]
      /\ first' = [first EXCEPT ![d] = IF first[d] > 0 THEN first[d] ELSE v]
      /\ start' = [start EXCEPT ![p] = dayStart'.value]
  BY DEF Persist
<1> HIDE DEF d, v
<1>5. CASE Kept(d)
  <2>1. dayStart' = dayStart /\ dayStart.date = d /\ dayStart.value > 0
    BY <1>4, <1>5 DEF Kept
  <2>2. first' = first
    BY <1>1, <1>3, <1>4, <2>1
  <2>3. start'[p] = dayStart.value
    BY <1>1, <1>4, <2>1
  <2>4. FileHasStart'
    BY <1>3, <2>1, <2>2 DEF FileHasStart
  <2> QED
    BY <1>1, <1>3, <2>1, <2>2, <2>3, <2>4 DEF d
<1>6. CASE ~Kept(d)
  <2>1. dayStart' = [date |-> d, value |-> v] /\ (dayStart.date = d => dayStart.value = 0)
    BY <1>1, <1>4, <1>6 DEF Kept
  <2>2. first[d] = 0
    <3>1. CASE dayStart.date = d
      BY <1>1, <1>3, <2>1, <3>1
    <3>2. CASE dayStart.date # d
      BY <1>1, <1>2, <1>3, <3>2
    <3> QED
      BY <3>1, <3>2
  <2>3. first' = [first EXCEPT ![d] = v]
    BY <1>4, <2>2
  <2>4. start'[p] = v /\ dayStart'.date = d /\ dayStart'.value = v
    BY <1>1, <1>4, <2>1
  <2>5. \A e \in Days : e = d => first'[e] = v
    BY <1>1, <2>3
  <2>6. \A e \in Days : e > d => first'[e] = 0
    BY <1>1, <1>2, <1>3, <2>3
  <2>7. FileHasStart'
    BY <2>4, <2>5, <2>6 DEF FileHasStart
  <2> QED
    BY <1>1, <2>2, <2>3, <2>4, <2>5, <2>7 DEF d
<1> QED
  BY <1>5, <1>6

\* The other steps leave the file and the record of it alone.
LEMMA OnlyPersistRecords ==
    ASSUME RiskIInv, [RiskNext]_riskVars
    PROVE  (\E p \in Actors : Persist(p)) \/ UNCHANGED <<dayStart, first, stray, start>>
<1> USE DEF files, history, local
<1>1. CASE Tick \/ Market \/ Scan \/ WorkerAccount \/ Intents \/ EndCycle \/ MarkAgain \/ UNCHANGED riskVars
  BY <1>1 DEF Tick, Market, Scan, WorkerAccount, Intents, EndCycle, MarkAgain, riskVars
<1>2. ASSUME NEW p \in Actors,
             ReadDate(p) \/ Remember(p) \/ ReadBook(p) \/ Approve(p) \/ Refuse(p) \/ BuyLands(p)
             \/ SellLands(p) \/ Unmarked(p) \/ Stamp(p) \/ Mark(p) \/ GiveUp(p)
      PROVE  UNCHANGED <<dayStart, first, stray, start>>
  BY <1>2 DEF ReadDate, Remember, ReadBook, Approve, Refuse, BuyLands, SellLands, Unmarked, Stamp, Mark, GiveUp
<1>3. ASSUME NEW s \in Symbols, Exit(s) \/ Entry(s) PROVE UNCHANGED <<dayStart, first, stray, start>>
  BY <1>3 DEF Exit, Entry, Take
<1>4. ASSUME NEW s \in Symbols, NEW way \in {"buy", "sell"}, Intent(s, way)
      PROVE  UNCHANGED <<dayStart, first, stray, start>>
  BY <1>4 DEF Intent, Take
<1>5. ASSUME NEW p \in Desks, NEW s \in Symbols, NEW way \in {"buy", "sell"}, DeskAccount(p, s, way)
      PROVE  UNCHANGED <<dayStart, first, stray, start>>
  BY <1>5 DEF DeskAccount
<1>6. ASSUME NEW e \in Engines, Restart(e) PROVE UNCHANGED <<dayStart, first, stray, start>>
  BY <1>6 DEF Restart
<1> QED
  BY <1>1, <1>2, <1>3, <1>4, <1>5, <1>6 DEF RiskNext

\* A handler comes past its record only by making it, and its date stays till the next.
LEMMA PastTheRecord ==
    ASSUME RiskIInv, [RiskNext]_riskVars, NEW p \in Actors, at'[p] \notin {"idle", "date", "persist"}
    PROVE  /\ at[p] \notin {"idle", "date", "persist"} \/ Persist(p)
           /\ day'[p] = day[p]
<1> USE DEF RiskIInv, RiskTypeOK, local, Goto, Actors
<1>1. CASE UNCHANGED <<at, day>>
  BY <1>1
<1>2. CASE Tick \/ Market \/ Scan \/ UNCHANGED riskVars
  BY <1>1, <1>2 DEF Tick, Market, Scan, riskVars
<1>3. CASE WorkerAccount \/ Intents \/ EndCycle \/ MarkAgain
  BY <1>3 DEF WorkerAccount, Intents, EndCycle, MarkAgain
<1>4. ASSUME NEW s, NEW way, NEW account, Take(s, way, account)
      PROVE  at[p] \notin {"idle", "date", "persist"} /\ day'[p] = day[p]
  BY <1>4 DEF Take
<1>5. ASSUME NEW s \in Symbols, Exit(s) \/ Entry(s)
      PROVE  at[p] \notin {"idle", "date", "persist"} /\ day'[p] = day[p]
  BY <1>4, <1>5 DEF Exit, Entry
<1>6. ASSUME NEW s \in Symbols, NEW way \in {"buy", "sell"}, Intent(s, way)
      PROVE  at[p] \notin {"idle", "date", "persist"} /\ day'[p] = day[p]
  BY <1>4, <1>6 DEF Intent
<1>7. ASSUME NEW q \in Desks, NEW s \in Symbols, NEW way \in {"buy", "sell"}, DeskAccount(q, s, way)
      PROVE  at[p] \notin {"idle", "date", "persist"} /\ day'[p] = day[p]
  BY <1>7 DEF DeskAccount
<1>8. ASSUME NEW q \in Actors, ReadDate(q)
      PROVE  at[p] \notin {"idle", "date", "persist"} /\ day'[p] = day[p]
  BY <1>8 DEF ReadDate
<1>9. ASSUME NEW q \in Actors, Persist(q)
      PROVE  /\ at[p] \notin {"idle", "date", "persist"} \/ Persist(p)
             /\ day'[p] = day[p]
  <2>1. CASE q = p
    BY <1>9, <2>1 DEF Persist
  <2>2. CASE q # p
    BY <1>9, <2>2 DEF Persist
  <2> QED
    BY <2>1, <2>2
<1>10. ASSUME NEW q \in Actors,
              Remember(q) \/ ReadBook(q) \/ Approve(q) \/ Refuse(q) \/ BuyLands(q)
              \/ SellLands(q) \/ Unmarked(q) \/ Stamp(q) \/ Mark(q) \/ GiveUp(q)
       PROVE  at[p] \notin {"idle", "date", "persist"} /\ day'[p] = day[p]
  BY <1>10 DEF Remember, ReadBook, Approve, Refuse, BuyLands, SellLands, Unmarked, Stamp, Mark, GiveUp
<1>11. ASSUME NEW e \in Engines, Restart(e)
       PROVE  at[p] \notin {"idle", "date", "persist"} /\ day'[p] = day[p]
  BY <1>11 DEF Restart
<1> QED
  BY <1>2, <1>3, <1>5, <1>6, <1>7, <1>8, <1>9, <1>10, <1>11 DEF RiskNext

\* Every step keeps the start of the day what it was first.
LEMMA StartKept == RiskIInv /\ [RiskNext]_riskVars => FileHasStart' /\ StartIsFirst'
<1> SUFFICES ASSUME RiskIInv, [RiskNext]_riskVars, ~stray' PROVE FileHasStart' /\ StartIsFirst'
  BY DEF FileHasStart, StartIsFirst
<1> USE DEF RiskIInv
<1>1. ASSUME NEW p \in Actors, Persist(p) PROVE FileHasStart' /\ StartIsFirst'
  <2>1. /\ FileHasStart' /\ ~stray
        /\ start'[p] > 0 => first'[day'[p]] = start'[p]
        /\ \A d \in Days : first[d] > 0 => first'[d] = first[d]
    BY <1>1, PersistKeeps DEF Persist
  <2>2. ASSUME NEW q \in Actors, at'[q] \notin {"idle", "date", "persist"}, start'[q] > 0
        PROVE  first'[day'[q]] = start'[q]
    <3>1. CASE q = p
      BY <2>1, <2>2, <3>1
    <3>2. CASE q # p
      <4>1. ~Persist(q)
        BY <1>1, <3>2 DEF Persist, Goto, RiskTypeOK
      <4>2. at[q] \notin {"idle", "date", "persist"} /\ day'[q] = day[q]
        BY <2>2, <4>1, PastTheRecord
      <4>3. start'[q] = start[q] /\ day[q] \in Days
        BY <1>1, <3>2 DEF Persist, RiskTypeOK
      <4>4. first[day[q]] = start[q] /\ start[q] > 0
        BY <2>1, <2>2, <4>2, <4>3 DEF StartIsFirst
      <4> QED
        BY <2>1, <4>2, <4>3, <4>4
    <3> QED
      BY <3>1, <3>2
  <2> QED
    BY <2>1, <2>2 DEF StartIsFirst
<1>2. CASE ~\E p \in Actors : Persist(p)
  <2>1. UNCHANGED <<dayStart, first, stray, start>>
    BY <1>2, OnlyPersistRecords
  <2>2. FileHasStart'
    BY <2>1 DEF FileHasStart
  <2>3. \A p \in Actors : at'[p] \notin {"idle", "date", "persist"} =>
            at[p] \notin {"idle", "date", "persist"} /\ day'[p] = day[p]
    BY <1>2, PastTheRecord
  <2>4. StartIsFirst'
    BY <2>1, <2>3 DEF StartIsFirst
  <2> QED
    BY <2>2, <2>4
<1> QED
  BY <1>1, <1>2

-----------------------------------------------------------------------------
(* The invariant and what follows from it.                                  *)

\* Nothing is held, recorded or marked.
LEMMA InitRiskIInv == RiskInit => RiskIInv
<1> SUFFICES ASSUME RiskInit PROVE RiskIInv
  OBVIOUS
<1>1. RiskTypeOK
  <2>1. 0 \in Times /\ 0 \in 0..MaxOrders
    BY NumbersAssumption DEF Times
  <2>2. Empty \in Account /\ 0 \in Amounts
    BY DEF Empty, Account, Amounts
  <2>3. /\ at \in [Actors -> Places] /\ side \in [Actors -> {"buy", "sell"}]
        /\ sym \in [Actors -> Symbols \cup {Nothing}] /\ snap \in [Actors -> Account]
        /\ day \in [Actors -> Days] /\ start \in [Actors -> Amounts]
        /\ cool \in [Actors -> SUBSET Symbols] /\ stamp \in [Actors -> Times]
    BY <2>1, <2>2, Dates DEF RiskInit, Places
  <2>4. /\ book \in [Symbols -> Times \cup {Never}] /\ own \in [Symbols -> Times \cup {Never}]
        /\ marked \in [Symbols -> Times \cup {Never}]
        /\ memory \in [Engines -> Amounts] /\ first \in [Days -> Amounts]
        /\ dayStart \in [date : Days \cup {Never}, value : Amounts]
    BY <2>2 DEF RiskInit
  <2> QED
    BY <2>1, <2>2, <2>3, <2>4 DEF RiskInit, RiskTypeOK
<1>2. OrderNamed /\ Roomy
  BY DEF RiskInit, OrderNamed, Roomy
<1>3. OpenLimitUnlessBlind /\ Seen
  <2>1. Cardinality({}) = 0 /\ MaxOpen \in Nat
    BY NumbersAssumption, FS_EmptySet DEF MaxOpen
  <2>2. held \cup working = {} /\ cycle.held = {} /\ \A p \in Actors : snap[p].held = {}
    BY DEF RiskInit, Empty
  <2>3. 0 <= MaxOpen
    BY <2>1
  <2> QED
    BY <2>1, <2>2, <2>3 DEF OpenLimitUnlessBlind, Seen
<1>4. BookHasMark /\ FileHasStart /\ StartIsFirst
  <2>1. BookHasMark /\ StartIsFirst
    BY DEF RiskInit, BookHasMark, StartIsFirst
  <2>2. FileHasStart
    BY DEF RiskInit, FileHasStart
  <2> QED
    BY <2>1, <2>2
<1> QED
  BY <1>1, <1>2, <1>3, <1>4 DEF RiskIInv

\* Every step keeps it.
LEMMA RiskKeepsIInv == RiskIInv /\ [RiskNext]_riskVars => RiskIInv'
BY RiskTypes, NamesKept, LimitKept, RoomyKept, BookKept, StartKept DEF RiskIInv

\* So it always holds.
LEMMA AlwaysRiskIInv == RiskSpec => []RiskIInv
BY InitRiskIInv, RiskKeepsIInv, PTL DEF RiskSpec

\* The files, the accounts and the marks keep their types.
THEOREM RiskTypeCorrect == RiskSpec => []RiskTypeOK
<1>1. RiskIInv => RiskTypeOK
  BY DEF RiskIInv
<1> QED
  BY <1>1, AlwaysRiskIInv, PTL

\* Positions and working buys stay within the limit until a buy lands beside one its
\* account did not show, for any number of Desk requests.
THEOREM OpenLimitHolds == RiskSpec => []OpenLimitUnlessBlind
<1>1. RiskIInv => OpenLimitUnlessBlind
  BY DEF RiskIInv
<1> QED
  BY <1>1, AlwaysRiskIInv, PTL

\* A marked sale keeps its symbol in cool-down for the whole window.
THEOREM MarksAreKept == RiskSpec => []MarksLast
<1>1. RiskIInv => MarksLast
  <2> SUFFICES ASSUME RiskIInv, NEW s \in Active(marked, now), s \notin backdated
               PROVE  s \in Active(book, now)
    BY DEF MarksLast
  <2>1. s \in Symbols /\ marked[s] # Never /\ now - marked[s] < Window
    BY DEF Active
  <2>2. now \in Int /\ marked[s] \in Int /\ Window \in Int
    BY <2>1, NumbersAssumption DEF RiskIInv, RiskTypeOK, Times, Never
  <2>3. book[s] = marked[s]
    BY <2>1, <2>2 DEF RiskIInv, BookHasMark
  <2> QED
    BY <2>1, <2>3 DEF Active
<1> QED
  BY <1>1, AlwaysRiskIInv, PTL

\* A handler whose engine remembers what it recorded buys nothing after the loss of the
\* day, measured from the first value anybody recorded.
THEOREM HaltHolds == RiskSpec => HaltUnlessMixed
<1>1. RiskIInv /\ [RiskNext]_riskVars =>
        [\A p \in Actors :
           /\ at[p] = "evaluate" /\ at'[p] = "land" /\ side[p] = "buy"
           /\ ~stray /\ start[p] > 0 /\ memory[Engine(p)] = start[p]
           => ~Loss(first[day[p]], snap[p].value)]_riskVars
  <2> SUFFICES ASSUME RiskIInv, [RiskNext]_riskVars, NEW p \in Actors,
                      at[p] = "evaluate", at'[p] = "land", side[p] = "buy",
                      ~stray, start[p] > 0, memory[Engine(p)] = start[p]
               PROVE  ~Loss(first[day[p]], snap[p].value)
    OBVIOUS
  <2>1. first[day[p]] = start[p]
    BY DEF RiskIInv, StartIsFirst
  <2>2. Approved(p)
    BY ApprovedBeforeLanding
  <2>3. ~Loss(memory[Engine(p)], snap[p].value)
    BY <2>2 DEF Approved
  <2> QED
    BY <2>1, <2>3
<1> QED
  BY <1>1, AlwaysRiskIInv, PTL DEF RiskSpec, HaltUnlessMixed

-----------------------------------------------------------------------------
(* Order submission.                                                        *)

\* What every row says of key k, wherever a copy of it is held.
Backed(row, k) ==
    /\ row.status = "none" => row = NoRow
    /\ row.status = "unknown" => row.sticky
    /\ row.status = "open" => broker[k] # "none"
    /\ row.status \in {"filled", "closed"} => broker[k] = row.status

\* A handler calls the broker only with a row on record, and what it carries
\* to the journal, to a save or to the sync is a row that exists.
InHand(h) ==
    /\ pc[h] = "submit" => ledger[key[h]].status # "none"
    /\ pc[h] \in {"save", "journal", "settle", "settleFailed", "sync"} => result[h].status # "none"
    /\ pc[h] = "save" => of[h] = key[h]
    /\ pc[h] = "sync" => broker[of[h]] # "none"

IInv ==
    /\ TypeOK
    /\ \A k \in Keys : Backed(ledger[k], k)
    /\ \A k \in Keys : broker[k] # "none" => ledger[k].status # "none"
    /\ \A h \in Handlers : Backed(result[h], of[h]) /\ InHand(h)

USE DEF Handlers

LEMMA RowFields ==
    ASSUME NEW s \in Statuses, NEW b \in BOOLEAN
    PROVE  Row(s, b) \in Rows /\ Row(s, b).status = s /\ Row(s, b).sticky = b
BY DEF Row, Rows

LEMMA NoRowFields == NoRow \in Rows /\ NoRow.status = "none" /\ NoRow.sticky = FALSE
BY DEF NoRow, Row, Rows, Statuses

LEMMA InitIInv == Init => IInv
<1> SUFFICES ASSUME Init PROVE IInv
  OBVIOUS
<1>1. TypeOK
  BY NoRowFields DEF Init, TypeOK, Stages
<1>2. \A k \in Keys : Backed(ledger[k], k) /\ broker[k] = "none"
  BY NoRowFields DEF Init, Backed
<1>3. \A h \in Handlers : Backed(result[h], of[h]) /\ InHand(h)
  BY NoRowFields DEF Init, Backed, InHand
<1> QED
  BY <1>1, <1>2, <1>3 DEF IInv

\* A step that neither saves nor calls the broker, after which the handler
\* holds nothing, what it held, or a copy of a row.
LEMMA CarryKeeps ==
    ASSUME IInv, NEW h \in Handlers, NEW to \in Stages, NEW k \in Keys, NEW j \in Keys,
           UNCHANGED <<ledger, broker, disowned>>,
           journaled' \subseteq Keys,
           pc' = [pc EXCEPT ![h] = to],
           key' = [key EXCEPT ![h] = k],
           of' = [of EXCEPT ![h] = j],
           resubmit' \in [Handlers -> BOOLEAN], replay' \in [Handlers -> BOOLEAN],
           \/ result' = [result EXCEPT ![h] = NoRow]
           \/ result' = result /\ j = of[h]
           \/ result' = [result EXCEPT ![h] = ledger[j]],
           to = "submit" => ledger[k].status # "none",
           to \in {"save", "journal", "settle", "settleFailed", "sync"} => result'[h].status # "none",
           to = "save" => j = k,
           to = "sync" => broker[j] # "none"
    PROVE  IInv'
<1>1. TypeOK'
  BY NoRowFields DEF IInv, TypeOK
<1>2. \A i \in Keys : Backed(ledger[i], i)' /\ (broker'[i] # "none" => ledger'[i].status # "none")
  BY DEF IInv, Backed
<1>3. \A g \in Handlers : Backed(result[g], of[g])'
  <2> SUFFICES ASSUME NEW g \in Handlers PROVE Backed(result[g], of[g])'
    OBVIOUS
  <2>1. CASE g # h
    BY <2>1 DEF IInv, TypeOK, Backed
  <2>2. CASE g = h
    BY <2>2, NoRowFields DEF IInv, TypeOK, Backed
  <2> QED
    BY <2>1, <2>2
<1>4. \A g \in Handlers : InHand(g)'
  <2> SUFFICES ASSUME NEW g \in Handlers PROVE InHand(g)'
    OBVIOUS
  <2>1. CASE g # h
    BY <2>1 DEF IInv, TypeOK, InHand
  <2>2. CASE g = h
    BY <2>2 DEF IInv, TypeOK, InHand
  <2> QED
    BY <2>1, <2>2
<1> QED
  BY <1>1, <1>2, <1>3, <1>4 DEF IInv

\* A step that saves one row which is backed and not empty.
LEMMA SaveKeeps ==
    ASSUME IInv, NEW h \in Handlers, NEW to \in Stages, NEW k \in Keys, NEW row \in Rows,
           ledger' = [ledger EXCEPT ![k] = row], UNCHANGED <<broker, journaled, disowned>>,
           Backed(row, k), row.status # "none",
           pc' = [pc EXCEPT ![h] = to], UNCHANGED key,
           resubmit' \in [Handlers -> BOOLEAN], replay' \in [Handlers -> BOOLEAN],
           of' \in [Handlers -> Keys], result' \in [Handlers -> Rows],
           \A g \in Handlers \ {h} : of'[g] = of[g] /\ result'[g] = result[g],
           \/ result'[h] = result[h] /\ of'[h] = of[h]
           \/ result'[h] = NoRow /\ to = "idle",
           to \in {"idle", "submit", "journal"},
           to = "submit" => k = key[h],
           to = "journal" => result[h].status # "none"
    PROVE  IInv'
<1>1. TypeOK'
  BY DEF IInv, TypeOK
<1>2. \A i \in Keys : Backed(ledger[i], i)' /\ (broker'[i] # "none" => ledger'[i].status # "none")
  BY DEF IInv, TypeOK, Backed
<1>3. \A g \in Handlers : Backed(result[g], of[g])'
  BY NoRowFields DEF IInv, TypeOK, Backed
<1>4. \A g \in Handlers : InHand(g)'
  <2> SUFFICES ASSUME NEW g \in Handlers PROVE InHand(g)'
    OBVIOUS
  <2>0. \A i \in Keys : ledger[i].status # "none" => ledger'[i].status # "none"
    BY DEF IInv, TypeOK
  <2>1. CASE g # h
    BY <2>0, <2>1 DEF IInv, TypeOK, InHand
  <2>2. CASE g = h
    BY <2>2 DEF IInv, TypeOK, InHand
  <2> QED
    BY <2>1, <2>2
<1> QED
  BY <1>1, <1>2, <1>3, <1>4 DEF IInv

\* What the OrderManager makes of an answer is a row, pinned when it is unknown,
\* a fill only when the broker said so.
LEMMA AnsweredRow ==
    ASSUME NEW h \in Handlers, NEW answer \in Answers, resubmit[h] \in BOOLEAN
    PROVE  /\ Answered(h, answer) \in Rows
           /\ Answered(h, answer).status \in {"open", "filled", "draft", "unknown", "rejected"}
           /\ Answered(h, answer).status = "unknown" => Answered(h, answer).sticky
           /\ Answered(h, answer).status = "open" => answer = "accepted"
           /\ Answered(h, answer).status = "filled" => answer = "filled"
<1>1. answer \in {"accepted", "filled", "unmapped", "unknown", "refused", "aborted"}
  BY AnswerAssumption
<1>2. {"open", "filled", "draft", "unknown", "rejected"} \subseteq Statuses
  BY DEF Statuses
<1>3. CASE answer = "accepted"
  BY <1>2, <1>3, RowFields DEF Answered
<1>4. CASE answer = "filled"
  BY <1>2, <1>4, RowFields DEF Answered
<1>5. CASE answer = "unmapped"
  BY <1>2, <1>5, RowFields DEF Answered
<1>6. CASE answer = "unknown"
  BY <1>2, <1>6, RowFields DEF Answered
<1>7. CASE answer \in {"refused", "aborted"}
  BY <1>2, <1>7, RowFields DEF Answered
<1> QED
  BY <1>1, <1>3, <1>4, <1>5, <1>6, <1>7

LEMMA SubmitKeeps ==
    ASSUME IInv, NEW h \in Handlers, OmSubmit(h)
    PROVE  IInv'
<1>1. PICK answer \in Answers :
        /\ \/ /\ broker[key[h]] = "none" /\ answer # "refused"
              /\ broker' = [broker EXCEPT ![key[h]] = IF answer = "filled" THEN "filled" ELSE "open"]
           \/ /\ answer \in {"unknown", "refused", "aborted"}
              /\ UNCHANGED broker
        /\ result' = [result EXCEPT ![h] = Answered(h, answer)]
        /\ disowned' \in {disowned, disowned \cup {key[h]}}
  BY DEF OmSubmit
<1>2. /\ pc[h] = "submit" /\ pc' = [pc EXCEPT ![h] = "save"]
      /\ of' = [of EXCEPT ![h] = key[h]]
      /\ UNCHANGED <<ledger, journaled, key, resubmit, replay>>
  BY DEF OmSubmit, Transition
<1>3. /\ key[h] \in Keys /\ resubmit[h] \in BOOLEAN
      /\ ledger[key[h]].status # "none"
  BY <1>2 DEF IInv, TypeOK, InHand
<1>4. PICK row \in Rows :
        /\ result' = [result EXCEPT ![h] = row]
        /\ row.status \in {"open", "filled", "draft", "unknown", "rejected"}
        /\ row.status = "unknown" => row.sticky
        /\ row.status = "open" => answer = "accepted"
        /\ row.status = "filled" => answer = "filled"
  BY <1>1, <1>3, AnsweredRow
<1>5. \A k \in Keys :
        \/ broker'[k] = broker[k]
        \/ broker[k] = "none" /\ k = key[h] /\ broker'[k] \in {"open", "filled"}
  BY <1>1, <1>3 DEF IInv, TypeOK
<1>6. TypeOK'
  BY <1>1, <1>2, <1>3, <1>4 DEF IInv, TypeOK, Stages
<1>7. \A k \in Keys : Backed(ledger[k], k)' /\ (broker'[k] # "none" => ledger'[k].status # "none")
  BY <1>2, <1>3, <1>5 DEF IInv, Backed
<1>8. Backed(row, key[h])'
  BY <1>1, <1>2, <1>3, <1>4 DEF IInv, TypeOK, Backed
<1>9. \A g \in Handlers : Backed(result[g], of[g])'
  <2> SUFFICES ASSUME NEW g \in Handlers PROVE Backed(result[g], of[g])'
    OBVIOUS
  <2>1. CASE g # h
    BY <1>2, <1>4, <1>5, <2>1 DEF IInv, TypeOK, Backed
  <2>2. CASE g = h
    <3>1. result'[g] = row /\ of'[g] = key'[h]
      BY <1>2, <1>4, <2>2 DEF IInv, TypeOK
    <3> QED
      BY <1>8, <3>1
  <2> QED
    BY <2>1, <2>2
<1>10. \A g \in Handlers : InHand(g)'
  <2> SUFFICES ASSUME NEW g \in Handlers PROVE InHand(g)'
    OBVIOUS
  <2>1. CASE g # h
    BY <1>2, <1>4, <1>5, <2>1 DEF IInv, TypeOK, InHand
  <2>2. CASE g = h
    <3>1. pc'[g] = "save" /\ result'[g] = row /\ of'[g] = key'[g]
      BY <1>2, <1>4, <2>2 DEF IInv, TypeOK
    <3> QED
      BY <1>4, <3>1 DEF InHand
  <2> QED
    BY <2>1, <2>2
<1> QED
  BY <1>6, <1>7, <1>9, <1>10 DEF IInv

LEMMA BrokerMovesKeeps ==
    ASSUME IInv, NEW k \in Keys, BrokerMoves(k)
    PROVE  IInv'
<1>1. PICK s \in {"filled", "closed"} : broker' = [broker EXCEPT ![k] = s]
  BY DEF BrokerMoves
<1>2. broker[k] = "open" /\ UNCHANGED <<ledger, journaled, disowned, pc, locals>>
  BY DEF BrokerMoves
<1>3. UNCHANGED <<key, resubmit, replay, result, of>>
  BY <1>2 DEF locals
<1>4. \A i \in Keys :
        \/ broker'[i] = broker[i]
        \/ broker[i] = "open" /\ broker'[i] \in {"filled", "closed"}
  BY <1>1, <1>2 DEF IInv, TypeOK
<1>5. TypeOK'
  BY <1>1, <1>2, <1>3 DEF IInv, TypeOK
<1>6. \A i \in Keys : Backed(ledger[i], i)' /\ (broker'[i] # "none" => ledger'[i].status # "none")
  BY <1>2, <1>4 DEF IInv, Backed
<1>7. \A g \in Handlers : Backed(result[g], of[g])' /\ InHand(g)'
  BY <1>2, <1>3, <1>4 DEF IInv, TypeOK, Backed, InHand
<1> QED
  BY <1>5, <1>6, <1>7 DEF IInv

\* The handler is done, and saves nothing.
LEMMA ReturnKeeps ==
    ASSUME IInv, NEW h \in Handlers, NEW from \in Stages, Return(h, from),
           UNCHANGED <<ledger, broker, journaled, disowned>>
    PROVE  IInv'
<1>1. key[h] \in Keys /\ key' = [key EXCEPT ![h] = key[h]] /\ journaled' \subseteq Keys
  BY DEF IInv, TypeOK, Return
<1>2. resubmit' \in [Handlers -> BOOLEAN] /\ replay' \in [Handlers -> BOOLEAN]
  BY DEF IInv, TypeOK, Return
<1>3. /\ pc' = [pc EXCEPT ![h] = "idle"]
      /\ of' = [of EXCEPT ![h] = key[h]]
      /\ result' = [result EXCEPT ![h] = NoRow]
  BY DEF Return, Transition
<1>4. "idle" \in Stages
  BY DEF Stages
<1> QED
  BY <1>1, <1>2, <1>3, <1>4, CarryKeeps

\* The handler moves on with the order it holds.
LEMMA MoveKeeps ==
    ASSUME IInv, NEW h \in Handlers, NEW from \in Stages, NEW to \in Stages,
           Transition(h, from, to), UNCHANGED <<ledger, broker, disowned, key, result, of>>,
           journaled' \subseteq Keys,
           resubmit' \in [Handlers -> BOOLEAN], replay' \in [Handlers -> BOOLEAN],
           to = "submit" => ledger[key[h]].status # "none",
           to \in {"settle", "settleFailed"} => from = "journal",
           to \notin {"save", "journal", "sync"}
    PROVE  IInv'
<1>1. PICK k \in Keys, j \in Keys :
        /\ k = key[h] /\ key' = [key EXCEPT ![h] = k]
        /\ j = of[h] /\ of' = [of EXCEPT ![h] = j]
  BY DEF IInv, TypeOK
<1>2. pc' = [pc EXCEPT ![h] = to] /\ (from = "journal" => result[h].status # "none")
  BY DEF IInv, InHand, Transition
<1>3. /\ to \in {"save", "journal", "settle", "settleFailed", "sync"} => result'[h].status # "none"
      /\ to = "save" => j = k
      /\ to = "sync" => broker[j] # "none"
      /\ to = "submit" => ledger[k].status # "none"
  BY <1>1, <1>2
<1>4. result' = result /\ j = of[h]
  BY <1>1
<1>5. to \in {"save", "journal", "settle", "settleFailed", "sync"} => result'[h].status # "none"
  BY <1>3
<1>6. UNCHANGED <<ledger, broker, disowned>> /\ pc' = [pc EXCEPT ![h] = to]
  BY <1>2
<1>7. key' = [key EXCEPT ![h] = k] /\ of' = [of EXCEPT ![h] = j]
  BY <1>1
<1>8. \/ result' = [result EXCEPT ![h] = NoRow]
      \/ result' = result /\ j = of[h]
      \/ result' = [result EXCEPT ![h] = ledger[j]]
  BY <1>4
<1> QED
  BY <1>3, <1>5, <1>6, <1>7, <1>8, CarryKeeps, ZenonT(60)

\* The handler goes to its journal with a copy of a row, or reads it to sync.
LEMMA HoldKeeps ==
    ASSUME IInv, NEW h \in Handlers, NEW from \in Stages, NEW to \in {"journal", "sync"},
           NEW k \in Keys, Hold(h, k), ledger[k].status # "none",
           Transition(h, from, to), UNCHANGED <<ledger, broker, journaled, disowned, key, resubmit>>,
           replay' \in [Handlers -> BOOLEAN],
           to = "sync" => broker[k] # "none"
    PROVE  IInv'
<1>1. key[h] \in Keys /\ key' = [key EXCEPT ![h] = key[h]]
  BY DEF IInv, TypeOK
<1>2. resubmit' \in [Handlers -> BOOLEAN] /\ journaled' \subseteq Keys
  BY DEF IInv, TypeOK
<1>3. /\ pc' = [pc EXCEPT ![h] = to]
      /\ of' = [of EXCEPT ![h] = k]
      /\ result' = [result EXCEPT ![h] = ledger[k]]
      /\ result'[h].status # "none"
  BY DEF Hold, Transition, IInv, TypeOK
<1>4. to \in Stages
  BY DEF Stages
<1> QED
  BY <1>1, <1>2, <1>3, <1>4, CarryKeeps

\* A pinned row exists, and the venue has it or its acceptance is unknown.
LEMMA PinnedRow ==
    ASSUME IInv, NEW k \in Pinned
    PROVE  k \in Keys /\ ledger[k].status \in Venue \cup {"unknown"} /\ ledger[k].status # "none"
BY DEF Pinned, StickyOpen, Venue

\* A handler looks for a pin, passes the gates, or is turned away there.
LEMMA LookAndGatesKeep ==
    ASSUME IInv, NEW h \in Handlers, NEW k \in Keys,
           \/ DeskArrive(h, k) \/ DeskLook(h) \/ DeskReplay(h) \/ DeskBlind(h)
           \/ WorkerBegin(h, k) \/ WorkerLook(h) \/ GatesPass(h) \/ SkipBuy(h)
    PROVE  IInv'
<1> USE DEF Stages
<1>0. /\ journaled \subseteq Keys
      /\ resubmit \in [Handlers -> BOOLEAN] /\ replay \in [Handlers -> BOOLEAN]
      /\ of[h] \in Keys /\ of = [of EXCEPT ![h] = of[h]]
      /\ key \in [Handlers -> Keys] /\ key = [key EXCEPT ![h] = key[h]]
  BY DEF IInv, TypeOK
<1>1. CASE DeskArrive(h, k) \/ WorkerBegin(h, k)
  <2>1. /\ pc' = [pc EXCEPT ![h] = "look"] /\ key' = [key EXCEPT ![h] = k]
        /\ UNCHANGED <<ledger, broker, journaled, disowned, resubmit, replay, result, of>>
    BY <1>1 DEF DeskArrive, WorkerBegin, Transition
  <2> QED
    BY <1>0, <2>1, CarryKeeps
<1>2. CASE DeskLook(h)
  <2>1. Transition(h, "look", "gates") /\ UNCHANGED <<ledger, broker, journaled, disowned, key, resubmit, replay, result, of>>
    BY <1>2 DEF DeskLook, locals
  <2> QED
    BY <1>0, <2>1, MoveKeeps
<1>3. CASE DeskReplay(h)
  <2>1. PICK i \in Pinned : ledger[i].status \in Venue /\ Hold(h, i)
    BY <1>3 DEF DeskReplay
  <2>2. /\ Transition(h, "look", "journal") /\ replay' \in [Handlers -> BOOLEAN]
        /\ UNCHANGED <<ledger, broker, journaled, disowned, key, resubmit>>
    BY <1>0, <1>3 DEF DeskReplay
  <2> QED
    BY <2>1, <2>2, PinnedRow, HoldKeeps
<1>4. CASE DeskBlind(h) \/ SkipBuy(h)
  BY <1>4, ReturnKeeps DEF DeskBlind, SkipBuy
<1>5. CASE WorkerLook(h)
  <2>1. PICK i \in Keys : key' = [key EXCEPT ![h] = i]
    BY <1>0, <1>5 DEF WorkerLook, Pinned
  <2>2. replay' \in [Handlers -> BOOLEAN]
    <3>1. CASE replay' = replay
      BY <1>0, <3>1
    <3>2. ASSUME NEW j \in Pinned, replay' = [replay EXCEPT ![h] = ledger[j].status \in Venue]
          PROVE  replay' \in [Handlers -> BOOLEAN]
      BY <1>0, <3>2 DEF Venue
    <3> QED
      BY <1>5, <3>1, <3>2 DEF WorkerLook
  <2>3. pc' = [pc EXCEPT ![h] = "gates"] /\ UNCHANGED <<ledger, broker, journaled, disowned, resubmit, result, of>>
    BY <1>5 DEF WorkerLook, Transition
  <2> QED
    BY <1>0, <2>1, <2>2, <2>3, CarryKeeps
<1>6. CASE GatesPass(h)
  <2>1. replay' \in [Handlers -> BOOLEAN]
    <3>1. CASE h \in Workers /\ Side = "buy"
      <4>1. (StickyOpen(ledger[key[h]]) /\ ledger[key[h]].status \in Venue) \in BOOLEAN
        BY ZenonT(10) DEF StickyOpen
      <4> QED
        BY <1>0, <1>6, <3>1, <4>1 DEF GatesPass
    <3>2. CASE ~(h \in Workers /\ Side = "buy")
      BY <1>0, <1>6, <3>2 DEF GatesPass
    <3> QED
      BY <3>1, <3>2
  <2>2. Transition(h, "gates", "om") /\ UNCHANGED <<ledger, broker, journaled, disowned, key, resubmit, result, of>>
    BY <1>6 DEF GatesPass
  <2> QED
    BY <1>0, <2>1, <2>2, MoveKeeps
<1> QED
  BY <1>1, <1>2, <1>3, <1>4, <1>5, <1>6

\* A rejected order is saved, or detached from a pinned row.
LEMMA RejectKeeps ==
    ASSUME IInv, NEW h \in Handlers, GateReject(h) \/ SellFails(h) \/ SaveReject(h)
    PROVE  IInv'
<1> USE DEF Stages
<1>1. ASSUME NEW from \in Stages, BeginReject(h, from) PROVE IInv'
  <2>1. CASE StickyOpen(ledger[key[h]])
    BY <1>1, <2>1, ReturnKeeps DEF BeginReject
  <2>2. CASE ~StickyOpen(ledger[key[h]])
    <3>1. Transition(h, from, "reject") /\ UNCHANGED <<ledger, broker, journaled, disowned, key, resubmit, replay, result, of>>
      BY <1>1, <2>2 DEF BeginReject, locals
    <3>2. /\ journaled' \subseteq Keys
          /\ resubmit' \in [Handlers -> BOOLEAN] /\ replay' \in [Handlers -> BOOLEAN]
      BY <3>1 DEF IInv, TypeOK
    <3> QED
      BY <3>1, <3>2, MoveKeeps
  <2> QED
    BY <2>1, <2>2
<1>2. CASE GateReject(h) \/ SellFails(h)
  BY <1>1, <1>2 DEF GateReject, SellFails
<1>3. CASE SaveReject(h)
  <2>1. /\ Row("rejected", FALSE) \in Rows
        /\ Row("rejected", FALSE).status = "rejected"
    BY RowFields DEF Statuses
  <2>2. Backed(Row("rejected", FALSE), key[h])
    BY <2>1 DEF Backed
  <2>3. key[h] \in Keys
    BY DEF IInv, TypeOK
  <2>4. /\ ledger' = [ledger EXCEPT ![key[h]] = Row("rejected", FALSE)]
        /\ UNCHANGED <<broker, journaled, disowned, key>>
        /\ pc' = [pc EXCEPT ![h] = "idle"]
        /\ resubmit' = [resubmit EXCEPT ![h] = FALSE] /\ replay' = [replay EXCEPT ![h] = FALSE]
        /\ of' = [of EXCEPT ![h] = key[h]] /\ result' = [result EXCEPT ![h] = NoRow]
    BY <1>3 DEF SaveReject, Save, Return, Transition
  <2>5. /\ resubmit' \in [Handlers -> BOOLEAN] /\ replay' \in [Handlers -> BOOLEAN]
        /\ of' \in [Handlers -> Keys] /\ result' \in [Handlers -> Rows]
        /\ result'[h] = NoRow
        /\ \A g \in Handlers \ {h} : of'[g] = of[g] /\ result'[g] = result[g]
    BY <2>3, <2>4, NoRowFields DEF IInv, TypeOK
  <2> QED
    BY <2>1, <2>2, <2>3, <2>4, <2>5, SaveKeeps
<1> QED
  BY <1>2, <1>3

\* The handler is done, and saves a row that is backed.
LEMMA SaveAndReturnKeeps ==
    ASSUME IInv, NEW h \in Handlers, NEW from \in Stages, Return(h, from),
           NEW k \in Keys, NEW row \in Rows, Save(k, row), UNCHANGED <<broker, journaled, disowned>>,
           Backed(row, k), row.status # "none"
    PROVE  IInv'
<1>1. /\ ledger' = [ledger EXCEPT ![k] = row] /\ UNCHANGED key
      /\ pc' = [pc EXCEPT ![h] = "idle"]
      /\ resubmit' = [resubmit EXCEPT ![h] = FALSE] /\ replay' = [replay EXCEPT ![h] = FALSE]
      /\ of' = [of EXCEPT ![h] = key[h]] /\ result' = [result EXCEPT ![h] = NoRow]
  BY DEF Save, Return, Transition
<1>2. /\ resubmit' \in [Handlers -> BOOLEAN] /\ replay' \in [Handlers -> BOOLEAN]
      /\ of' \in [Handlers -> Keys] /\ result' \in [Handlers -> Rows]
      /\ result'[h] = NoRow
      /\ \A g \in Handlers \ {h} : of'[g] = of[g] /\ result'[g] = result[g]
  BY <1>1, NoRowFields DEF IInv, TypeOK
<1>3. "idle" \in Stages
  BY DEF Stages
<1> QED
  BY <1>1, <1>2, <1>3, SaveKeeps

\* The handler saves a row of its own key and goes on with the order it holds.
LEMMA SaveAndMoveKeeps ==
    ASSUME IInv, NEW h \in Handlers, NEW from \in Stages, NEW to \in {"submit", "journal"},
           Transition(h, from, to), NEW row \in Rows, Save(key[h], row),
           UNCHANGED <<broker, journaled, disowned, locals>>,
           Backed(row, key[h]), row.status # "none",
           to = "journal" => result[h].status # "none"
    PROVE  IInv'
<1>1. PICK k \in Keys : k = key[h]
  BY DEF IInv, TypeOK
<1>2. /\ ledger' = [ledger EXCEPT ![k] = row] /\ UNCHANGED <<key, resubmit, replay, result, of>>
      /\ pc' = [pc EXCEPT ![h] = to] /\ to \in Stages /\ Backed(row, k)
  BY <1>1 DEF Save, Transition, locals, Stages
<1>3. /\ resubmit' \in [Handlers -> BOOLEAN] /\ replay' \in [Handlers -> BOOLEAN]
      /\ of' \in [Handlers -> Keys] /\ result' \in [Handlers -> Rows]
      /\ result'[h] = result[h] /\ of'[h] = of[h]
      /\ \A g \in Handlers \ {h} : of'[g] = of[g] /\ result'[g] = result[g]
  BY <1>2 DEF IInv, TypeOK
<1> QED
  BY <1>1, <1>2, <1>3, SaveKeeps

\* The OrderManager's own steps around the broker call.
LEMMA OmKeeps ==
    ASSUME IInv, NEW h \in Handlers,
           \/ OmBlind(h) \/ OmSticky(h) \/ OmExisting(h) \/ OmFresh(h)
           \/ OmSafeResubmit(h) \/ OmSaveDraft(h) \/ OmSaveResult(h)
    PROVE  IInv'
<1> USE DEF Stages
<1>0. /\ journaled \subseteq Keys /\ key[h] \in Keys
      /\ resubmit \in [Handlers -> BOOLEAN] /\ replay \in [Handlers -> BOOLEAN]
  BY DEF IInv, TypeOK
<1>1. CASE OmBlind(h)
  <2>1. PICK k \in Pinned : Hold(h, k)
    BY <1>1 DEF OmBlind
  <2>2. Transition(h, "om", "journal") /\ UNCHANGED <<ledger, broker, journaled, disowned, key, resubmit, replay>>
    BY <1>1 DEF OmBlind
  <2> QED
    BY <1>0, <2>1, <2>2, PinnedRow, HoldKeeps
<1>2. CASE OmSticky(h) \/ OmFresh(h)
  <2>1. PICK from \in Stages, to \in {"existing", "draft"} : Transition(h, from, to)
    BY <1>2 DEF OmSticky, OmFresh
  <2>2. UNCHANGED <<ledger, broker, journaled, disowned, key, resubmit, replay, result, of>>
    BY <1>2 DEF OmSticky, OmFresh, locals
  <2> QED
    BY <1>0, <2>1, <2>2, MoveKeeps
<1>3. CASE OmExisting(h)
  <2>1. ledger[key[h]].status # "none" /\ Hold(h, key[h])
    BY <1>0, <1>3 DEF OmExisting, IInv, Backed
  <2>2. Transition(h, "existing", "journal") /\ UNCHANGED <<ledger, broker, journaled, disowned, key, resubmit, replay>>
    BY <1>3 DEF OmExisting
  <2> QED
    BY <1>0, <2>1, <2>2, HoldKeeps
<1>4. CASE OmSafeResubmit(h)
  <2>1. ledger[key[h]].status # "none"
    BY <1>4 DEF OmSafeResubmit, Row
  <2>2. /\ Transition(h, "existing", "submit") /\ resubmit' \in [Handlers -> BOOLEAN]
        /\ UNCHANGED <<ledger, broker, journaled, disowned, key, replay, result, of>>
    BY <1>0, <1>4 DEF OmSafeResubmit
  <2> QED
    BY <1>0, <2>1, <2>2, MoveKeeps
<1>5. CASE OmSaveDraft(h)
  <2>1. Row("approved", FALSE) \in Rows /\ Row("approved", FALSE).status = "approved"
    BY RowFields DEF Statuses
  <2>2. Backed(Row("approved", FALSE), key[h])
    BY <2>1 DEF Backed
  <2> QED
    BY <1>5, <2>1, <2>2, SaveAndMoveKeeps DEF OmSaveDraft
<1>6. CASE OmSaveResult(h)
  <2>1. Transition(h, "save", "journal") /\ Save(key[h], result[h]) /\ UNCHANGED <<broker, journaled, disowned, locals>>
    BY <1>6 DEF OmSaveResult
  <2>2. /\ result[h] \in Rows /\ result[h].status # "none"
        /\ Backed(result[h], key[h])
    BY <2>1 DEF IInv, TypeOK, InHand, Transition
  <2> QED
    BY <2>1, <2>2, SaveAndMoveKeeps
<1> QED
  BY <1>1, <1>2, <1>3, <1>4, <1>5, <1>6

\* The journal entry, the pin or its removal, and the sync.
LEMMA SettleAndSyncKeep ==
    ASSUME IInv, NEW h \in Handlers, NEW k \in Keys,
           Journal(h) \/ Settle(h) \/ Abandon(h) \/ SyncRead(h, k) \/ SyncWrite(h)
    PROVE  IInv'
<1> USE DEF Stages
<1>0. /\ journaled \subseteq Keys /\ key[h] \in Keys /\ of[h] \in Keys /\ result[h] \in Rows
      /\ resubmit \in [Handlers -> BOOLEAN] /\ replay \in [Handlers -> BOOLEAN]
  BY DEF IInv, TypeOK
<1>1. CASE Journal(h)
  <2>1. PICK to \in {"settle", "settleFailed"} : Transition(h, "journal", to)
    BY <1>1 DEF Journal
  <2>2. journaled' \subseteq Keys /\ UNCHANGED <<ledger, broker, disowned, key, resubmit, replay, result, of>>
    BY <1>0, <1>1 DEF Journal, locals
  <2> QED
    BY <1>0, <2>1, <2>2, MoveKeeps
<1>2. CASE Settle(h)
  <2>1. PICK from \in {"settle", "settleFailed"} : Return(h, from)
    BY <1>2 DEF Settle
  <2>2. UNCHANGED <<broker, journaled, disowned>>
    BY <1>2 DEF Settle
  <2>3. result[h].status # "none" /\ Backed(result[h], of[h])
    BY <2>1 DEF IInv, InHand, Return, Transition
  <2>4. ASSUME NEW b \in BOOLEAN, Save(of[h], Row(result[h].status, b)),
               result[h].status = "unknown" => b = TRUE
        PROVE  IInv'
    <3>1. result[h].status \in Statuses
      BY <1>0 DEF Rows
    <3>2. PICK row \in Rows : row = Row(result[h].status, b)
      BY <3>1, RowFields
    <3>3. row.status = result[h].status /\ row.sticky = b
      BY <3>1, <3>2, RowFields
    <3>4. Backed(row, of[h])
      BY <2>3, <2>4, <3>3 DEF Backed
    <3>5. Save(of[h], row) /\ row.status # "none"
      BY <2>3, <2>4, <3>2, <3>3
    <3> QED
      BY <1>0, <2>1, <2>2, <3>4, <3>5, SaveAndReturnKeeps
  <2>5. CASE MustPin(h)
    BY <1>2, <2>4, <2>5 DEF Settle
  <2>6. CASE ~MustPin(h) /\ MayClear(h)
    <3>1. result[h].status # "unknown"
      BY <2>6 DEF MayClear, Venue
    <3> QED
      BY <1>2, <2>4, <2>6, <3>1 DEF Settle
  <2>7. CASE ~MustPin(h) /\ ~MayClear(h)
    BY <1>2, <2>1, <2>2, <2>7, ReturnKeeps DEF Settle
  <2> QED
    BY <2>5, <2>6, <2>7
<1>3. CASE Abandon(h)
  BY <1>3, ReturnKeeps DEF Abandon
<1>4. CASE SyncRead(h, k)
  <2>1. ledger[k].status # "none" /\ broker[k] # "none"
    BY <1>4 DEF SyncRead, IInv, Backed
  <2>2. /\ Transition(h, "idle", "sync") /\ Hold(h, k)
        /\ UNCHANGED <<ledger, broker, journaled, disowned, key, resubmit, replay>>
    BY <1>4 DEF SyncRead
  <2> QED
    BY <1>0, <2>1, <2>2, HoldKeeps
<1>5. CASE SyncWrite(h)
  <2>1. Return(h, "sync") /\ UNCHANGED <<broker, journaled, disowned>>
    BY <1>5 DEF SyncWrite
  <2>2. CASE UNCHANGED ledger
    BY <2>1, <2>2, ReturnKeeps
  <2>3. ASSUME NEW s \in {"filled", "closed", "draft"}, Save(of[h], Row(s, result[h].sticky)),
               s = "draft" \/ s = broker[of[h]]
        PROVE  IInv'
    <3>1. s \in Statuses /\ result[h].sticky \in BOOLEAN
      BY <1>0 DEF Statuses, Rows
    <3>2. PICK row \in Rows : row = Row(s, result[h].sticky) /\ row.status = s
      BY <3>1, RowFields
    <3>3. Save(of[h], row)
      BY <2>3, <3>2
    <3>4. Backed(row, of[h]) /\ row.status # "none"
      BY <2>3, <3>2 DEF Backed
    <3> QED
      BY <1>0, <2>1, <3>3, <3>4, SaveAndReturnKeeps
  <2>4. broker[of[h]] \in {"open", "filled", "closed"}
    BY <1>0, <2>1 DEF IInv, TypeOK, InHand, Return, Transition
  <2> QED
    BY <1>5, <2>2, <2>3, <2>4 DEF SyncWrite
<1> QED
  BY <1>1, <1>2, <1>3, <1>4, <1>5

LEMMA NextKeepsIInv == IInv /\ [Next]_vars => IInv'
<1> SUFFICES ASSUME IInv, [Next]_vars PROVE IInv'
  OBVIOUS
<1>1. ASSUME NEW h \in Handlers, Begin(h) PROVE IInv'
  BY <1>1, LookAndGatesKeep, SettleAndSyncKeep DEF Begin
<1>2. ASSUME NEW h \in Handlers, Proceed(h) \/ Fault(h) PROVE IInv'
  <2>1. key[h] \in Keys
    BY DEF IInv, TypeOK
  <2> QED
    BY <1>2, <2>1, LookAndGatesKeep, RejectKeeps, OmKeeps, SubmitKeeps, SettleAndSyncKeep
    DEF Proceed, Fault
<1>3. CASE \E k \in Keys : BrokerMoves(k)
  BY <1>3, BrokerMovesKeeps
<1>4. CASE UNCHANGED vars
  <2>1. TypeOK'
    BY <1>4 DEF vars, IInv, TypeOK
  <2>2. \A k \in Keys : Backed(ledger[k], k)' /\ (broker'[k] # "none" => ledger'[k].status # "none")
    BY <1>4 DEF vars, IInv, Backed
  <2>3. \A h \in Handlers : Backed(result[h], of[h])' /\ InHand(h)'
    BY <1>4 DEF vars, IInv, Backed, InHand
  <2> QED
    BY <2>1, <2>2, <2>3 DEF IInv
<1> QED
  BY <1>1, <1>2, <1>3, <1>4 DEF Next, SteadyNext

LEMMA AlwaysIInv == Spec => []IInv
BY InitIInv, NextKeepsIInv, PTL DEF Spec

\* The state of the order path always has its types, for every set of keys,
\* Desk threads and workers.
THEOREM TypeCorrect == Spec => []TypeOK
<1>1. IInv => TypeOK
  BY DEF IInv
<1> QED
  BY <1>1, AlwaysIInv, PTL

\* No interleaving of Desk threads, workers, syncs and crashes leaves a row of
\* unknown acceptance without its pin: every copy that is carried to a save was
\* pinned when it was taken.
THEOREM AlwaysPinned == Spec => []UnknownIsPinned
<1>1. IInv => UnknownIsPinned
  BY DEF IInv, Backed, UnknownIsPinned
<1> QED
  BY <1>1, AlwaysIInv, PTL

\* The broker never has an order without a row in the ledger.
THEOREM AlwaysRecorded == Spec => []LandedIsRecorded
<1>1. IInv => LandedIsRecorded
  BY NoRowFields DEF IInv, Landed, LandedIsRecorded
<1> QED
  BY <1>1, AlwaysIInv, PTL

\* A row is filled or closed only as the broker's order is, however old the copy
\* a handler or the sync saves.
THEOREM NeverInvented == Spec => []NoInventedOutcome
<1>1. IInv => NoInventedOutcome
  BY DEF IInv, Backed, NoInventedOutcome
<1> QED
  BY <1>1, AlwaysIInv, PTL

-----------------------------------------------------------------------------
(* One request after the other.                                             *)

\* One handler at most has an order in its hands.
OneBusy == \A g, h \in Handlers : pc[g] # "idle" /\ pc[h] # "idle" => g = h

\* One key at most is pinned.
OnePin == \A j, k \in Pinned : j = k

\* Between its call of the broker and the end of its request the handler answers for
\* its order.
AnswersFor(h, k) ==
    \/ pc[h] \in {"submit", "save"} /\ key[h] = k
    \/ pc[h] \in {"journal", "settle", "settleFailed"} /\ of[h] = k

\* An order in doubt is pinned, or a handler answers for it.
Covered == \A k \in Keys : InDoubt(k) => k \in Pinned \/ \E h \in Handlers : AnswersFor(h, k)

\* What the rows say between two steps, and that only what landed is journaled
\* or disowned.
RowsAtRest ==
    \A k \in Keys :
        /\ ledger[k].status # "draft"
        /\ ledger[k].status = "open" => k \in Landed
        /\ ledger[k].status = "approved" => \E h \in Handlers : pc[h] \in {"submit", "save"} /\ key[h] = k
        /\ k \in journaled => k \in Landed
        /\ k \in disowned => k \in Landed /\ ledger[k].status \in {"approved", "rejected"}

\* Before its call of the broker no handler retries.
FirstTry == \A h \in Handlers :
    pc[h] \in {"idle", "look", "gates", "om", "existing", "draft"} => ~resubmit[h]

\* What a handler knows at each place of its request.
InStage(h) ==
    /\ pc[h] = "existing" => Pinned \subseteq {key[h]}
    /\ pc[h] = "draft" => Pinned = {} /\ ledger[key[h]] = NoRow
    /\ pc[h] = "reject" => key[h] \notin Pinned
    /\ pc[h] \in {"submit", "save"} =>
         /\ Pinned \subseteq {key[h]}
         /\ ledger[key[h]] = IF resubmit[h] THEN Row("unknown", TRUE) ELSE Row("approved", FALSE)
    /\ pc[h] = "submit" /\ ~resubmit[h] => broker[key[h]] = "none"
    /\ pc[h] = "save" =>
         /\ result[h].status \in {"open", "filled", "unknown", "rejected"}
         /\ result[h].status \in {"open", "filled"} => key[h] \in Landed
         /\ result[h].status = "rejected" =>
              ~resubmit[h] /\ (broker[key[h]] = "none" \/ key[h] \in disowned)
         /\ key[h] \in disowned => result[h].status = "rejected"
    /\ pc[h] \in {"journal", "settle", "settleFailed"} =>
         /\ result[h] = ledger[of[h]]
         /\ Pinned \subseteq {of[h]}
         /\ result[h].status \in {"open", "filled", "unknown", "rejected", "closed"}
         /\ result[h].status = "rejected" => ~InDoubt(of[h])
    /\ pc[h] = "settle" /\ result[h].status \notin {"unknown", "rejected"} => of[h] \in journaled
    /\ pc[h] = "sync" => result[h] = ledger[of[h]] /\ result[h].status = "open"

SerialIInv == OneBusy /\ OnePin /\ Covered /\ RowsAtRest /\ \A h \in Handlers : InStage(h)

\* Nobody else has an order in hand.
Alone(h) == \A g \in Handlers \ {h} : pc[g] = "idle"

\* The handler that takes a step is alone.
LEMMA StepsAlone ==
    ASSUME SerialIInv, NEW h \in Handlers, pc[h] # "idle"
    PROVE  Alone(h)
BY DEF SerialIInv, OneBusy, Alone

\* Steps that touch neither the ledger, the broker nor the journal.
LEMMA QuietSerial ==
    ASSUME IInv, SerialIInv, NEW h \in Handlers, Alone(h), NEW to \in Stages,
           pc' = [pc EXCEPT ![h] = to], UNCHANGED <<ledger, broker, journaled, disowned>>,
           pc[h] \notin {"submit", "save"},
           \A k \in Keys : AnswersFor(h, k) /\ InDoubt(k) => k \in Pinned \/ AnswersFor(h, k)',
           InStage(h)'
    PROVE  SerialIInv'
<1>1. pc \in [Handlers -> Stages]
  BY DEF IInv, TypeOK
<1>2. /\ Pinned' = Pinned /\ Landed' = Landed
      /\ \A k \in Keys : InDoubt(k)' <=> InDoubt(k)
  BY DEF Pinned, Landed, InDoubt
<1>3. OneBusy' /\ OnePin'
  BY <1>1, <1>2 DEF OneBusy, OnePin, Alone, SerialIInv
<1>4. Covered'
  BY <1>1, <1>2 DEF Covered, AnswersFor, Alone, SerialIInv
<1>5. RowsAtRest'
  BY <1>1, <1>2 DEF RowsAtRest, Alone, SerialIInv
<1>6. \A g \in Handlers \ {h} : InStage(g)'
  BY <1>1 DEF InStage, Alone
<1> QED
  BY <1>3, <1>4, <1>5, <1>6 DEF SerialIInv

\* A step that saves one row.
LEMMA SaveSerial ==
    ASSUME IInv, SerialIInv, NEW h \in Handlers, Alone(h), NEW to \in Stages,
           pc' = [pc EXCEPT ![h] = to], UNCHANGED <<broker, journaled, disowned>>,
           NEW k \in Keys, NEW row \in Rows, Save(k, row),
           \A j \in Keys \ {k} : ~AnswersFor(h, j),
           StickyOpen(row) => Pinned \subseteq {k},
           row.status # "draft",
           row.status = "open" => k \in Landed,
           k \in disowned => row.status \in {"approved", "rejected"},
           row.status = "approved" => to \in {"submit", "save"} /\ key'[h] = k,
           InDoubt(k)' => StickyOpen(row) \/ AnswersFor(h, k)',
           InStage(h)'
    PROVE  SerialIInv'
<1>1. pc \in [Handlers -> Stages] /\ ledger' = [ledger EXCEPT ![k] = row] /\ ledger \in [Keys -> Rows]
  BY DEF IInv, TypeOK, Save
<1>2. /\ Landed' = Landed
      /\ \A j \in Keys \ {k} : (InDoubt(j)' <=> InDoubt(j)) /\ (j \in Pinned' <=> j \in Pinned)
      /\ k \in Pinned' <=> StickyOpen(row)
  BY <1>1 DEF Pinned, Landed, InDoubt, StickyOpen
<1>3. OneBusy'
  BY <1>1 DEF OneBusy, Alone, SerialIInv
<1>4. OnePin'
  BY <1>2 DEF OnePin, SerialIInv, Pinned
<1>5. \A g \in Handlers \ {h} : \A j : ~AnswersFor(g, j)
  BY DEF Alone, AnswersFor
<1>6. Covered'
  BY <1>2, <1>5 DEF Covered, SerialIInv
<1>7. RowsAtRest'
  <2>1. \A j \in Keys \ {k} : ledger'[j] = ledger[j] /\ ledger[j].status # "approved"
    BY <1>1, <1>5 DEF RowsAtRest, SerialIInv, AnswersFor
  <2>2. ledger'[k] = row
    BY <1>1
  <2> QED
    BY <1>1, <1>2, <2>1, <2>2 DEF RowsAtRest, SerialIInv
<1>8. \A g \in Handlers \ {h} : InStage(g)'
  BY <1>1 DEF InStage, Alone
<1> QED
  BY <1>3, <1>4, <1>6, <1>7, <1>8 DEF SerialIInv

\* What may be concluded while no handler answers for an order.
LEMMA AtRest ==
    ASSUME IInv, SerialIInv, NEW h \in Handlers, Alone(h), \A k : ~AnswersFor(h, k)
    PROVE  \A k \in Keys :
              /\ InDoubt(k) => k \in Pinned
              /\ ledger[k].status \notin {"approved", "draft"}
<1>1. \A g \in Handlers : \A k : ~AnswersFor(g, k)
  BY DEF Alone, AnswersFor
<1> QED
  BY <1>1 DEF SerialIInv, Covered, RowsAtRest, AnswersFor

\* The steps up to the order manager's answer from the ledger.
LEMMA BeginSerial ==
    ASSUME IInv, SerialIInv, NEW h \in Handlers, \A g \in Handlers : pc[g] = "idle", Begin(h)
    PROVE  SerialIInv'
<1>1. Alone(h) /\ pc[h] = "idle" /\ \A k : ~AnswersFor(h, k)
  BY DEF Alone, AnswersFor
<1>2. pc \in [Handlers -> Stages] /\ {"look", "sync"} \subseteq Stages
  BY DEF IInv, TypeOK, Stages
<1>3. ASSUME NEW k \in Keys, DeskArrive(h, k) \/ WorkerBegin(h, k) PROVE SerialIInv'
  <2>1. pc' = [pc EXCEPT ![h] = "look"] /\ UNCHANGED <<ledger, broker, journaled, disowned>>
    BY <1>3 DEF DeskArrive, WorkerBegin, Transition
  <2>2. InStage(h)'
    BY <1>2, <2>1 DEF InStage
  <2> QED
    BY <1>1, <1>2, <2>1, <2>2, QuietSerial
<1>4. ASSUME NEW k \in Keys, SyncRead(h, k) PROVE SerialIInv'
  <2>1. pc' = [pc EXCEPT ![h] = "sync"] /\ UNCHANGED <<ledger, broker, journaled, disowned>>
    BY <1>4 DEF SyncRead, Transition
  <2>2. result'[h] = ledger[k] /\ of'[h] = k /\ ledger[k].status = "open"
    BY <1>4 DEF SyncRead, Hold, IInv, TypeOK
  <2>3. InStage(h)'
    BY <1>2, <2>1, <2>2 DEF InStage
  <2> QED
    BY <1>1, <1>2, <2>1, <2>3, QuietSerial
<1> QED
  BY <1>3, <1>4 DEF Begin

LEMMA LookAndGatesSerial ==
    ASSUME IInv, SerialIInv, NEW h \in Handlers,
           \/ DeskLook(h) \/ DeskBlind(h) \/ WorkerLook(h) \/ GatesPass(h) \/ SkipBuy(h) \/ GateReject(h)
    PROVE  SerialIInv'
<1>1. pc[h] \in {"look", "gates"}
  BY DEF DeskLook, DeskBlind, WorkerLook, GatesPass, SkipBuy, GateReject, BeginReject, Transition, Return
<1>2. Alone(h) /\ (\A k : ~AnswersFor(h, k)) /\ pc[h] \notin {"submit", "save"}
  BY <1>1, StepsAlone DEF AnswersFor
<1>3. pc \in [Handlers -> Stages] /\ {"gates", "idle", "om", "reject"} \subseteq Stages
  BY DEF IInv, TypeOK, Stages
<1>4. UNCHANGED <<ledger, broker, journaled, disowned>>
  BY DEF DeskLook, DeskBlind, WorkerLook, GatesPass, SkipBuy, GateReject, BeginReject
<1>5. ASSUME NEW to \in {"gates", "idle", "om"}, pc' = [pc EXCEPT ![h] = to] PROVE SerialIInv'
  <2>1. InStage(h)'
    BY <1>3, <1>5 DEF InStage
  <2>2. to \in Stages
    BY <1>3
  <2> QED
    BY <1>2, <1>4, <1>5, <2>1, <2>2, QuietSerial
<1>6. CASE DeskLook(h) \/ WorkerLook(h)
  BY <1>5, <1>6 DEF DeskLook, WorkerLook, Transition
<1>7. CASE DeskBlind(h) \/ SkipBuy(h)
  BY <1>5, <1>7 DEF DeskBlind, SkipBuy, Return, Transition
<1>8. CASE GatesPass(h)
  BY <1>5, <1>8 DEF GatesPass, Transition
<1>9. CASE GateReject(h)
  <2>1. CASE StickyOpen(ledger[key[h]])
    BY <1>5, <1>9, <2>1 DEF GateReject, BeginReject, Return, Transition
  <2>2. CASE ~StickyOpen(ledger[key[h]])
    <3>1. pc' = [pc EXCEPT ![h] = "reject"] /\ UNCHANGED <<key, ledger>>
      BY <1>9, <2>2 DEF GateReject, BeginReject, Transition, locals
    <3>2. key[h] \notin Pinned
      BY <2>2 DEF Pinned
    <3>3. InStage(h)'
      BY <1>3, <3>1, <3>2 DEF InStage, Pinned
    <3>4. "reject" \in Stages
      BY <1>3
    <3> QED
      BY <1>2, <1>4, <3>1, <3>3, <3>4, QuietSerial
  <2> QED
    BY <2>1, <2>2
<1> QED
  BY <1>6, <1>7, <1>8, <1>9

\* A row of another request is taken to the journal.
LEMMA HoldSerial ==
    ASSUME IInv, SerialIInv, NEW h \in Handlers, pc[h] \in {"look", "om", "existing"},
           NEW k \in Keys, Hold(h, k), pc' = [pc EXCEPT ![h] = "journal"],
           UNCHANGED <<ledger, broker, journaled, disowned>>,
           ledger[k].status # "none", Pinned \subseteq {k}
    PROVE  SerialIInv'
<1>1. Alone(h) /\ (\A j : ~AnswersFor(h, j)) /\ pc[h] \notin {"submit", "save"}
  BY StepsAlone DEF AnswersFor
<1>2. pc \in [Handlers -> Stages] /\ "journal" \in Stages
  BY DEF IInv, TypeOK, Stages
<1>3. result'[h] = ledger[k] /\ of'[h] = k
  BY DEF Hold, IInv, TypeOK
<1>4. ledger[k].status \in {"open", "filled", "unknown", "rejected", "closed"}
  <2>1. ledger[k].status \in Statuses
    BY DEF IInv, TypeOK, Rows
  <2> QED
    BY <1>1, <2>1, AtRest DEF Statuses
<1>5. ledger[k].status = "rejected" => ~InDoubt(k)
  BY <1>1, AtRest DEF Pinned, StickyOpen, Venue
<1>6. Pinned' = Pinned /\ (InDoubt(k)' <=> InDoubt(k))
  BY DEF Pinned, InDoubt
<1>7. InStage(h)'
  BY <1>2, <1>3, <1>4, <1>5, <1>6 DEF InStage, InDoubt
<1> QED
  BY <1>1, <1>2, <1>7, QuietSerial

\* The pinned rows the order manager and the Desk find, and the row of the key itself.
LEMMA OmQuietSerial ==
    ASSUME IInv, SerialIInv, NEW h \in Handlers,
           DeskReplay(h) \/ OmBlind(h) \/ OmSticky(h) \/ OmExisting(h) \/ OmFresh(h) \/ OmSafeResubmit(h)
    PROVE  SerialIInv'
<1>1. pc[h] \in {"look", "om", "existing"}
  BY DEF DeskReplay, OmBlind, OmSticky, OmExisting, OmFresh, OmSafeResubmit, Transition
<1>2. Alone(h) /\ (\A k : ~AnswersFor(h, k)) /\ pc[h] \notin {"submit", "save"}
  BY <1>1, StepsAlone DEF AnswersFor
<1>3. pc \in [Handlers -> Stages] /\ {"existing", "draft", "submit"} \subseteq Stages /\ key[h] \in Keys
  BY DEF IInv, TypeOK, Stages
<1>4. UNCHANGED <<ledger, broker, journaled, disowned>>
  BY DEF DeskReplay, OmBlind, OmSticky, OmExisting, OmFresh, OmSafeResubmit
<1>5. Pinned' = Pinned
  BY <1>4 DEF Pinned
<1>6. CASE DeskReplay(h) \/ OmBlind(h)
  <2>1. PICK k \in Pinned : Hold(h, k)
    BY <1>6 DEF DeskReplay, OmBlind
  <2>2. Pinned \subseteq {k}
    BY DEF SerialIInv, OnePin
  <2>3. pc' = [pc EXCEPT ![h] = "journal"]
    BY <1>6 DEF DeskReplay, OmBlind, Transition
  <2> QED
    BY <1>1, <1>4, <2>1, <2>2, <2>3, PinnedRow, HoldSerial
<1>7. CASE OmSticky(h)
  <2>1. pc' = [pc EXCEPT ![h] = "existing"] /\ key' = key
    BY <1>7 DEF OmSticky, Transition, locals
  <2>2. Pinned \subseteq {key[h]}
    BY <1>7 DEF OmSticky, SerialIInv, OnePin
  <2>3. InStage(h)'
    BY <1>3, <1>5, <2>1, <2>2 DEF InStage
  <2> QED
    BY <1>2, <1>3, <1>4, <2>1, <2>3, QuietSerial
<1>8. CASE OmExisting(h)
  <2>1. pc' = [pc EXCEPT ![h] = "journal"] /\ pc[h] = "existing" /\ Hold(h, key[h])
    BY <1>8 DEF OmExisting, Transition
  <2>2. ledger[key[h]].status # "none"
    BY <1>3, <1>8 DEF OmExisting, IInv, Backed
  <2>3. Pinned \subseteq {key[h]}
    BY <2>1 DEF SerialIInv, InStage
  <2> QED
    BY <1>1, <1>3, <1>4, <2>1, <2>2, <2>3, HoldSerial
<1>9. CASE OmFresh(h)
  <2>1. pc' = [pc EXCEPT ![h] = "draft"] /\ pc[h] = "existing" /\ key' = key /\ ledger[key[h]] = NoRow
    BY <1>9 DEF OmFresh, Transition, locals
  <2>2. Pinned = {}
    <3>1. InStage(h)
      BY DEF SerialIInv
    <3>2. key[h] \notin Pinned
      BY <2>1, NoRowFields DEF Pinned, StickyOpen
    <3> QED
      BY <2>1, <3>1, <3>2 DEF InStage
  <2>3. InStage(h)'
    BY <1>3, <1>4, <1>5, <2>1, <2>2 DEF InStage
  <2> QED
    BY <1>2, <1>3, <1>4, <2>1, <2>3, QuietSerial
<1>10. CASE OmSafeResubmit(h)
  <2>1. /\ pc' = [pc EXCEPT ![h] = "submit"] /\ pc[h] = "existing" /\ key' = key
        /\ ledger[key[h]] = Row("unknown", TRUE) /\ resubmit'[h] = TRUE
    BY <1>10 DEF OmSafeResubmit, Transition, IInv, TypeOK
  <2>2. Pinned \subseteq {key[h]}
    BY <2>1 DEF SerialIInv, InStage
  <2>3. InStage(h)'
    BY <1>3, <1>4, <1>5, <2>1, <2>2 DEF InStage
  <2> QED
    BY <1>2, <1>3, <1>4, <2>1, <2>3, QuietSerial
<1> QED
  BY <1>6, <1>7, <1>8, <1>9, <1>10

\* A handler that saves a row of its own key answers for no other.
LEMMA OwnSave ==
    ASSUME IInv, SerialIInv, NEW h \in Handlers, pc[h] \in {"reject", "draft", "save"},
           NEW k \in Keys, k = key[h], NEW row \in Rows, Save(k, row)
    PROVE  /\ Alone(h) /\ \A j \in Keys \ {k} : ~AnswersFor(h, j)
           /\ ledger'[k] = row
           /\ Pinned' = IF StickyOpen(row) THEN Pinned \cup {k} ELSE Pinned \ {k}
BY StepsAlone DEF AnswersFor, Save, Pinned, IInv, TypeOK

\* A rejection and a draft are saved.
LEMMA OmSaveSerial ==
    ASSUME IInv, SerialIInv, FirstTry, NEW h \in Handlers, SaveReject(h) \/ OmSaveDraft(h)
    PROVE  SerialIInv'
<1>1. pc \in [Handlers -> Stages] /\ {"idle", "submit"} \subseteq Stages
  BY DEF IInv, TypeOK, Stages
<1>0. PICK k \in Keys : k = key[h]
  BY DEF IInv, TypeOK
<1>2. CASE SaveReject(h)
  <2>1. PICK row \in Rows : row = Row("rejected", FALSE) /\ row.status = "rejected" /\ ~row.sticky
    BY RowFields DEF Statuses
  <2>2. /\ pc[h] = "reject" /\ pc' = [pc EXCEPT ![h] = "idle"] /\ Save(k, row)
        /\ UNCHANGED <<broker, journaled, disowned>>
    BY <1>0, <1>2, <2>1 DEF SaveReject, Return, Transition
  <2>3. /\ Alone(h) /\ \A j \in Keys \ {k} : ~AnswersFor(h, j)
        /\ ledger'[k] = row
    BY <1>0, <2>2, OwnSave
  <2>4. ~InDoubt(k)
    <3>1. k \notin Pinned
      BY <1>0, <2>2 DEF SerialIInv, InStage
    <3>2. \A j : ~AnswersFor(h, j)
      BY <2>2 DEF AnswersFor
    <3> QED
      BY <2>3, <3>1, <3>2, AtRest
  <2>5. ~InDoubt(k)'
    BY <2>1, <2>2, <2>3, <2>4 DEF InDoubt
  <2>6. ~StickyOpen(row)
    BY <2>1 DEF StickyOpen
  <2>7. InStage(h)'
    BY <1>1, <2>2 DEF InStage
  <2> QED
    BY <1>1, <2>1, <2>2, <2>3, <2>5, <2>6, <2>7, SaveSerial
<1>3. CASE OmSaveDraft(h)
  <2>1. PICK row \in Rows : row = Row("approved", FALSE) /\ row.status = "approved" /\ ~row.sticky
    BY RowFields DEF Statuses
  <2>2. /\ pc[h] = "draft" /\ pc' = [pc EXCEPT ![h] = "submit"] /\ Save(k, row)
        /\ UNCHANGED <<broker, journaled, disowned, key, resubmit, result, of>>
    BY <1>0, <1>3, <2>1 DEF OmSaveDraft, Transition, locals
  <2>3. /\ Alone(h) /\ \A j \in Keys \ {k} : ~AnswersFor(h, j)
        /\ ledger'[k] = row
        /\ Pinned' = IF StickyOpen(row) THEN Pinned \cup {k} ELSE Pinned \ {k}
    BY <1>0, <2>2, OwnSave
  <2>4. Pinned = {} /\ ledger[k] = NoRow
    BY <1>0, <2>2 DEF SerialIInv, InStage
  <2>5. broker[k] = "none"
    BY <2>4, NoRowFields DEF IInv
  <2>6. ~StickyOpen(row)
    BY <2>1 DEF StickyOpen
  <2>7. AnswersFor(h, k)'
    BY <1>0, <1>1, <2>2 DEF AnswersFor
  <2>8. ~resubmit[h]
    BY <2>2 DEF FirstTry
  <2>9. InStage(h)'
    BY <1>0, <1>1, <2>1, <2>2, <2>3, <2>4, <2>5, <2>6, <2>8 DEF InStage
  <2>10. key'[h] = k
    BY <1>0, <2>2
  <2> QED
    BY <1>1, <2>1, <2>2, <2>3, <2>6, <2>7, <2>9, <2>10, SaveSerial
<1> QED
  BY <1>2, <1>3

\* The broker is called: an order lands, or none does and the answer says so or not.
LEMMA OmSubmitSerial ==
    ASSUME IInv, SerialIInv, "unmapped" \notin Answers, NEW h \in Handlers, OmSubmit(h)
    PROVE  SerialIInv'
<1>1. PICK k \in Keys : k = key[h]
  BY DEF IInv, TypeOK
<1>2. /\ pc[h] = "submit" /\ pc' = [pc EXCEPT ![h] = "save"]
      /\ UNCHANGED <<ledger, journaled, key, resubmit>>
      /\ of' = [of EXCEPT ![h] = key[h]]
  BY DEF OmSubmit, Transition
<1>3. PICK answer \in Answers :
         /\ \/ /\ broker[k] = "none" /\ answer # "refused"
               /\ broker' = [broker EXCEPT ![k] = IF answer = "filled" THEN "filled" ELSE "open"]
            \/ /\ answer \in {"unknown", "refused", "aborted"}
               /\ UNCHANGED broker
         /\ result' = [result EXCEPT ![h] = Answered(h, answer)]
         /\ disowned' = IF answer = "aborted" /\ ~resubmit[h] /\ broker'[k] # "none"
                        THEN disowned \cup {k} ELSE disowned
  BY <1>1 DEF OmSubmit
<1>4. Alone(h) /\ \A j \in Keys \ {k} : ~AnswersFor(h, j)
  BY <1>1, <1>2, StepsAlone DEF AnswersFor
<1>5. pc \in [Handlers -> Stages] /\ broker \in [Keys -> {"none", "open", "filled", "closed"}]
      /\ of \in [Handlers -> Keys] /\ result \in [Handlers -> Rows] /\ resubmit[h] \in BOOLEAN
  BY DEF IInv, TypeOK
<1>6. Pinned' = Pinned /\ Landed \subseteq Landed'
      /\ \A j \in Keys \ {k} : InDoubt(j)' <=> InDoubt(j)
  BY <1>2, <1>3, <1>5 DEF Pinned, Landed, InDoubt
<1>7. AnswersFor(h, k)'
  BY <1>1, <1>2, <1>5 DEF AnswersFor
<1>8. OneBusy' /\ OnePin'
  BY <1>2, <1>4, <1>5, <1>6 DEF OneBusy, OnePin, Alone, SerialIInv
<1>9. Covered'
  <2>1. \A j \in Keys \ {k} : InDoubt(j)' => j \in Pinned'
    BY <1>4, <1>6 DEF Covered, SerialIInv, Alone, AnswersFor
  <2> QED
    BY <1>7, <2>1 DEF Covered
<1>12. /\ Pinned \subseteq {k}
       /\ ledger[k] = IF resubmit[h] THEN Row("unknown", TRUE) ELSE Row("approved", FALSE)
       /\ ~resubmit[h] => broker[k] = "none"
  BY <1>1, <1>2 DEF SerialIInv, InStage
<1>18. k \notin disowned /\ (k \in disowned' => answer = "aborted" /\ ~resubmit[h])
  <2>1. k \in disowned => broker[k] # "none" /\ ledger[k].status # "unknown"
    BY DEF SerialIInv, RowsAtRest, Landed
  <2>2. Row("unknown", TRUE).status = "unknown"
    BY DEF Row
  <2> QED
    BY <1>3, <1>12, <2>1, <2>2
<1>10. RowsAtRest'
  <2>1. \A j \in Keys \ {k} : ledger[j].status # "approved"
    BY <1>4 DEF RowsAtRest, SerialIInv, AnswersFor, Alone
  <2>2. pc'[h] = "save" /\ key'[h] = k
    BY <1>1, <1>2, <1>5
  <2>3. \A j \in Keys : j \in disowned' => j \in Landed' /\ ledger[j].status \in {"approved", "rejected"}
    <3>1. \A j \in Keys : j \in disowned => j \in Landed /\ ledger[j].status \in {"approved", "rejected"}
      BY DEF RowsAtRest, SerialIInv
    <3>2. k \in disowned' => k \in Landed' /\ ledger[k] = Row("approved", FALSE)
      BY <1>3, <1>12, <1>18 DEF Landed
    <3>3. Row("approved", FALSE).status = "approved"
      BY DEF Row
    <3> QED
      BY <1>3, <1>6, <3>1, <3>2, <3>3
  <2> QED
    BY <1>2, <1>6, <2>1, <2>2, <2>3 DEF RowsAtRest, SerialIInv
<1>11. \A g \in Handlers \ {h} : InStage(g)'
  BY <1>2, <1>4, <1>5 DEF InStage, Alone
<1>13. result'[h] = Answered(h, answer)
  BY <1>3, <1>5
<1>14. /\ result'[h].status \in {"open", "filled", "unknown", "rejected"}
       /\ result'[h].status \in {"open", "filled"} => answer \in {"accepted", "filled"}
       /\ result'[h].status = "rejected" <=> ~resubmit[h] /\ answer \in {"refused", "aborted"}
  <2>1. answer \in {"accepted", "filled", "unknown", "refused", "aborted"}
    BY AnswerAssumption
  <2>2. {"open", "filled", "unknown", "rejected"} \subseteq Statuses
    BY DEF Statuses
  <2>3. \A st \in Statuses, b \in BOOLEAN : Row(st, b).status = st
    BY RowFields
  <2>4. CASE answer = "accepted"
    BY <1>5, <1>13, <2>2, <2>3, <2>4 DEF Answered
  <2>5. CASE answer = "filled"
    BY <1>5, <1>13, <2>2, <2>3, <2>5 DEF Answered
  <2>6. CASE answer = "unknown"
    BY <1>5, <1>13, <2>2, <2>3, <2>6 DEF Answered
  <2>7. CASE answer \in {"refused", "aborted"}
    <3>1. result'[h] = IF resubmit[h] THEN Row("unknown", TRUE) ELSE Row("rejected", FALSE)
      BY <1>13, <2>7 DEF Answered
    <3> QED
      BY <1>5, <2>2, <2>3, <2>7, <3>1
  <2> QED
    BY <2>1, <2>4, <2>5, <2>6, <2>7
<1>15. answer \in {"accepted", "filled"} => k \in Landed'
  BY <1>3, <1>5 DEF Landed
<1>16. answer \in {"refused", "aborted"} /\ ~resubmit[h] => broker'[k] = "none" \/ k \in disowned'
  BY <1>3, <1>12
<1>17. InStage(h)'
  <2>1. pc'[h] = "save" /\ key'[h] = k /\ resubmit' = resubmit /\ ledger' = ledger
    BY <1>1, <1>2, <1>5
  <2> QED
    BY <1>6, <1>12, <1>14, <1>15, <1>16, <1>18, <2>1 DEF InStage
<1> QED
  BY <1>8, <1>9, <1>10, <1>11, <1>17 DEF SerialIInv

\* The order manager saves what it made of the answer.
LEMMA OmSaveResultSerial ==
    ASSUME IInv, SerialIInv, NEW h \in Handlers, OmSaveResult(h)
    PROVE  SerialIInv'
<1>1. PICK k \in Keys : k = key[h]
  BY DEF IInv, TypeOK
<1>2. PICK row \in Rows : row = result[h]
  BY DEF IInv, TypeOK
<1>3. /\ pc[h] = "save" /\ pc' = [pc EXCEPT ![h] = "journal"] /\ Save(k, row)
      /\ UNCHANGED <<broker, journaled, disowned, key, resubmit, result, of>>
  BY <1>1, <1>2 DEF OmSaveResult, Transition, locals
<1>4. /\ Alone(h) /\ \A j \in Keys \ {k} : ~AnswersFor(h, j)
      /\ ledger'[k] = row
      /\ Pinned' = IF StickyOpen(row) THEN Pinned \cup {k} ELSE Pinned \ {k}
  BY <1>1, <1>3, OwnSave
<1>5. pc \in [Handlers -> Stages] /\ "journal" \in Stages
  BY DEF IInv, TypeOK, Stages
<1>6. /\ Pinned \subseteq {k}
      /\ row.status \in {"open", "filled", "unknown", "rejected"}
      /\ row.status \in {"open", "filled"} => k \in Landed
      /\ row.status = "rejected" => broker[k] = "none" \/ k \in disowned
      /\ k \in disowned => row.status = "rejected"
  BY <1>1, <1>2, <1>3 DEF SerialIInv, InStage
<1>7. of[h] = k
  BY <1>1, <1>3 DEF IInv, InHand
<1>8. AnswersFor(h, k)'
  BY <1>3, <1>5, <1>7 DEF AnswersFor
<1>9. row.status = "rejected" => ~InDoubt(k)'
  BY <1>3, <1>4, <1>6 DEF InDoubt
<1>10. InStage(h)'
  <2>1. pc'[h] = "journal" /\ result'[h] = row /\ of'[h] = k /\ of'[h] = of[h]
    BY <1>2, <1>3, <1>5, <1>7
  <2>2. (row.status = "rejected") => ~InDoubt(of[h])'
    BY <1>3, <1>7, <1>9
  <2> QED
    BY <1>2, <1>3, <1>4, <1>6, <1>9, <2>1, <2>2 DEF InStage, InDoubt
<1> QED
  BY <1>3, <1>4, <1>5, <1>6, <1>8, <1>10, SaveSerial

\* Only an order the broker has is journaled.
LEMMA JournalSerial ==
    ASSUME IInv, SerialIInv, NEW h \in Handlers, Journal(h)
    PROVE  SerialIInv'
<1>1. PICK k \in Keys : k = of[h]
  BY DEF IInv, TypeOK
<1>2. pc[h] = "journal" /\ UNCHANGED <<ledger, broker, disowned, locals>>
  BY DEF Journal, Transition
<1>3. pc \in [Handlers -> Stages] /\ {"settle", "settleFailed"} \subseteq Stages
  BY DEF IInv, TypeOK, Stages
<1>4. /\ Alone(h) /\ AnswersFor(h, k) /\ \A j \in Keys \ {k} : ~AnswersFor(h, j)
  BY <1>1, <1>2, StepsAlone DEF AnswersFor
<1>5. /\ result[h] = ledger[k] /\ Pinned \subseteq {k}
      /\ result[h].status \in {"open", "filled", "unknown", "rejected", "closed"}
      /\ result[h].status = "rejected" => ~InDoubt(k)
  BY <1>1, <1>2 DEF SerialIInv, InStage
<1>6. Pinned' = Pinned /\ Landed' = Landed /\ key' = key /\ of' = of /\ result' = result
  BY <1>2 DEF Pinned, Landed, locals
<1>7. CASE pc' = [pc EXCEPT ![h] = "settleFailed"] /\ UNCHANGED journaled
  <2>1. AnswersFor(h, k)' /\ (InDoubt(k)' <=> InDoubt(k))
    BY <1>1, <1>2, <1>3, <1>6, <1>7 DEF AnswersFor, InDoubt
  <2>2. InStage(h)'
    BY <1>1, <1>2, <1>3, <1>5, <1>6, <1>7, <2>1 DEF InStage, InDoubt
  <2>3. \A j \in Keys : AnswersFor(h, j) => AnswersFor(h, j)'
    BY <1>4, <2>1
  <2> QED
    BY <1>2, <1>3, <1>4, <1>7, <2>2, <2>3, QuietSerial
<1>8. CASE /\ pc' = [pc EXCEPT ![h] = "settle"]
           /\ journaled' = IF result[h].status \in {"unknown", "rejected"}
                           THEN journaled ELSE journaled \cup {k}
  <2>1. /\ \A j \in Keys : InDoubt(j)' => InDoubt(j)
        /\ AnswersFor(h, k)'
    BY <1>1, <1>2, <1>3, <1>6, <1>8 DEF InDoubt, AnswersFor
  <2>2. result[h].status \notin {"unknown", "rejected"} => k \in Landed
    <3>1. Backed(ledger[k], k)
      BY DEF IInv
    <3> QED
      BY <1>5, <3>1 DEF Backed, Landed
  <2>3. OneBusy' /\ OnePin'
    BY <1>3, <1>4, <1>6, <1>8 DEF OneBusy, OnePin, Alone, SerialIInv
  <2>4. Covered'
    BY <1>4, <1>6, <2>1 DEF Covered, SerialIInv, Alone, AnswersFor
  <2>5. RowsAtRest'
    <3>1. \A j \in Keys : j \in journaled' => j \in Landed
      BY <1>8, <2>2 DEF RowsAtRest, SerialIInv
    <3>2. \A j \in Keys : ledger[j].status # "approved"
      BY <1>2, <1>4 DEF RowsAtRest, SerialIInv, Alone
    <3> QED
      BY <1>2, <1>6, <3>1, <3>2 DEF RowsAtRest, SerialIInv
  <2>6. \A g \in Handlers \ {h} : InStage(g)'
    BY <1>3, <1>4, <1>8 DEF InStage, Alone
  <2>7. InStage(h)'
    <3>1. result[h].status = "rejected" => ~InDoubt(of[h])'
      BY <1>1, <1>5, <1>6, <2>1 DEF InDoubt
    <3> QED
      BY <1>1, <1>2, <1>3, <1>5, <1>6, <1>8, <3>1 DEF InStage, InDoubt
  <2> QED
    BY <2>3, <2>4, <2>5, <2>6, <2>7 DEF SerialIInv
<1> QED
  BY <1>1, <1>2, <1>7, <1>8 DEF Journal, Transition

\* The handler pins its order, takes the pin away, or does neither.
LEMMA SettleSerial ==
    ASSUME IInv, SerialIInv, NEW h \in Handlers, Settle(h)
    PROVE  SerialIInv'
<1>1. PICK k \in Keys : k = of[h]
  BY DEF IInv, TypeOK
<1>2. /\ pc[h] \in {"settle", "settleFailed"} /\ pc' = [pc EXCEPT ![h] = "idle"]
      /\ UNCHANGED <<broker, journaled, disowned>>
  BY DEF Settle, Return, Transition
<1>3. pc \in [Handlers -> Stages] /\ "idle" \in Stages /\ result[h] \in Rows
  BY DEF IInv, TypeOK, Stages
<1>4. Alone(h) /\ AnswersFor(h, k) /\ \A j \in Keys \ {k} : ~AnswersFor(h, j)
  BY <1>1, <1>2, StepsAlone DEF AnswersFor
<1>5. /\ result[h] = ledger[k] /\ Pinned \subseteq {k}
      /\ result[h].status \in {"open", "filled", "unknown", "rejected", "closed"}
      /\ result[h].status = "rejected" => ~InDoubt(k)
      /\ pc[h] = "settle" /\ result[h].status \notin {"unknown", "rejected"} => k \in journaled
  BY <1>1, <1>2 DEF SerialIInv, InStage
<1>6. InStage(h)'
  BY <1>2, <1>3 DEF InStage
<1>7. result[h].status \in Statuses /\ result[h].sticky \in BOOLEAN
  BY <1>3 DEF Rows
<1>8. result[h].status = "open" => k \in Landed
  BY <1>5 DEF SerialIInv, RowsAtRest
<1>9. ASSUME NEW b \in BOOLEAN, Save(k, Row(result[h].status, b)), b \/ ~InDoubt(k) \/ result[h].status = "rejected"
      PROVE  SerialIInv'
  <2>1. PICK row \in Rows : row = Row(result[h].status, b) /\ row.status = result[h].status /\ row.sticky = b
    BY <1>7, RowFields
  <2>2. Save(k, row)
    BY <1>9, <2>1
  <2>3. InDoubt(k)' <=> InDoubt(k)
    BY <1>2, <1>5, <2>1, <2>2 DEF InDoubt, Save, IInv, TypeOK
  <2>4. InDoubt(k) => StickyOpen(row)
    <3>1. SUFFICES ASSUME InDoubt(k) PROVE StickyOpen(row)
      OBVIOUS
    <3>2. row.sticky /\ row.status \in {"open", "filled", "unknown", "closed"}
      BY <1>5, <1>9, <2>1, <3>1
    <3>3. row.status = "closed" => broker[k] = "closed"
      BY <1>5, <2>1 DEF IInv, Backed
    <3> QED
      BY <2>1, <3>1, <3>2, <3>3, <1>5 DEF StickyOpen, Venue, InDoubt
  <2>5. k \in disowned => row.status \in {"approved", "rejected"}
    BY <1>5, <2>1 DEF SerialIInv, RowsAtRest
  <2> QED
    BY <1>2, <1>3, <1>4, <1>5, <1>6, <1>8, <2>1, <2>2, <2>3, <2>4, <2>5, SaveSerial
<1>10. CASE MustPin(h)
  <2>1. Save(k, Row(result[h].status, TRUE))
    BY <1>1, <1>10 DEF Settle
  <2> QED
    BY <1>9, <2>1
<1>11. CASE ~MustPin(h) /\ MayClear(h)
  <2>1. Save(k, Row(result[h].status, FALSE))
    BY <1>1, <1>11 DEF Settle
  <2>2. result[h].status \notin {"unknown"} /\ pc[h] = "settle"
    BY <1>11 DEF MayClear, Venue
  <2>3. ~InDoubt(k) \/ result[h].status = "rejected"
    BY <1>5, <2>2 DEF InDoubt
  <2> QED
    BY <1>9, <2>1, <2>3
<1>12. CASE ~MustPin(h) /\ ~MayClear(h)
  <2>1. UNCHANGED ledger
    BY <1>12 DEF Settle
  <2>2. InDoubt(k) => k \in Pinned
    <3>1. SUFFICES ASSUME InDoubt(k) PROVE k \in Pinned
      OBVIOUS
    <3>2. pc[h] = "settle"
      BY <1>2, <1>5, <1>12, <3>1 DEF MustPin
    <3>3. ledger[k].status = "unknown"
      BY <1>5, <3>1, <3>2 DEF InDoubt
    <3>4. ledger[k].sticky
      BY <3>3 DEF IInv, Backed
    <3> QED
      BY <3>3, <3>4 DEF Pinned, StickyOpen
  <2>3. \A j \in Keys : AnswersFor(h, j) /\ InDoubt(j) => j \in Pinned
    BY <1>4, <2>2
  <2> QED
    BY <1>2, <1>3, <1>4, <1>6, <2>1, <2>3, QuietSerial
<1> QED
  BY <1>10, <1>11, <1>12

\* The sync saves the status the broker gives.
LEMMA SyncWriteSerial ==
    ASSUME IInv, SerialIInv, "unmapped" \notin Answers, NEW h \in Handlers, SyncWrite(h)
    PROVE  SerialIInv'
<1>1. PICK k \in Keys : k = of[h]
  BY DEF IInv, TypeOK
<1>2. /\ pc[h] = "sync" /\ pc' = [pc EXCEPT ![h] = "idle"]
      /\ UNCHANGED <<broker, journaled, disowned>>
  BY DEF SyncWrite, Return, Transition
<1>3. pc \in [Handlers -> Stages] /\ "idle" \in Stages /\ result[h] \in Rows
  BY DEF IInv, TypeOK, Stages
<1>4. Alone(h) /\ \A j : ~AnswersFor(h, j)
  BY <1>2, StepsAlone DEF AnswersFor
<1>5. result[h] = ledger[k] /\ result[h].status = "open" /\ broker[k] \in {"open", "filled", "closed"}
  <2>1. result[h] = ledger[k] /\ result[h].status = "open"
    BY <1>1, <1>2 DEF SerialIInv, InStage
  <2>2. broker[k] # "none"
    BY <1>1, <1>2 DEF IInv, InHand
  <2> QED
    BY <2>1, <2>2 DEF IInv, TypeOK
<1>6. InStage(h)'
  BY <1>2, <1>3 DEF InStage
<1>7. CASE UNCHANGED ledger
  BY <1>2, <1>3, <1>4, <1>6, <1>7, QuietSerial
<1>8. CASE broker[k] # "open" /\ Save(k, Row(broker[k], result[h].sticky))
  <2>1. broker[k] \in Statuses /\ result[h].sticky \in BOOLEAN
    BY <1>3, <1>5 DEF Statuses, Rows
  <2>2. PICK row \in Rows : row = Row(broker[k], result[h].sticky) /\ row.status = broker[k] /\ row.sticky = result[h].sticky
    BY <2>1, RowFields
  <2>3. Save(k, row)
    BY <1>8, <2>2
  <2>4. InDoubt(k)' => InDoubt(k) /\ broker[k] = "filled"
    BY <1>2, <1>5, <1>8, <2>2, <2>3 DEF InDoubt, Save, IInv, TypeOK
  <2>5. InDoubt(k) => ledger[k].sticky
    BY <1>4, AtRest DEF Pinned, StickyOpen
  <2>6. InDoubt(k)' => StickyOpen(row)
    BY <1>5, <2>2, <2>4, <2>5 DEF StickyOpen, Venue
  <2>7. StickyOpen(row) => Pinned \subseteq {k}
    <3>1. row.sticky => k \in Pinned
      BY <1>5, <2>2 DEF Pinned, StickyOpen, Venue
    <3> QED
      BY <3>1 DEF SerialIInv, OnePin, StickyOpen
  <2>8. k \notin disowned
    BY <1>5 DEF SerialIInv, RowsAtRest
  <2> QED
    BY <1>2, <1>3, <1>4, <1>5, <1>6, <1>8, <2>2, <2>3, <2>6, <2>7, <2>8, SaveSerial
<1> QED
  BY <1>1, <1>7, <1>8 DEF SyncWrite

LEMMA BrokerMovesSerial ==
    ASSUME IInv, SerialIInv, NEW k \in Keys, BrokerMoves(k)
    PROVE  SerialIInv'
<1>1. UNCHANGED <<ledger, journaled, disowned, pc, key, resubmit, replay, result, of>>
  BY DEF BrokerMoves, locals
<1>2. PICK s \in {"filled", "closed"} : broker[k] = "open" /\ broker' = [broker EXCEPT ![k] = s]
  BY DEF BrokerMoves
<1>3. broker \in [Keys -> {"none", "open", "filled", "closed"}]
  BY DEF IInv, TypeOK
<1>4. /\ Pinned' = Pinned /\ Landed' = Landed
      /\ \A j \in Keys : InDoubt(j)' => InDoubt(j)
      /\ \A j \in Keys : broker[j] = "none" => broker'[j] = "none"
  BY <1>1, <1>2, <1>3 DEF Pinned, Landed, InDoubt
<1>5. OneBusy' /\ OnePin'
  BY <1>1, <1>4 DEF OneBusy, OnePin, SerialIInv
<1>6. Covered'
  BY <1>1, <1>4 DEF Covered, AnswersFor, SerialIInv
<1>7. RowsAtRest'
  BY <1>1, <1>4 DEF RowsAtRest, SerialIInv
<1>8. ASSUME NEW h \in Handlers PROVE InStage(h)'
  <2>1. PICK i \in Keys, j \in Keys : i = key[h] /\ j = of[h]
    BY DEF IInv, TypeOK
  <2>2. key'[h] = i /\ of'[h] = j /\ InStage(h)
    BY <1>1, <2>1 DEF SerialIInv
  <2>3. result[h].status = "rejected" /\ pc[h] \in {"journal", "settle", "settleFailed"} => ~InDoubt(of[h])'
    BY <1>1, <1>4, <2>1, <2>2 DEF InStage, InDoubt
  <2>4. CASE pc[h] \in {"submit", "save"}
    BY <1>1, <1>4, <2>1, <2>2, <2>4 DEF InStage
  <2>5. CASE pc[h] \notin {"submit", "save"}
    BY <1>1, <1>4, <2>1, <2>2, <2>3, <2>5 DEF InStage
  <2> QED
    BY <2>4, <2>5
<1> QED
  BY <1>5, <1>6, <1>7, <1>8 DEF SerialIInv

LEMMA FirstTryKept ==
    ASSUME IInv, FirstTry, [Next]_vars
    PROVE  FirstTry'
<1>1. pc \in [Handlers -> Stages] /\ resubmit \in [Handlers -> BOOLEAN]
  BY DEF IInv, TypeOK
<1>2. ASSUME NEW h \in Handlers, NEW from, Return(h, from) PROVE FirstTry'
  BY <1>1, <1>2 DEF FirstTry, Return, Transition
<1>3. ASSUME NEW h \in Handlers, NEW from, NEW to, Transition(h, from, to), UNCHANGED resubmit,
             to \in {"idle", "look", "gates", "om", "existing", "draft"} => from \in {"idle", "look", "gates", "om", "existing"}
      PROVE  FirstTry'
  <2>1. \A g \in Handlers \ {h} : pc'[g] = pc[g]
    BY <1>1, <1>3 DEF Transition
  <2>2. pc[h] = from /\ pc'[h] = to
    BY <1>1, <1>3 DEF Transition
  <2> QED
    BY <1>3, <2>1, <2>2 DEF FirstTry
<1>4. ASSUME NEW h \in Handlers, Begin(h) PROVE FirstTry'
  BY <1>3, <1>4 DEF Begin, DeskArrive, WorkerBegin, SyncRead
<1>5. ASSUME NEW h \in Handlers, Proceed(h) PROVE FirstTry'
  <2>1. CASE DeskLook(h) \/ DeskReplay(h) \/ WorkerLook(h) \/ GatesPass(h)
    BY <1>3, <2>1 DEF DeskLook, DeskReplay, WorkerLook, GatesPass, locals
  <2>2. CASE DeskBlind(h) \/ SkipBuy(h) \/ SaveReject(h) \/ Settle(h) \/ SyncWrite(h)
    BY <1>2, <2>2 DEF DeskBlind, SkipBuy, SaveReject, Settle, SyncWrite
  <2>3. CASE GateReject(h)
    BY <1>2, <1>3, <2>3 DEF GateReject, BeginReject, locals
  <2>4. CASE OmBlind(h) \/ OmSticky(h) \/ OmExisting(h) \/ OmFresh(h) \/ OmSaveDraft(h) \/ OmSubmit(h) \/ OmSaveResult(h)
    BY <1>3, <2>4 DEF OmBlind, OmSticky, OmExisting, OmFresh, OmSaveDraft, OmSubmit, OmSaveResult, locals
  <2>5. CASE OmSafeResubmit(h)
    BY <1>1, <2>5 DEF OmSafeResubmit, FirstTry, Transition
  <2>6. CASE Journal(h)
    BY <1>3, <2>6 DEF Journal, locals
  <2> QED
    BY <1>5, <2>1, <2>2, <2>3, <2>4, <2>5, <2>6 DEF Proceed
<1>6. ASSUME NEW h \in Handlers, Fault(h) PROVE FirstTry'
  BY <1>2, <1>3, <1>6 DEF Fault, Abandon, SellFails, BeginReject, locals
<1>7. ASSUME NEW k \in Keys, BrokerMoves(k) PROVE FirstTry'
  BY <1>7 DEF BrokerMoves, locals, FirstTry
<1>8. CASE UNCHANGED vars
  BY <1>8 DEF vars, FirstTry
<1> QED
  BY <1>4, <1>5, <1>6, <1>7, <1>8 DEF Next, SteadyNext

\* The steps of a run in which no request overlaps another are steps of the
\* specification.
LEMMA SerialIsNext == [SerialNext]_vars => [Next]_vars
BY DEF SerialNext, Next, SteadyNext

LEMMA InitSerial == Init => SerialIInv /\ FirstTry
<1> SUFFICES ASSUME Init PROVE SerialIInv /\ FirstTry
  OBVIOUS
<1>1. /\ \A k \in Keys : ledger[k].status = "none" /\ ~ledger[k].sticky /\ broker[k] = "none"
      /\ \A h \in Handlers : pc[h] = "idle" /\ ~resubmit[h]
      /\ journaled = {} /\ disowned = {}
  BY NoRowFields DEF Init
<1>2. Pinned = {} /\ \A k \in Keys : ~InDoubt(k)
  BY <1>1 DEF Pinned, StickyOpen, InDoubt
<1>3. OneBusy /\ OnePin /\ Covered
  BY <1>1, <1>2 DEF OneBusy, OnePin, Covered
<1>4. RowsAtRest
  BY <1>1 DEF RowsAtRest
<1>5. \A h \in Handlers : InStage(h)
  BY <1>1 DEF InStage
<1> QED
  BY <1>1, <1>3, <1>4, <1>5 DEF SerialIInv, FirstTry

LEMMA SerialKept ==
    ASSUME IInv, SerialIInv, FirstTry, "unmapped" \notin Answers, [SerialNext]_vars
    PROVE  SerialIInv'
<1>1. ASSUME NEW h \in Handlers, \A g \in Handlers : pc[g] = "idle", Begin(h) PROVE SerialIInv'
  BY <1>1, BeginSerial
<1>2. ASSUME NEW h \in Handlers, Proceed(h) PROVE SerialIInv'
  BY <1>2, LookAndGatesSerial, OmQuietSerial, OmSaveSerial, OmSubmitSerial,
     OmSaveResultSerial, JournalSerial, SettleSerial, SyncWriteSerial DEF Proceed
<1>3. ASSUME NEW k \in Keys, BrokerMoves(k) PROVE SerialIInv'
  BY <1>3, BrokerMovesSerial
<1>4. CASE UNCHANGED vars
  <2>1. /\ Pinned' = Pinned /\ Landed' = Landed
        /\ \A k \in Keys : InDoubt(k)' <=> InDoubt(k)
    BY <1>4 DEF vars, Pinned, Landed, InDoubt
  <2>2. OneBusy' /\ OnePin' /\ RowsAtRest'
    BY <1>4, <2>1 DEF vars, OneBusy, OnePin, RowsAtRest, SerialIInv
  <2>3. Covered'
    BY <1>4, <2>1 DEF vars, Covered, AnswersFor, SerialIInv
  <2>4. \A h \in Handlers : InStage(h)'
    <3> TAKE h \in Handlers
    <3>1. InStage(h)
      BY DEF SerialIInv
    <3>2. /\ Pinned' = Pinned /\ Landed' = Landed
          /\ InDoubt(of[h])' <=> InDoubt(of[h])
      BY <1>4, <2>1 DEF vars, InDoubt
    <3> QED
      BY <1>4, <3>1, <3>2 DEF vars, InStage
  <2> QED
    BY <2>2, <2>3, <2>4 DEF SerialIInv
<1> QED
  BY <1>1, <1>2, <1>3, <1>4 DEF SerialNext

LEMMA AlwaysSerial ==
    ASSUME "unmapped" \notin Answers
    PROVE  SerialSpec => [](IInv /\ SerialIInv /\ FirstTry)
<1>1. Init => IInv /\ SerialIInv /\ FirstTry
  BY InitIInv, InitSerial
<1>2. IInv /\ SerialIInv /\ FirstTry /\ [SerialNext]_vars => (IInv /\ SerialIInv /\ FirstTry)'
  BY SerialIsNext, NextKeepsIInv, SerialKept, FirstTryKept
<1> QED
  BY <1>1, <1>2, PTL DEF SerialSpec

\* While nothing is under way an order in doubt is pinned, and one key at most is.
LEMMA DoubtIsOwn ==
    ASSUME IInv, SerialIInv, NEW h \in Handlers, Alone(h), NEW k \in Keys,
           Pinned \subseteq {k}, \A j \in Keys \ {k} : ~AnswersFor(h, j)
    PROVE  {j \in Keys : InDoubt(j)} \subseteq {k}
<1>1. \A g \in Handlers \ {h} : \A j : ~AnswersFor(g, j)
  BY DEF Alone, AnswersFor
<1> QED
  BY <1>1 DEF Covered, SerialIInv

\* The orders in doubt, PlaceOnce's second variable.
Doubts == {k \in Keys : InDoubt(k)}

\* The orders the broker has, but for those taken for refused, its first one.
Owned == Landed \ disowned

\* A step that changes no more than whether one order, which the broker has when it
\* leaves doubt, is in doubt.
LEMMA SettleStep ==
    ASSUME NEW k \in Keys, Owned' = Owned, \A j \in Keys \ {k} : InDoubt(j)' <=> InDoubt(j),
           InDoubt(k)' => InDoubt(k), InDoubt(k) /\ ~InDoubt(k)' => k \in Owned
    PROVE  [Promise!Next]_(Promise!vars)
<1>1. CASE InDoubt(k)' <=> InDoubt(k)
  <2>1. Doubts' = Doubts
    BY <1>1 DEF Doubts
  <2> QED
    BY <2>1 DEF Doubts, Owned, Promise!vars
<1>2. CASE InDoubt(k) /\ ~InDoubt(k)'
  <2>1. Doubts' = Doubts \ {k} /\ k \in Owned
    BY <1>2 DEF Doubts
  <2> QED
    BY <2>1 DEF Doubts, Owned, Promise!Next, Promise!Settle
<1> QED
  BY <1>1, <1>2

\* The handler that answers for an order is the only one that may have one in doubt.
LEMMA OnlyOwnDoubt ==
    ASSUME IInv, SerialIInv, NEW h \in Handlers, pc[h] # "idle", NEW k \in Keys,
           AnswersFor(h, k), Pinned \subseteq {k}
    PROVE  Alone(h) /\ \A j \in Keys \ {k} : ~InDoubt(j) /\ ~AnswersFor(h, j)
<1>1. Alone(h)
  BY StepsAlone
<1>2. \A j \in Keys \ {k} : ~AnswersFor(h, j)
  BY DEF AnswersFor
<1> QED
  BY <1>1, <1>2, DoubtIsOwn

LEMMA SubmitRefines ==
    ASSUME IInv, SerialIInv, "unmapped" \notin Answers, NEW h \in Handlers, OmSubmit(h)
    PROVE  [Promise!Next]_(Promise!vars)
<1>1. PICK k \in Keys : k = key[h]
  BY DEF IInv, TypeOK
<1>2. pc[h] = "submit" /\ UNCHANGED <<ledger, journaled>>
  BY DEF OmSubmit, Transition
<1>3. /\ broker \in [Keys -> {"none", "open", "filled", "closed"}]
      /\ disowned' \in {disowned, disowned \cup {k}}
  BY <1>1 DEF OmSubmit, IInv, TypeOK
<1>4. AnswersFor(h, k) /\ Pinned \subseteq {k}
  BY <1>1, <1>2 DEF AnswersFor, SerialIInv, InStage
<1>5. \A j \in Keys \ {k} : ~InDoubt(j)
  BY <1>2, <1>4, OnlyOwnDoubt
<1>6. /\ ledger[k] = IF resubmit[h] THEN Row("unknown", TRUE) ELSE Row("approved", FALSE)
      /\ ~resubmit[h] => broker[k] = "none"
  BY <1>1, <1>2 DEF SerialIInv, InStage
<1>7. k \notin disowned
  <2>1. Row("unknown", TRUE).status = "unknown"
    BY DEF Row
  <2> QED
    BY <1>6, <2>1 DEF SerialIInv, RowsAtRest, Landed
<1>8. CASE UNCHANGED <<broker, disowned>>
  BY <1>1, <1>2, <1>8, SettleStep DEF InDoubt, Landed, Owned
<1>9. CASE /\ broker[k] = "none" /\ \E s \in {"open", "filled"} : broker' = [broker EXCEPT ![k] = s]
  <2>1. Landed' = Landed \cup {k} /\ k \notin Landed
    BY <1>3, <1>9 DEF Landed
  <2>2. \A j \in Keys \ {k} : ~InDoubt(j)'
    BY <1>2, <1>3, <1>5, <1>9 DEF InDoubt
  <2>3. CASE k \notin disowned'
    <3>1. Owned' = Owned \cup {k}
      BY <1>3, <2>1, <2>3 DEF Owned
    <3>2. k \notin journaled
      BY <1>9 DEF SerialIInv, RowsAtRest, Landed
    <3>3. InDoubt(k)'
      BY <1>2, <1>3, <1>9, <2>3, <3>2 DEF InDoubt
    <3>4. Doubts \subseteq {k} /\ Doubts' = {k}
      BY <1>5, <2>2, <3>3 DEF Doubts
    <3> QED
      BY <3>1, <3>4 DEF Doubts, Owned, Promise!Next, Promise!Land
  <2>4. CASE k \in disowned'
    <3>1. Owned' = Owned
      BY <1>3, <2>1, <2>4 DEF Owned
    <3>2. ~resubmit[h]
      BY <1>1, <1>7, <2>4 DEF OmSubmit
    <3>3. Row("approved", FALSE).status = "approved"
      BY DEF Row
    <3>4. ~InDoubt(k) /\ ~InDoubt(k)'
      BY <1>2, <1>6, <1>9, <2>4, <3>2, <3>3 DEF InDoubt
    <3> QED
      BY <1>5, <2>2, <3>1, <3>4, SettleStep
  <2> QED
    BY <2>3, <2>4
<1>10. UNCHANGED broker => UNCHANGED disowned
  BY <1>1, <1>6 DEF OmSubmit
<1> QED
  BY <1>1, <1>8, <1>9, <1>10 DEF OmSubmit

LEMMA SaveResultRefines ==
    ASSUME IInv, SerialIInv, NEW h \in Handlers, OmSaveResult(h)
    PROVE  [Promise!Next]_(Promise!vars)
<1>1. PICK k \in Keys : k = key[h]
  BY DEF IInv, TypeOK
<1>2. /\ pc[h] = "save" /\ ledger' = [ledger EXCEPT ![k] = result[h]]
      /\ UNCHANGED <<broker, journaled, disowned>>
  BY <1>1 DEF OmSaveResult, Transition, Save
<1>3. ledger \in [Keys -> Rows]
  BY DEF IInv, TypeOK
<1>4. AnswersFor(h, k) /\ Pinned \subseteq {k}
  BY <1>1, <1>2 DEF AnswersFor, SerialIInv, InStage
<1>5. \A j \in Keys \ {k} : ~InDoubt(j)
  BY <1>2, <1>4, OnlyOwnDoubt
<1>6. \A j \in Keys \ {k} : InDoubt(j)' <=> InDoubt(j)
  BY <1>2, <1>3 DEF InDoubt
<1>7. Owned' = Owned
  BY <1>2 DEF Landed, Owned
<1>8. CASE InDoubt(k)'
  <2>1. Doubts \subseteq {k} /\ Doubts' = {k}
    BY <1>5, <1>6, <1>8 DEF Doubts
  <2> QED
    BY <1>7, <2>1 DEF Doubts, Owned, Promise!Next, Promise!Doubt
<1>9. CASE ~InDoubt(k)'
  <2>1. InDoubt(k) => k \in Owned
    <3>1. /\ result[h].status \in {"open", "filled", "unknown", "rejected"}
          /\ result[h].status \in {"open", "filled"} => k \in Landed
          /\ result[h].status = "rejected" => ~resubmit[h] /\ (broker[k] = "none" \/ k \in disowned)
          /\ k \in disowned => result[h].status = "rejected"
          /\ ~resubmit[h] => ledger[k] = Row("approved", FALSE)
      <4>1. InStage(h) /\ pc[h] = "save"
        BY <1>2 DEF SerialIInv
      <4>2. /\ result[h].status \in {"open", "filled", "unknown", "rejected"}
            /\ result[h].status \in {"open", "filled"} => key[h] \in Landed
            /\ result[h].status = "rejected" => ~resubmit[h] /\ (broker[key[h]] = "none" \/ key[h] \in disowned)
            /\ key[h] \in disowned => result[h].status = "rejected"
            /\ ~resubmit[h] => ledger[key[h]] = Row("approved", FALSE)
        BY <4>1 DEF InStage
      <4> QED
        BY <1>1, <4>2
    <3>2. result[h].status # "unknown"
      BY <1>2, <1>3, <1>9 DEF InDoubt
    <3>3. result[h].status = "rejected" => ~InDoubt(k)
      <4>1. Row("approved", FALSE).status = "approved"
        BY DEF Row
      <4> QED
        BY <3>1, <4>1 DEF InDoubt
    <3> QED
      BY <3>1, <3>2, <3>3 DEF Owned
  <2> QED
    BY <1>6, <1>7, <1>9, <2>1, SettleStep
<1> QED
  BY <1>8, <1>9

\* Every other step leaves the orders in doubt as they are, or lets one out that the
\* broker has.
LEMMA JournalRefines ==
    ASSUME IInv, SerialIInv, NEW h \in Handlers, Journal(h)
    PROVE  [Promise!Next]_(Promise!vars)
<1>1. PICK k \in Keys : k = of[h]
  BY DEF IInv, TypeOK
<1>2. pc[h] = "journal" /\ UNCHANGED <<ledger, broker, disowned>>
  BY DEF Journal, Transition
<1>3. /\ \A j \in Keys \ {k} : j \in journaled' <=> j \in journaled
      /\ k \in journaled => k \in journaled'
      /\ k \in journaled' => k \in journaled \/ result[h].status \notin {"unknown", "rejected"}
  BY <1>1 DEF Journal
<1>4. InDoubt(k) /\ ~InDoubt(k)' => k \in Owned
  BY <1>2, <1>3 DEF InDoubt, Landed, Owned
<1> QED
  BY <1>2, <1>3, <1>4, SettleStep DEF InDoubt, Landed, Owned

LEMMA SaveRefines ==
    ASSUME IInv, SerialIInv, "unmapped" \notin Answers, NEW h \in Handlers,
           SaveReject(h) \/ OmSaveDraft(h) \/ Settle(h) \/ SyncWrite(h)
    PROVE  [Promise!Next]_(Promise!vars)
<1>1. ledger \in [Keys -> Rows] /\ UNCHANGED <<broker, journaled, disowned>> /\ result[h] \in Rows
  BY DEF IInv, TypeOK, SaveReject, OmSaveDraft, Settle, SyncWrite
<1>2. ASSUME NEW k \in Keys, NEW s \in Statuses, NEW b \in BOOLEAN, Save(k, Row(s, b)),
             s = "unknown" <=> ledger[k].status = "unknown"
      PROVE  [Promise!Next]_(Promise!vars)
  <2>1. \A j \in Keys : ledger'[j].status = "unknown" <=> ledger[j].status = "unknown"
    BY <1>1, <1>2, RowFields DEF Save
  <2> QED
    BY <1>1, <1>2, <2>1, SettleStep DEF InDoubt, Landed, Owned
<1>3. CASE UNCHANGED ledger
  <2>1. PICK k \in Keys : k = key[h]
    BY DEF IInv, TypeOK
  <2> QED
    BY <1>1, <1>3, <2>1, SettleStep DEF InDoubt, Landed, Owned
<1>4. {"rejected", "approved", "filled", "closed"} \subseteq Statuses /\ {TRUE, FALSE} \subseteq BOOLEAN
  BY DEF Statuses
<1>5. PICK k \in Keys, j \in Keys : k = key[h] /\ j = of[h]
  BY DEF IInv, TypeOK
<1>6. CASE SaveReject(h)
  <2>1. pc[h] = "reject" /\ Save(k, Row("rejected", FALSE))
    BY <1>5, <1>6 DEF SaveReject, Return, Transition
  <2>2. k \notin Pinned
    BY <1>5, <2>1 DEF SerialIInv, InStage
  <2>3. ledger[k].status # "unknown"
    BY <2>2 DEF Pinned, StickyOpen, IInv, Backed
  <2> QED
    BY <1>2, <1>4, <2>1, <2>3
<1>7. CASE OmSaveDraft(h)
  <2>1. pc[h] = "draft" /\ Save(k, Row("approved", FALSE))
    BY <1>5, <1>7 DEF OmSaveDraft, Transition
  <2>2. ledger[k].status # "unknown"
    BY <1>5, <2>1, NoRowFields DEF SerialIInv, InStage
  <2> QED
    BY <1>2, <1>4, <2>1, <2>2
<1>8. CASE Settle(h)
  <2>1. result[h] = ledger[j]
    BY <1>5, <1>8 DEF Settle, Return, Transition, SerialIInv, InStage
  <2>2. result[h].status \in Statuses
    BY <1>1 DEF Rows
  <2>3. UNCHANGED ledger \/ \E b \in BOOLEAN : Save(j, Row(result[h].status, b))
    BY <1>5, <1>8 DEF Settle
  <2> QED
    BY <1>2, <1>3, <2>1, <2>2, <2>3
<1>9. CASE SyncWrite(h)
  <2>1. result[h] = ledger[j] /\ result[h].status = "open"
    BY <1>5, <1>9 DEF SyncWrite, Return, Transition, SerialIInv, InStage
  <2>2. broker[j] # "none" /\ pc[h] = "sync"
    BY <1>5, <1>9 DEF SyncWrite, Return, Transition, IInv, InHand
  <2>3. UNCHANGED ledger \/ (broker[j] \in {"filled", "closed"} /\ Save(j, Row(broker[j], result[h].sticky)))
    BY <1>5, <1>9, <2>2 DEF SyncWrite, IInv, TypeOK
  <2>4. result[h].sticky \in BOOLEAN
    BY <1>1 DEF Rows
  <2> QED
    BY <1>2, <1>3, <1>4, <2>1, <2>3, <2>4
<1> QED
  BY <1>6, <1>7, <1>8, <1>9

LEMMA BrokerMovesRefines ==
    ASSUME IInv, NEW k \in Keys, BrokerMoves(k)
    PROVE  [Promise!Next]_(Promise!vars)
<1>1. UNCHANGED <<ledger, journaled, disowned>>
  BY DEF BrokerMoves
<1>2. PICK s \in {"filled", "closed"} : broker[k] = "open" /\ broker' = [broker EXCEPT ![k] = s]
  BY DEF BrokerMoves
<1>3. broker \in [Keys -> {"none", "open", "filled", "closed"}]
  BY DEF IInv, TypeOK
<1>4. Landed' = Landed /\ k \in Landed
  BY <1>2, <1>3 DEF Landed
<1>5. /\ \A j \in Keys \ {k} : InDoubt(j)' <=> InDoubt(j)
      /\ InDoubt(k)' => InDoubt(k)
      /\ InDoubt(k) /\ ~InDoubt(k)' => k \in Owned
  BY <1>1, <1>2, <1>3, <1>4 DEF InDoubt, Owned
<1>6. Owned' = Owned
  BY <1>1, <1>4 DEF Owned
<1> QED
  BY <1>5, <1>6, SettleStep

LEMMA QuietRefines ==
    ASSUME UNCHANGED <<ledger, broker, journaled, disowned>>
    PROVE  [Promise!Next]_(Promise!vars)
<1>1. Landed' = Landed /\ Doubts' = Doubts
  BY DEF Landed, Doubts, InDoubt
<1> QED
  BY <1>1 DEF Doubts, Owned, Promise!vars

LEMMA StepRefines ==
    ASSUME IInv, SerialIInv, "unmapped" \notin Answers, [SerialNext]_vars
    PROVE  [Promise!Next]_(Promise!vars)
<1>1. ASSUME NEW h \in Handlers, Begin(h) PROVE [Promise!Next]_(Promise!vars)
  BY <1>1, QuietRefines DEF Begin, DeskArrive, WorkerBegin, SyncRead
<1>2. ASSUME NEW h \in Handlers, Proceed(h) PROVE [Promise!Next]_(Promise!vars)
  <2>1. CASE \/ DeskLook(h) \/ DeskReplay(h) \/ DeskBlind(h) \/ WorkerLook(h)
             \/ GatesPass(h) \/ SkipBuy(h) \/ GateReject(h)
    BY <2>1, QuietRefines DEF DeskLook, DeskReplay, DeskBlind, WorkerLook, GatesPass, SkipBuy,
       GateReject, BeginReject
  <2>2. CASE OmBlind(h) \/ OmSticky(h) \/ OmExisting(h) \/ OmFresh(h) \/ OmSafeResubmit(h)
    BY <2>2, QuietRefines DEF OmBlind, OmSticky, OmExisting, OmFresh, OmSafeResubmit
  <2> QED
    BY <1>2, <2>1, <2>2, SaveRefines, SubmitRefines, SaveResultRefines, JournalRefines DEF Proceed
<1>3. ASSUME NEW k \in Keys, BrokerMoves(k) PROVE [Promise!Next]_(Promise!vars)
  BY <1>3, BrokerMovesRefines
<1>4. CASE UNCHANGED vars
  BY <1>4, QuietRefines DEF vars
<1> QED
  BY <1>1, <1>2, <1>3, <1>4 DEF SerialNext

\* While no request overlaps another and the broker's statuses are all known, the
\* order path implements PlaceOnce: an order lands only while no other is in doubt,
\* and only an order the broker has ever leaves doubt.
THEOREM OrdersPlacedOnce ==
    ASSUME "unmapped" \notin Answers
    PROVE  SerialSpec => PlacesOnce
<1>1. Init => Promise!Init
  <2> SUFFICES ASSUME Init PROVE Promise!Init
    OBVIOUS
  <2>1. \A k \in Keys : ledger[k].status = "none" /\ broker[k] = "none"
    BY NoRowFields DEF Init
  <2>2. Landed = {} /\ Doubts = {}
    BY <2>1 DEF Landed, Doubts, InDoubt
  <2> QED
    BY <2>2 DEF Doubts, Owned, Promise!Init
<1>2. IInv /\ SerialIInv /\ FirstTry /\ [SerialNext]_vars => [Promise!Next]_(Promise!vars)
  BY StepRefines
<1>3. SerialSpec => [](IInv /\ SerialIInv /\ FirstTry)
  BY AlwaysSerial
<1> QED
  BY <1>1, <1>2, <1>3, PTL DEF SerialSpec, PlacesOnce, Promise!Spec

LEMMA UnknownStepSerial ==
    ASSUME IInv, SerialIInv, [SerialNext]_vars, NEW k \in Keys, ledger[k].status = "unknown"
    PROVE  ledger'[k].status \in {"unknown", "open", "filled"}
<1>0. ledger \in [Keys -> Rows] /\ ledger[k].sticky /\ k \in Pinned
  BY DEF IInv, TypeOK, Backed, Pinned, StickyOpen
<1>1. CASE UNCHANGED ledger
  BY <1>1
<1>2. ASSUME NEW j \in Keys, NEW s, NEW b, Save(j, Row(s, b)),
             j = k => s \in {"unknown", "open", "filled"}
      PROVE  ledger'[k].status \in {"unknown", "open", "filled"}
  <2>1. CASE j = k
    <3>1. ledger'[k] = Row(s, b) /\ s \in {"unknown", "open", "filled"}
      BY <1>0, <1>2, <2>1 DEF Save
    <3> QED
      BY <3>1 DEF Row
  <2>2. CASE j # k
    BY <1>0, <1>2, <2>2 DEF Save
  <2> QED
    BY <2>1, <2>2
<1>3. ASSUME NEW h \in Handlers, SaveReject(h) PROVE ledger'[k].status \in {"unknown", "open", "filled"}
  <2>1. PICK j \in Keys : j = key[h]
    BY DEF IInv, TypeOK
  <2>2. pc[h] = "reject" /\ Save(j, Row("rejected", FALSE))
    BY <1>3, <2>1 DEF SaveReject, Return, Transition
  <2>3. j # k
    <3>1. InStage(h)
      BY DEF SerialIInv
    <3> QED
      BY <1>0, <2>1, <2>2, <3>1 DEF InStage
  <2> QED
    BY <1>2, <2>2, <2>3
<1>4. ASSUME NEW h \in Handlers, OmSaveDraft(h) PROVE ledger'[k].status \in {"unknown", "open", "filled"}
  <2>1. PICK j \in Keys : j = key[h]
    BY DEF IInv, TypeOK
  <2>2. pc[h] = "draft" /\ Save(j, Row("approved", FALSE))
    BY <1>4, <2>1 DEF OmSaveDraft, Transition
  <2>3. j # k
    BY <2>1, <2>2, NoRowFields DEF SerialIInv, InStage
  <2> QED
    BY <1>2, <2>2, <2>3
<1>5. ASSUME NEW h \in Handlers, OmSaveResult(h) PROVE ledger'[k].status \in {"unknown", "open", "filled"}
  <2>1. PICK j \in Keys : j = key[h]
    BY DEF IInv, TypeOK
  <2>2. pc[h] = "save" /\ ledger' = [ledger EXCEPT ![j] = result[h]]
    BY <1>5, <2>1 DEF OmSaveResult, Transition, Save
  <2>3. CASE j # k
    BY <1>0, <2>2, <2>3
  <2>4. CASE j = k
    <3>1. resubmit[h]
      <4>1. Row("approved", FALSE).status = "approved"
        BY DEF Row
      <4>2. ~resubmit[h] => ledger[j] = Row("approved", FALSE)
        BY <2>1, <2>2 DEF SerialIInv, InStage
      <4> QED
        BY <2>4, <4>1, <4>2
    <3>2. result[h].status \in {"unknown", "open", "filled"}
      <4>1. /\ result[h].status \in {"open", "filled", "unknown", "rejected"}
            /\ result[h].status = "rejected" => ~resubmit[h]
        BY <2>2 DEF SerialIInv, InStage
      <4> QED
        BY <3>1, <4>1
    <3> QED
      BY <1>0, <2>2, <2>4, <3>2
  <2> QED
    BY <2>3, <2>4
<1>6. ASSUME NEW h \in Handlers, Settle(h) PROVE ledger'[k].status \in {"unknown", "open", "filled"}
  <2>1. PICK j \in Keys : j = of[h]
    BY DEF IInv, TypeOK
  <2>2. result[h] = ledger[j]
    BY <1>6, <2>1 DEF Settle, Return, Transition, SerialIInv, InStage
  <2>3. UNCHANGED ledger \/ \E b \in BOOLEAN : Save(j, Row(result[h].status, b))
    BY <1>6, <2>1 DEF Settle
  <2> QED
    BY <1>1, <1>2, <2>2, <2>3
<1>7. ASSUME NEW h \in Handlers, SyncWrite(h) PROVE ledger'[k].status \in {"unknown", "open", "filled"}
  <2>1. PICK j \in Keys : j = of[h]
    BY DEF IInv, TypeOK
  <2>2. result[h] = ledger[j] /\ result[h].status = "open"
    BY <1>7, <2>1 DEF SyncWrite, Return, Transition, SerialIInv, InStage
  <2>3. UNCHANGED ledger \/ \E s, b : Save(j, Row(s, b))
    BY <1>7, <2>1 DEF SyncWrite
  <2> QED
    BY <1>1, <1>2, <2>2, <2>3
<1>8. ASSUME NEW h \in Handlers, Proceed(h) PROVE ledger'[k].status \in {"unknown", "open", "filled"}
  <2>1. CASE \/ DeskLook(h) \/ DeskReplay(h) \/ DeskBlind(h) \/ WorkerLook(h)
             \/ GatesPass(h) \/ SkipBuy(h) \/ GateReject(h)
    BY <1>1, <2>1 DEF DeskLook, DeskReplay, DeskBlind, WorkerLook, GatesPass, SkipBuy,
       GateReject, BeginReject
  <2>2. CASE OmBlind(h) \/ OmSticky(h) \/ OmExisting(h) \/ OmFresh(h) \/ OmSafeResubmit(h)
    BY <1>1, <2>2 DEF OmBlind, OmSticky, OmExisting, OmFresh, OmSafeResubmit
  <2>3. CASE OmSubmit(h) \/ Journal(h)
    BY <1>1, <2>3 DEF OmSubmit, Journal
  <2> QED
    BY <1>3, <1>4, <1>5, <1>6, <1>7, <1>8, <2>1, <2>2, <2>3 DEF Proceed
<1>9. ASSUME NEW h \in Handlers, Begin(h) PROVE UNCHANGED ledger
  BY <1>9 DEF Begin, DeskArrive, WorkerBegin, SyncRead
<1> QED
  BY <1>1, <1>8, <1>9 DEF SerialNext, BrokerMoves, vars

\* Of one request after the other, an unknown acceptance ends only in an accept of
\* the same key.
THEOREM UnknownEndsInAccept ==
    ASSUME "unmapped" \notin Answers
    PROVE  SerialSpec => UnknownEndsAtVenue
<1>1. IInv /\ SerialIInv /\ FirstTry /\ [SerialNext]_vars
        => [\A k \in Keys : ledger[k].status = "unknown"
                              => ledger'[k].status \in {"unknown", "open", "filled"}]_vars
  BY UnknownStepSerial
<1>2. SerialSpec => [](IInv /\ SerialIInv /\ FirstTry)
  BY AlwaysSerial
<1> QED
  BY <1>1, <1>2, PTL DEF SerialSpec, UnknownEndsAtVenue
=============================================================================
