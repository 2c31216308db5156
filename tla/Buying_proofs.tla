---------------------------- MODULE Buying_proofs ----------------------------
(***************************************************************************)
(* What limits the buying, for every set of symbols and requests, every    *)
(* window of the ledger and every cap: the worker's cycle under the kill   *)
(* switch and against its own books, then the daily limit that worker and  *)
(* Desk share.  The two components have no variable in common.             *)
(***************************************************************************)
EXTENDS WorkerCycle, DailyOrders, FiniteSetTheorems, TLAPS

-----------------------------------------------------------------------------
(* The worker's cycle.                                                      *)

\* The ledger does not show that this buy still counts.
Overlooked(o) ==
    \/ Unsettled(o) /\ ~Visible(o)
    \/ row[o] = "ended" /\ venue[o] # "ended"

\* No buy of the symbol that the ledger shows works or has been filled and held.
Free(s) ==
    \/ s \in crossed
    \/ /\ \A o \in BuysOf(s) : venue[o] = "working" => Overlooked(o)
       /\ s \in position => \E o \in BuysOf(s) : venue[o] = "filled" /\ Overlooked(o)

\* The symbols the entry pass has still to look at are free, and so is the one it buys.
Entering ==
    /\ at \in {"entries", "submit"} => \A s \in todo : Free(s)
    /\ at = "submit" => cur \in Symbols \ todo /\ Free(cur)

\* A position that is not in the snapshot was filled since the rows were synced.
Explained ==
    at = "exits" => \A s \in position \ held :
        \E o \in BuysOf(s) : venue[o] = "filled" /\ row[o] # "filled"

\* What the ledger and the venue can say of one order.
RowsMatch ==
    \A o \in Orders :
        /\ Known(o) => sym[o] \in Symbols
        /\ venue[o] # "none" => Known(o)
        /\ row[o] = "open" => venue[o] # "none"
        /\ venue[o] = "working" => row[o] # "filled"

\* No entry was made since a kill that the entry under way did not meet.
LastEntry == at = "submit" \/ ~killed => late = 0

\* A cycle that began after the kill has read it.
Halted == killed /\ ~grace /\ Midway => isHalted /\ at # "submit"

CycleIInv ==
    /\ CycleTypeOK
    /\ KillStopsEntries /\ LastEntry /\ Halted
    /\ RowsMatch /\ Explained /\ Entering

\* What placing a buy of s under the free number o does to the books.
Added(s, o) ==
    /\ New(o)
    /\ sym' = [sym EXCEPT ![o] = s]
    /\ newer' = Older({o}, 1)
    /\ \E v \in {"none", "working", "ended"}, r \in {"open", "unknown", "ended"} :
          /\ venue' = [venue EXCEPT ![o] = v]
          /\ row' = [row EXCEPT ![o] = r]
          /\ r = "open" => v = "working"
    /\ pinned' \in SUBSET (pinned \cup {o})
    /\ UNCHANGED sellPin

\* What sending the key of order o again does.
Resent(o) ==
    /\ \/ /\ row[o] = "unknown" /\ venue[o] = "none"
          /\ venue' = [venue EXCEPT ![o] = "working"]
          /\ row' \in {row, [row EXCEPT ![o] = "open"]}
       \/ UNCHANGED <<venue, row>>
    /\ newer' \in {newer, Older({o}, 0)}
    /\ pinned' \in SUBSET (pinned \cup {o})
    /\ UNCHANGED <<sym, sellPin>>

-----------------------------------------------------------------------------
(* The operators.                                                           *)

\* The smaller of two numbers.
LEMMA LeastOfTwo ==
    ASSUME NEW a \in Nat, NEW b \in Nat
    PROVE  Least({a, b}) \in {a, b} /\ Least({a, b}) <= a /\ Least({a, b}) <= b
<1>1. \E n \in {a, b} : \A m \in {a, b} : n <= m
  <2>1. CASE a <= b
    BY <2>1
  <2>2. CASE ~(a <= b)
    BY <2>2
  <2> QED
    BY <2>1, <2>2
<1> DEFINE l == CHOOSE n \in {a, b} : \A m \in {a, b} : n <= m
<1>2. l \in {a, b} /\ \A m \in {a, b} : l <= m
  BY <1>1
<1>3. Least({a, b}) = l
  BY DEF Least
<1> HIDE DEF l
<1> QED
  BY <1>2, <1>3

\* A set of orders can be counted.
LEMMA OrderSets ==
    ASSUME NEW S \in SUBSET Orders
    PROVE  Cardinality(S) \in Nat
<1>1. IsFiniteSet(Orders)
  BY BoundAssumption, FS_Interval DEF Orders
<1> QED
  BY <1>1, FS_Subset, FS_CardinalityType

\* Ages stay within the window, and what was out of it stays out unless saved again.
LEMMA OlderWorks ==
    ASSUME newer \in [Orders -> 0..Window], NEW os \in SUBSET Orders, NEW n \in Nat
    PROVE  /\ Older(os, n) \in [Orders -> 0..Window]
           /\ \A o \in Orders \ os : newer[o] = Window => Older(os, n)[o] = Window
<1> DEFINE past(o) == newer[o] + n + Cardinality({p \in os : newer[p] > newer[o]})
<1>1. \A o \in Orders : /\ Least({Window, past(o)}) \in 0..Window
                        /\ newer[o] = Window => Least({Window, past(o)}) = Window
  <2> TAKE o \in Orders
  <2>1. Cardinality({p \in os : newer[p] > newer[o]}) \in Nat
    BY OrderSets
  <2>2. past(o) \in Nat /\ past(o) >= newer[o]
    BY <2>1
  <2> HIDE DEF past
  <2> QED
    BY <2>2, LeastOfTwo, BoundAssumption
<1> HIDE DEF past
<1>2. Older(os, n) = [o \in Orders |-> IF o \in os THEN 0
                                       ELSE IF Unsettled(o) THEN Least({Window, past(o)})
                                       ELSE newer[o]]
  BY DEF Older, past
<1> QED
  BY <1>1, <1>2, BoundAssumption

\* Both ways of placing a buy.
LEMMA PlaceAdds ==
    ASSUME CycleTypeOK, NEW s, Place(s) \/ PlaceUnjournaled(s)
    PROVE  /\ \E o \in Orders : Added(s, o)
           /\ faults' \in 0..MaxFaults
<1>1. \E o \in Orders : Added(s, o)
  <2>1. ASSUME NEW journaled \in BOOLEAN, Placed(s, journaled)
        PROVE  \E o \in Orders : Added(s, o)
    BY <2>1 DEF Placed, Added, RowOf
  <2>2. ASSUME PlacedUnknown(s)
        PROVE  \E o \in Orders : Added(s, o)
    BY <2>2 DEF PlacedUnknown, Added
  <2> QED
    BY <2>1, <2>2 DEF Place, PlaceUnjournaled
<1>2. faults' \in 0..MaxFaults
  <2>1. UNCHANGED faults \/ Fault
    BY DEF Place, PlaceUnjournaled
  <2> QED
    BY <2>1, BoundAssumption DEF Fault, CycleTypeOK
<1> QED
  BY <1>1, <1>2

\* Both ways of repeating one.
LEMMA ReplayResends ==
    ASSUME CycleTypeOK, NEW o \in Orders, NEW journaled \in BOOLEAN, Replay(o, journaled)
    PROVE  Resent(o) /\ faults' \in 0..MaxFaults
<1>1. \/ /\ row[o] = "unknown" /\ venue[o] = "none"
         /\ venue' = [venue EXCEPT ![o] = "working"]
         /\ row' \in {row, [row EXCEPT ![o] = "open"]}
      \/ UNCHANGED <<venue, row>>
  <2>1. venue[o] # "none" => [venue EXCEPT ![o] = venue[o]] = venue
    BY DEF CycleTypeOK
  <2> QED
    BY <2>1 DEF Replay
<1>2. newer' \in {newer, Older({o}, 0)} /\ pinned' \in SUBSET (pinned \cup {o})
      /\ UNCHANGED <<sym, sellPin>>
  BY DEF Replay
<1>3. faults' \in 0..MaxFaults
  BY BoundAssumption DEF Replay, Fault, CycleTypeOK
<1> QED
  BY <1>1, <1>2, <1>3 DEF Resent

\* The state of the books after either has the right type.
LEMMA BooksTyped ==
    ASSUME CycleTypeOK, NEW s \in Symbols, NEW o \in Orders, Added(s, o) \/ Resent(o)
    PROVE  /\ sym' \in [Orders -> Symbols \cup {Nothing}]
           /\ venue' \in [Orders -> {"none", "working", "filled", "ended"}]
           /\ row' \in [Orders -> {"none", "open", "unknown", "filled", "ended"}]
           /\ newer' \in [Orders -> 0..Window]
           /\ pinned' \subseteq Orders
           /\ sellPin' \subseteq Symbols
<1>1. newer' \in [Orders -> 0..Window]
  <2>1. newer \in [Orders -> 0..Window] /\ {o} \in SUBSET Orders
    BY DEF CycleTypeOK
  <2>2. Older({o}, 0) \in [Orders -> 0..Window] /\ Older({o}, 1) \in [Orders -> 0..Window]
    BY <2>1, OlderWorks
  <2>3. newer' = newer \/ newer' = Older({o}, 0) \/ newer' = Older({o}, 1)
    BY DEF Added, Resent
  <2> QED
    BY <2>1, <2>2, <2>3
<1>2. CASE Added(s, o)
  BY <1>1, <1>2 DEF CycleTypeOK, Added
<1>3. CASE Resent(o)
  BY <1>1, <1>3 DEF CycleTypeOK, Resent
<1> QED
  BY <1>2, <1>3

-----------------------------------------------------------------------------
(* Types.                                                                   *)

\* The faults stay within their bound.
LEMMA FaultsTyped ==
    ASSUME CycleTypeOK, Fault \/ UNCHANGED faults
    PROVE  faults' \in 0..MaxFaults
BY BoundAssumption DEF Fault, CycleTypeOK

\* Rows of other orders are saved.
LEMMA AgesTyped ==
    ASSUME CycleTypeOK, NEW os \in SUBSET Orders, NEW n \in Nat
    PROVE  Older(os, n) \in [Orders -> 0..Window]
BY OlderWorks DEF CycleTypeOK

\* The steps of the venue, the market and the Desk keep the types.
LEMMA EnvironmentTypes == CycleTypeOK /\ RowsMatch /\ Environment => CycleTypeOK'
<1> SUFFICES ASSUME CycleTypeOK, RowsMatch, Environment PROVE CycleTypeOK'
  OBVIOUS
<1> USE DEF venueVars, ledgerVars, killVars, cycleVars
<1>1. ASSUME NEW o \in Orders, Fill(o) \/ Lapse(o) PROVE CycleTypeOK'
  <2>1. CASE Fill(o)
    <3>1. sym[o] \in Symbols
      BY <2>1 DEF Fill, RowsMatch
    <3> QED
      BY <2>1, <3>1 DEF Fill, CycleTypeOK
  <2>2. CASE Lapse(o)
    BY <2>2 DEF Lapse, CycleTypeOK
  <2> QED
    BY <1>1, <2>1, <2>2
<1>2. ASSUME NEW o \in Orders, DeskRepeat(o) PROVE CycleTypeOK'
  <2>1. sym[o] \in Symbols /\ crossed' \subseteq Symbols
    BY <1>2 DEF DeskRepeat, RowsMatch, Crosses, CycleTypeOK
  <2>2. Resent(o) /\ faults' \in 0..MaxFaults
    <3>1. CASE row[o] = "unknown"
      BY <1>2, <3>1, ReplayResends DEF DeskRepeat
    <3>2. CASE row[o] # "unknown"
      BY <1>2, <3>2 DEF DeskRepeat, Resent, CycleTypeOK
    <3> QED
      BY <3>1, <3>2
  <2>3. UNCHANGED <<venueVars, killVars, cycleVars, refused>>
    BY <1>2 DEF DeskRepeat
  <2> QED
    BY <2>1, <2>2, <2>3, BooksTyped DEF CycleTypeOK
<1>3. ASSUME NEW o \in Orders, DeskOverwrites(o) PROVE CycleTypeOK'
  BY <1>3, AgesTyped DEF DeskOverwrites, CycleTypeOK
<1>4. ASSUME NEW s \in Symbols, Close(s) \/ SellLapse(s) \/ Breach(s) PROVE CycleTypeOK'
  BY <1>4 DEF Close, SellLapse, Breach, CycleTypeOK
<1>5. ASSUME NEW s \in Symbols, DeskBuy(s) PROVE CycleTypeOK'
  <2>1. PICK o \in Orders : Added(s, o)
    BY <1>5, PlaceAdds DEF DeskBuy
  <2>2. crossed' \subseteq Symbols /\ faults' \in 0..MaxFaults
    BY <1>5, PlaceAdds DEF DeskBuy, Crosses, CycleTypeOK
  <2>3. UNCHANGED <<venueVars, killVars, cycleVars, refused>>
    BY <1>5 DEF DeskBuy
  <2> QED
    BY <2>1, <2>2, <2>3, BooksTyped DEF CycleTypeOK
<1>6. CASE DeskSaves
  BY <1>6, AgesTyped DEF DeskSaves, CycleTypeOK
<1>7. CASE Kill \/ Unkill
  <2>1. grace' \in BOOLEAN
    BY <1>7, Zenon DEF Kill, Unkill, Midway
  <2>2. killed' \in BOOLEAN /\ late' = 0
        /\ UNCHANGED <<venueVars, ledgerVars, cycleVars, crossed, refused, faults>>
    BY <1>7, Zenon DEF Kill, Unkill
  <2> QED
    BY <2>1, <2>2, BoundAssumption DEF CycleTypeOK
<1> QED
  BY <1>1, <1>2, <1>3, <1>4, <1>5, <1>6, <1>7 DEF Environment

\* An entry places a buy of the symbol, or repeats the pinned one; it is the first since
\* the kill.
LEMMA EntryMade ==
    ASSUME CycleTypeOK, Entering, LastEntry, Buy \/ BuyUnjournaled
    PROVE  /\ cur \in Symbols
           /\ \E o \in Orders : Added(cur, o) \/ (Resent(o) /\ o \in Sticky(cur))
           /\ late' \in 0..MaxBuys /\ late' <= 1 /\ (late' # 0 => killed)
           /\ faults' \in 0..MaxFaults
<1>1. /\ at = "submit" /\ late = 0 /\ cur \in Symbols
      /\ late' = IF killed THEN late + 1 ELSE late
  BY DEF Buy, BuyUnjournaled, Entering, LastEntry
<1>2. CASE Sticky(cur) = {}
  <2>1. Place(cur) \/ PlaceUnjournaled(cur)
    BY <1>2 DEF Buy, BuyUnjournaled
  <2> HIDE DEF Place, PlaceUnjournaled
  <2>2. PICK o \in Orders : Added(cur, o)
    BY <2>1, PlaceAdds
  <2>3. MaxBuys >= 1
    BY <2>2, BoundAssumption DEF Orders
  <2>4. faults' \in 0..MaxFaults
    BY <2>1, PlaceAdds
  <2> QED
    BY <1>1, <2>2, <2>3, <2>4, BoundAssumption
<1>3. CASE Sticky(cur) # {}
  <2>1. PICK o \in Sticky(cur), journaled \in BOOLEAN : Replay(o, journaled)
    BY <1>3 DEF Buy, BuyUnjournaled
  <2>2. o \in Orders
    BY DEF Sticky, BuysOf
  <2>3. Resent(o) /\ faults' \in 0..MaxFaults
    BY <2>1, <2>2, ReplayResends
  <2>4. MaxBuys >= 1
    BY <2>2, BoundAssumption DEF Orders
  <2> QED
    BY <1>1, <2>2, <2>3, <2>4, BoundAssumption
<1> QED
  BY <1>2, <1>3

\* The steps of the loop do too.
LEMMA LoopTypes == CycleTypeOK /\ Entering /\ LastEntry /\ Loop => CycleTypeOK'
<1> SUFFICES ASSUME CycleTypeOK, Entering, LastEntry, Loop PROVE CycleTypeOK'
  OBVIOUS
<1> USE DEF venueVars, ledgerVars, killVars, cycleVars
<1>1. CASE Sync
  <2>1. PICK missed \in SUBSET Synced :
          /\ row' = [o \in Orders |->
                IF o \in {p \in Synced \ missed : row[p] # RowOf(venue[p])}
                THEN RowOf(venue[o]) ELSE row[o]]
          /\ newer' = Older({p \in Synced \ missed : row[p] # RowOf(venue[p])}, 0)
    BY <1>1 DEF Sync
  <2>2. newer' \in [Orders -> 0..Window]
    BY <2>1, AgesTyped DEF Synced
  <2>3. faults' \in 0..MaxFaults
    BY <1>1, FaultsTyped DEF Sync
  <2>4. row' \in [Orders -> {"none", "open", "unknown", "filled", "ended"}]
    BY <2>1 DEF CycleTypeOK, RowOf
  <2>5. UNCHANGED <<venueVars, sym, venue, pinned, sellPin, killVars, isHalted, held, todo, cur, crossed, refused>>
        /\ at' = "account"
    BY <1>1 DEF Sync
  <2> QED
    BY <2>2, <2>3, <2>4, <2>5 DEF CycleTypeOK
<1>2. CASE NoAccount
  BY <1>2, FaultsTyped DEF NoAccount, CycleTypeOK
<1>3. CASE Begin
  <2>1. faults' \in 0..MaxFaults
    BY <1>3, FaultsTyped DEF Begin
  <2> QED
    BY <1>3, <2>1 DEF Begin, HaltedNow, CycleTypeOK
<1>4. CASE Pending
  BY <1>4 DEF Pending, CycleTypeOK
<1>5. ASSUME NEW s \in Symbols, Exit(s) \/ ExitUnknown(s) \/ ExitRepeats(s) \/ ExitRefused(s)
      PROVE  CycleTypeOK'
  <2>1. newer' \in [Orders -> 0..Window]
    BY <1>5, AgesTyped DEF Exit, ExitUnknown, ExitRepeats, ExitRefused, CycleTypeOK
  <2>2. faults' \in 0..MaxFaults
    BY <1>5, FaultsTyped DEF Exit, ExitUnknown, ExitRepeats, ExitRefused
  <2>3. sell' \subseteq Symbols /\ sellPin' \subseteq Symbols
    BY <1>5 DEF Exit, ExitUnknown, ExitRepeats, ExitRefused, Sold, CycleTypeOK
  <2>4. UNCHANGED <<position, breach, sym, venue, row, pinned, killed, late>>
    BY <1>5 DEF Exit, ExitUnknown, ExitRepeats, ExitRefused
  <2>5. Looked(s) \/ Over
    BY <1>5 DEF Exit, ExitUnknown, ExitRepeats, ExitRefused
  <2>6. refused' \in {refused, refused \cup {s}, {}}
    BY <1>5 DEF Exit, ExitUnknown, ExitRepeats, ExitRefused, Over
  <2> QED
    BY <2>1, <2>2, <2>3, <2>4, <2>5, <2>6 DEF Looked, Over, CycleTypeOK
<1>6. ASSUME NEW s \in Symbols, Check(s) PROVE CycleTypeOK'
  BY <1>6 DEF Check, CycleTypeOK
<1>7. ASSUME NEW s \in Symbols, IntentBuy(s) PROVE CycleTypeOK'
  <2>1. PICK o \in Orders : Added(s, o)
    BY <1>7, PlaceAdds DEF IntentBuy
  <2>2. faults' \in 0..MaxFaults
    BY <1>7, PlaceAdds DEF IntentBuy
  <2>3. UNCHANGED <<venueVars, killVars, cycleVars, crossed, refused>>
    BY <1>7 DEF IntentBuy
  <2> QED
    BY <2>1, <2>2, <2>3, BooksTyped DEF CycleTypeOK
<1>8. ASSUME NEW o \in Orders, IntentUnpins(o) PROVE CycleTypeOK'
  BY <1>8, AgesTyped DEF IntentUnpins, CycleTypeOK
<1>9. CASE RefuseEntry
  <2>1. newer' \in [Orders -> 0..Window]
    BY <1>9, AgesTyped DEF RefuseEntry
  <2>2. faults' \in 0..MaxFaults
    BY <1>9, FaultsTyped DEF RefuseEntry
  <2> QED
    BY <1>9, <2>1, <2>2 DEF RefuseEntry, Onward, Over, CycleTypeOK
<1>10. CASE Buy \/ BuyUnjournaled
  <2>1. PICK o \in Orders : Added(cur, o) \/ Resent(o)
    BY <1>10, EntryMade
  <2>2. cur \in Symbols /\ late' \in 0..MaxBuys /\ faults' \in 0..MaxFaults
    BY <1>10, EntryMade
  <2>3. (Onward /\ UNCHANGED <<grace, isHalted, held, todo, crossed, refused>>) \/ Over
    BY <1>10 DEF Buy, BuyUnjournaled
  <2>4. UNCHANGED <<venueVars, killed>>
    BY <1>10 DEF Buy, BuyUnjournaled
  <2> QED
    BY <2>1, <2>2, <2>3, <2>4, BooksTyped DEF Onward, Over, CycleTypeOK
<1>11. CASE ToIntents \/ EndCycle
  BY <1>11 DEF ToIntents, EndCycle, Over, CycleTypeOK
<1> QED
  BY <1>1, <1>2, <1>3, <1>4, <1>5, <1>6, <1>7, <1>8, <1>9, <1>10, <1>11 DEF Loop

-----------------------------------------------------------------------------
(* The kill switch.                                                         *)

\* A step after which the entry under way is still the only one since the kill.
LEMMA KillKept ==
    CycleIInv /\ [CycleNext]_workerVars => KillStopsEntries' /\ LastEntry' /\ Halted'
<1> SUFFICES ASSUME CycleIInv, [CycleNext]_workerVars
             PROVE  KillStopsEntries' /\ LastEntry' /\ Halted'
  OBVIOUS
<1> USE DEF KillStopsEntries, LastEntry, Halted, Midway
<1>1. CASE UNCHANGED <<killVars, at, isHalted>>
  BY <1>1 DEF CycleIInv, killVars
<1>2. CASE Kill
  <2>1. killed' = TRUE /\ late' = 0 /\ at' = at
    BY <1>2, Zenon DEF Kill, cycleVars
  <2>2. grace' <=> at \notin {"sleep", "account"}
    BY <1>2, Zenon DEF Kill
  <2> QED
    BY <2>1, <2>2
<1>3. CASE Unkill
  BY <1>3 DEF Unkill
<1>4. CASE Over /\ killed' = killed /\ late' \in {0, 1} /\ (late' # 0 => killed)
  BY <1>4 DEF Over
<1>5. CASE Sync \/ NoAccount
  BY <1>5 DEF Sync, NoAccount, killVars, CycleIInv
<1>6. CASE Begin
  BY <1>6 DEF Begin, HaltedNow, CycleIInv
<1>7. CASE Pending
  BY <1>7 DEF Pending, killVars, CycleIInv
<1>8. ASSUME NEW s \in Symbols, Exit(s) \/ ExitUnknown(s) \/ ExitRepeats(s) \/ ExitRefused(s)
      PROVE  KillStopsEntries' /\ LastEntry' /\ Halted'
  <2>1. UNCHANGED <<killed, late>> /\ at = "exits" /\ (Looked(s) \/ Over)
    BY <1>8 DEF Exit, ExitUnknown, ExitRepeats, ExitRefused
  <2> QED
    BY <2>1, <1>1 DEF Looked, Over, killVars, CycleIInv
<1>9. ASSUME NEW s \in Symbols, Check(s)
      PROVE  KillStopsEntries' /\ LastEntry' /\ Halted'
  BY <1>9 DEF Check, Blocked, killVars, CycleIInv
<1>10. CASE RefuseEntry
  BY <1>10 DEF RefuseEntry, Onward, Over, CycleIInv
<1>11. CASE Buy \/ BuyUnjournaled
  <2>1. /\ late' \in 0..MaxBuys /\ late' <= 1 /\ (late' # 0 => killed)
        /\ at = "submit" /\ killed' = killed
        /\ (Onward /\ UNCHANGED <<grace, isHalted>>) \/ Over
    BY <1>11, EntryMade DEF Buy, BuyUnjournaled, CycleIInv
  <2>2. late' \in {0, 1}
    BY <2>1, BoundAssumption
  <2> QED
    BY <2>1, <2>2 DEF Onward, Over, CycleIInv
<1>12. CASE ToIntents
  BY <1>12 DEF ToIntents, killVars, CycleIInv
<1>13. CASE EndCycle \/ RestartWorker
  BY <1>13 DEF EndCycle, RestartWorker, Over, CycleIInv
<1>14. ASSUME NEW o \in Orders, Fill(o) \/ Lapse(o) \/ DeskRepeat(o) \/ DeskOverwrites(o) \/ IntentUnpins(o)
       PROVE  UNCHANGED <<killVars, at, isHalted>>
  BY <1>14 DEF Fill, Lapse, DeskRepeat, DeskOverwrites, IntentUnpins, cycleVars
<1>15. ASSUME NEW s \in Symbols, Close(s) \/ SellLapse(s) \/ Breach(s) \/ DeskBuy(s) \/ IntentBuy(s)
       PROVE  UNCHANGED <<killVars, at, isHalted>>
  BY <1>15 DEF Close, SellLapse, Breach, DeskBuy, IntentBuy, cycleVars
<1>16. CASE DeskSaves \/ UNCHANGED workerVars
  BY <1>16, <1>1 DEF DeskSaves, workerVars, cycleVars
<1> QED
  BY <1>1, <1>2, <1>3, <1>5, <1>6, <1>7, <1>8, <1>9, <1>10, <1>11, <1>12, <1>13, <1>14, <1>15, <1>16
  DEF CycleNext, Loop, Environment

-----------------------------------------------------------------------------
(* The books.                                                               *)

\* The rows are kept; a row that has left the window comes back only when saved.
Shelved ==
    /\ UNCHANGED <<sym, venue, row>>
    /\ at # "intents" => \A o \in Orders : newer[o] = Window => newer'[o] = Window

\* What any step does to the orders.
LEMMA BooksStep ==
    ASSUME CycleIInv, [CycleNext]_workerVars
    PROVE  \/ \E o \in Orders : Fill(o) \/ Lapse(o) \/ DeskOverwrites(o)
           \/ Sync
           \/ \E s \in Symbols, o \in Orders :
                 /\ Added(s, o) /\ position' = position
                 /\ DeskBuy(s) \/ IntentBuy(s) \/ Buy \/ BuyUnjournaled
           \/ \E o \in Orders : Resent(o) /\ position' = position
           \/ Shelved /\ position' \subseteq position
<1> USE DEF venueVars, ledgerVars
<1>1. \A n \in Nat : \A o \in Orders : newer[o] = Window => Older({}, n)[o] = Window
  BY OlderWorks DEF CycleIInv, CycleTypeOK
<1>2. ASSUME NEW s \in Symbols, DeskBuy(s) \/ IntentBuy(s)
      PROVE  \E o \in Orders : Added(s, o) /\ position' = position
  BY <1>2, PlaceAdds DEF DeskBuy, IntentBuy, CycleIInv
<1>3. ASSUME NEW o \in Orders, DeskRepeat(o) PROVE Resent(o) /\ position' = position
  <2>1. CASE row[o] = "unknown"
    BY <1>3, <2>1, ReplayResends DEF DeskRepeat, CycleIInv
  <2>2. CASE row[o] # "unknown"
    BY <1>3, <2>2 DEF DeskRepeat, Resent
  <2> QED
    BY <2>1, <2>2
<1>4. CASE Buy \/ BuyUnjournaled
  <2>1. cur \in Symbols /\ \E o \in Orders : Added(cur, o) \/ Resent(o)
    BY <1>4, EntryMade DEF CycleIInv
  <2>2. position' = position
    BY <1>4 DEF Buy, BuyUnjournaled
  <2> QED
    BY <1>4, <2>1, <2>2
<1>5. ASSUME NEW s \in Symbols, Exit(s) \/ ExitUnknown(s) \/ ExitRepeats(s) \/ ExitRefused(s)
      PROVE  Shelved /\ position' \subseteq position
  <2>1. newer' \in {newer, Older({}, 1)}
    BY <1>5 DEF Exit, ExitUnknown, ExitRepeats, ExitRefused
  <2> QED
    BY <1>5, <2>1, <1>1 DEF Shelved, Exit, ExitUnknown, ExitRepeats, ExitRefused
<1>6. CASE RefuseEntry \/ DeskSaves
  BY <1>6, <1>1 DEF Shelved, RefuseEntry, DeskSaves
<1>7. ASSUME NEW o \in Orders, IntentUnpins(o) PROVE Shelved /\ position' \subseteq position
  BY <1>7 DEF Shelved, IntentUnpins
<1>8. ASSUME UNCHANGED <<sym, venue, row, newer>>, position' \subseteq position
      PROVE  Shelved /\ position' \subseteq position
  BY <1>8 DEF Shelved
<1>9. CASE NoAccount \/ Begin \/ Pending \/ ToIntents \/ EndCycle \/ Kill \/ Unkill \/ RestartWorker
           \/ UNCHANGED workerVars
  BY <1>8, <1>9 DEF NoAccount, Begin, Pending, ToIntents, EndCycle, Kill, Unkill, RestartWorker, workerVars
<1>10. ASSUME NEW s \in Symbols, Check(s) \/ Close(s) \/ SellLapse(s) \/ Breach(s)
       PROVE  Shelved /\ position' \subseteq position
  BY <1>8, <1>10 DEF Check, Close, SellLapse, Breach
<1> QED
  BY <1>2, <1>3, <1>4, <1>5, <1>6, <1>7, <1>9, <1>10 DEF CycleNext, Loop, Environment

\* Every step keeps what ledger and venue say of one order.
LEMMA RowsKept == CycleIInv /\ [CycleNext]_workerVars => RowsMatch'
<1> SUFFICES ASSUME CycleIInv, [CycleNext]_workerVars PROVE RowsMatch'
  OBVIOUS
<1> USE DEF RowsMatch, Known, CycleIInv, CycleTypeOK
<1>1. ASSUME NEW o \in Orders, Fill(o) \/ Lapse(o) \/ DeskOverwrites(o) PROVE RowsMatch'
  BY <1>1 DEF Fill, Lapse, DeskOverwrites
<1>2. CASE Sync
  <2>1. PICK taken \in SUBSET Synced :
          row' = [o \in Orders |-> IF o \in taken THEN RowOf(venue[o]) ELSE row[o]]
    BY <1>2 DEF Sync
  <2>2. UNCHANGED <<sym, venue>>
    BY <1>2 DEF Sync
  <2> QED
    BY <2>1, <2>2 DEF Synced, RowOf
<1>3. ASSUME NEW s \in Symbols, NEW o \in Orders, Added(s, o) PROVE RowsMatch'
  BY <1>3 DEF Added
<1>4. ASSUME NEW o \in Orders, Resent(o) PROVE RowsMatch'
  BY <1>4 DEF Resent
<1>5. CASE Shelved
  BY <1>5 DEF Shelved
<1> QED
  BY <1>1, <1>2, <1>3, <1>4, <1>5, BooksStep

\* Where the exit pass goes on, no row was synced and no snapshot taken.
LEMMA ExitPass ==
    ASSUME CycleIInv, [CycleNext]_workerVars, at' = "exits"
    PROVE  ~Sync /\ (held' = position' \/ (at = "exits" /\ held' = held))
<1>1. ~Sync
  BY DEF Sync
<1>2. CASE UNCHANGED cycleVars \/ UNCHANGED workerVars
  BY <1>1, <1>2 DEF cycleVars, workerVars
<1>3. CASE Environment
  BY <1>2, <1>3 DEF Environment, Fill, Lapse, DeskRepeat, DeskOverwrites, Close, SellLapse, Breach,
                    DeskBuy, DeskSaves, Kill, Unkill
<1>4. CASE Begin
  BY <1>1, <1>4 DEF Begin, venueVars
<1>5. ASSUME NEW s \in Symbols, Exit(s) \/ ExitUnknown(s) \/ ExitRepeats(s) \/ ExitRefused(s)
      PROVE  at = "exits" /\ held' = held
  BY <1>5 DEF Exit, ExitUnknown, ExitRepeats, ExitRefused, Looked, Over
<1>6. ~NoAccount /\ ~Pending /\ ~RefuseEntry /\ ~Buy /\ ~BuyUnjournaled /\ ~ToIntents /\ ~EndCycle
      /\ ~RestartWorker
  BY Zenon DEF NoAccount, Pending, RefuseEntry, Buy, BuyUnjournaled, ToIntents, EndCycle, RestartWorker,
               Onward, Over
<1>7. ASSUME NEW s \in Symbols, Check(s) PROVE FALSE
  BY <1>7 DEF Check
<1>8. \A s \in Symbols : IntentBuy(s) => UNCHANGED cycleVars
  BY DEF IntentBuy
<1>9. \A o \in Orders : IntentUnpins(o) => UNCHANGED cycleVars
  BY DEF IntentUnpins
<1> QED
  BY <1>1, <1>2, <1>3, <1>4, <1>5, <1>6, <1>7, <1>8, <1>9 DEF CycleNext, Loop

\* A position that appears during the exit pass was filled since the sync.
LEMMA ExplainedKept == CycleIInv /\ [CycleNext]_workerVars => Explained'
<1> SUFFICES ASSUME CycleIInv, [CycleNext]_workerVars, at' = "exits",
                    NEW s \in position' \ held'
             PROVE  \E o \in BuysOf(s)' : venue'[o] = "filled" /\ row'[o] # "filled"
  BY DEF Explained
<1>1. at = "exits" /\ held' = held /\ ~Sync
  BY ExitPass
<1> USE DEF BuysOf, Known, CycleIInv, CycleTypeOK
<1>2. ASSUME NEW o \in Orders, Fill(o), sym[o] = s
      PROVE  \E p \in BuysOf(s)' : venue'[p] = "filled" /\ row'[p] # "filled"
  BY <1>2 DEF Fill, RowsMatch
<1>3. CASE s \in position
  <2>1. PICK o \in BuysOf(s) : venue[o] = "filled" /\ row[o] # "filled"
    BY <1>1, <1>3 DEF Explained
  <2>2. o \in BuysOf(s)' /\ venue'[o] = "filled" /\ row'[o] # "filled"
    <3>1. ASSUME NEW p \in Orders, Fill(p) \/ Lapse(p) \/ DeskOverwrites(p)
          PROVE  o \in BuysOf(s)' /\ venue'[o] = "filled" /\ row'[o] # "filled"
      BY <2>1, <3>1 DEF Fill, Lapse, DeskOverwrites
    <3>2. ASSUME NEW t \in Symbols, NEW p \in Orders, Added(t, p)
          PROVE  o \in BuysOf(s)' /\ venue'[o] = "filled" /\ row'[o] # "filled"
      BY <2>1, <3>2 DEF Added, New
    <3>3. ASSUME NEW p \in Orders, Resent(p)
          PROVE  o \in BuysOf(s)' /\ venue'[o] = "filled" /\ row'[o] # "filled"
      BY <2>1, <3>3 DEF Resent
    <3>4. CASE Shelved
      BY <2>1, <3>4 DEF Shelved
    <3> QED
      BY <1>1, <3>1, <3>2, <3>3, <3>4, BooksStep
  <2> QED
    BY <2>2
<1>4. CASE s \notin position
  <2>1. ~(position' \subseteq position)
    BY <1>4
  <2>2. PICK o \in Orders : Fill(o) \/ Lapse(o) \/ DeskOverwrites(o)
    BY <1>1, <2>1, BooksStep
  <2>3. Fill(o) /\ sym[o] = s
    BY <1>4, <2>2 DEF Fill, Lapse, DeskOverwrites, venueVars
  <2> QED
    BY <1>2, <2>3
<1> QED
  BY <1>3, <1>4

-----------------------------------------------------------------------------
(* The entry pass.                                                          *)

\* A step that adds no order of the symbol that works or is held, and leaves what the
\* ledger overlooks overlooked.
Calm(s) ==
    /\ s \in crossed => s \in crossed'
    /\ s \in position' => s \in position
    /\ \A o \in Orders :
          /\ o \in BuysOf(s)' /\ venue'[o] = "working" => o \in BuysOf(s) /\ venue[o] = "working"
          /\ o \in BuysOf(s) /\ venue[o] = "filled" => o \in BuysOf(s)' /\ venue'[o] = "filled"
          /\ o \in BuysOf(s) /\ venue'[o] \in {"working", "filled"} /\ Overlooked(o) => Overlooked(o)'

\* A free symbol stays free.
LEMMA CalmKeepsFree ==
    ASSUME NEW s, Calm(s), Free(s)
    PROVE  Free(s)'
<1>1. CASE s \in crossed
  BY <1>1 DEF Calm, Free
<1>2. CASE s \notin crossed
  <2>1. \A o \in BuysOf(s)' : venue'[o] = "working" => Overlooked(o)'
    BY <1>2 DEF Calm, Free, BuysOf
  <2>2. s \in position' => \E o \in BuysOf(s)' : venue'[o] = "filled" /\ Overlooked(o)'
    BY <1>2 DEF Calm, Free, BuysOf
  <2> QED
    BY <2>1, <2>2 DEF Free
<1> QED
  BY <1>1, <1>2

\* What is overlooked stays so when its row is kept and does not come back.
LEMMA OverlookedKept ==
    ASSUME CycleIInv, NEW o \in Orders, row'[o] = row[o], venue'[o] = venue[o],
           newer[o] = Window => newer'[o] = Window
    PROVE  Overlooked(o) => Overlooked(o)'
<1>1. newer[o] \in 0..Window /\ Window \in Nat
  BY BoundAssumption DEF CycleIInv, CycleTypeOK
<1>2. newer[o] < Window \/ ~(newer'[o] < Window)
  BY <1>1
<1> QED
  BY <1>2 DEF Overlooked, Unsettled, Visible, Known

\* Rows that are only put away.
LEMMA ShelvedIsCalm ==
    ASSUME CycleIInv, Shelved, at # "intents", position' \subseteq position, crossed \subseteq crossed'
    PROVE  \A s \in Symbols : Calm(s)
<1>1. \A o \in Orders : Overlooked(o) => Overlooked(o)'
  BY OverlookedKept DEF Shelved
<1> QED
  BY <1>1 DEF Shelved, Calm, BuysOf, Known

\* A new order of one symbol is nothing to the others.
LEMMA AddedIsCalm ==
    ASSUME CycleIInv, NEW s \in Symbols, NEW o \in Orders, Added(s, o),
           position' = position, crossed \subseteq crossed'
    PROVE  \A t \in Symbols \ {s} : Calm(t)
<1>1. \A p \in Orders \ {o} : newer[p] = Window => newer'[p] = Window
  <2>1. newer \in [Orders -> 0..Window] /\ {o} \in SUBSET Orders /\ 1 \in Nat
    BY DEF CycleIInv, CycleTypeOK
  <2>2. newer' = Older({o}, 1)
    BY DEF Added
  <2> QED
    BY <2>1, <2>2, OlderWorks
<1>2. \A p \in Orders \ {o} : row'[p] = row[p] /\ venue'[p] = venue[p] /\ sym'[p] = sym[p]
  BY DEF Added, CycleIInv, CycleTypeOK
<1>3. \A p \in Orders \ {o} : Overlooked(p) => Overlooked(p)'
  BY <1>1, <1>2, OverlookedKept
<1>4. ~Known(o) /\ sym'[o] = s
  BY DEF Added, New, CycleIInv, CycleTypeOK
<1> QED
  BY <1>2, <1>3, <1>4 DEF Calm, BuysOf, Known

\* Nor is one that is sent again.
LEMMA ResentIsCalm ==
    ASSUME CycleIInv, NEW o \in Orders, Resent(o), position' = position, crossed \subseteq crossed'
    PROVE  \A t \in Symbols \ {sym[o]} : Calm(t)
<1>1. \A p \in Orders \ {o} : newer[p] = Window => newer'[p] = Window
  <2>1. newer \in [Orders -> 0..Window] /\ {o} \in SUBSET Orders /\ 0 \in Nat
    BY DEF CycleIInv, CycleTypeOK
  <2>2. newer' \in {newer, Older({o}, 0)}
    BY DEF Resent
  <2> QED
    BY <2>1, <2>2, OlderWorks
<1>2. \A p \in Orders \ {o} : row'[p] = row[p] /\ venue'[p] = venue[p]
  BY DEF Resent, CycleIInv, CycleTypeOK
<1>3. \A p \in Orders \ {o} : Overlooked(p) => Overlooked(p)'
  BY <1>1, <1>2, OverlookedKept
<1>4. sym' = sym
  BY DEF Resent
<1> QED
  BY <1>2, <1>3, <1>4 DEF Calm, BuysOf, Known

\* Steps that save no row but of other orders.
LEMMA SavesNothing ==
    ASSUME CycleIInv, UNCHANGED <<sym, venue, row>>, newer' \in {newer, Older({}, 1)}
    PROVE  Shelved
<1>1. \A o \in Orders : newer[o] = Window => Older({}, 1)[o] = Window
  BY OlderWorks DEF CycleIInv, CycleTypeOK
<1> QED
  BY <1>1 DEF Shelved

\* While the entry pass goes on, the rest of the world leaves the free symbols free.
LEMMA EnvironmentKeepsFree ==
    ASSUME CycleIInv, Environment, at \in {"entries", "submit"}, NEW s \in Symbols, Free(s)
    PROVE  Free(s)'
<1>1. SUFFICES ASSUME ~Free(s)' PROVE FALSE
  OBVIOUS
<1>2. ~Calm(s)
  BY <1>1, CalmKeepsFree
<1> USE DEF venueVars, ledgerVars
<1>3. ASSUME NEW o \in Orders, Fill(o) PROVE FALSE
  <2>1. /\ venue[o] = "working" /\ venue' = [venue EXCEPT ![o] = "filled"]
        /\ position' = position \cup {sym[o]} /\ UNCHANGED <<sym, row, newer, crossed>>
        /\ Known(o) /\ sym[o] \in Symbols
    BY <1>3 DEF Fill, RowsMatch, CycleIInv
  <2>2. \A p \in Orders \ {o} : Overlooked(p) => Overlooked(p)'
    BY <2>1, OverlookedKept DEF CycleIInv, CycleTypeOK
  <2>3. CASE sym[o] # s
    BY <1>2, <2>1, <2>2, <2>3 DEF Calm, BuysOf, Known, CycleIInv, CycleTypeOK
  <2>4. CASE sym[o] = s
    <3>1. s \notin crossed
      BY <1>1, <2>1 DEF Free
    <3>2. Overlooked(o)
      BY <2>1, <2>4, <3>1 DEF Free, BuysOf
    <3>3. Overlooked(o)'
      BY <2>1, <3>2 DEF Overlooked, Unsettled, Visible, Known, CycleIInv, CycleTypeOK
    <3>4. \A p \in BuysOf(s)' : venue'[p] = "working" => Overlooked(p)'
      BY <2>1, <2>2, <3>1 DEF Free, BuysOf, Known, CycleIInv, CycleTypeOK
    <3>5. o \in BuysOf(s)' /\ venue'[o] = "filled"
      BY <2>1, <2>4 DEF BuysOf, Known, CycleIInv, CycleTypeOK
    <3> QED
      BY <1>1, <3>3, <3>4, <3>5 DEF Free
  <2> QED
    BY <2>3, <2>4
<1>4. ASSUME NEW o \in Orders, Lapse(o) PROVE FALSE
  <2>1. /\ venue[o] = "working" /\ venue' = [venue EXCEPT ![o] = "ended"]
        /\ UNCHANGED <<position, sym, row, newer, crossed>>
    BY <1>4 DEF Lapse
  <2>2. \A p \in Orders \ {o} : Overlooked(p) => Overlooked(p)'
    BY <2>1, OverlookedKept DEF CycleIInv, CycleTypeOK
  <2> QED
    BY <1>2, <2>1, <2>2 DEF Calm, BuysOf, Known, CycleIInv, CycleTypeOK
<1>5. ASSUME NEW o \in Orders, DeskRepeat(o) PROVE FALSE
  <2>1. crossed' = crossed \cup {sym[o]} /\ position' = position
    BY <1>5 DEF DeskRepeat, Crosses, Midway
  <2>2. Resent(o)
    <3>1. CASE row[o] = "unknown"
      BY <1>5, <3>1, ReplayResends DEF DeskRepeat, CycleIInv
    <3>2. CASE row[o] # "unknown"
      BY <1>5, <3>2 DEF DeskRepeat, Resent
    <3> QED
      BY <3>1, <3>2
  <2>3. s = sym[o]
    BY <1>2, <2>1, <2>2, ResentIsCalm
  <2> QED
    BY <1>1, <2>1, <2>3 DEF Free
<1>6. ASSUME NEW o \in Orders, DeskOverwrites(o) PROVE FALSE
  <2>1. /\ row' = [row EXCEPT ![o] = "ended"] /\ newer' = Older({o}, 0)
        /\ row[o] = "open" /\ UNCHANGED <<position, sym, venue, crossed>>
    BY <1>6 DEF DeskOverwrites
  <2>2. \A p \in Orders \ {o} : newer[p] = Window => newer'[p] = Window
    BY <2>1, OlderWorks DEF CycleIInv, CycleTypeOK
  <2>3. \A p \in Orders \ {o} : Overlooked(p) => Overlooked(p)'
    BY <2>1, <2>2, OverlookedKept DEF CycleIInv, CycleTypeOK
  <2>4. venue[o] \in {"working", "filled"} => Overlooked(o)'
    BY <2>1 DEF Overlooked, CycleIInv, CycleTypeOK
  <2> QED
    BY <1>2, <2>1, <2>3, <2>4 DEF Calm, BuysOf, Known, CycleIInv, CycleTypeOK
<1>7. ASSUME NEW t \in Symbols, DeskBuy(t) PROVE FALSE
  <2>1. crossed' = crossed \cup {t} /\ position' = position
    BY <1>7 DEF DeskBuy, Crosses, Midway
  <2>2. PICK o \in Orders : Added(t, o)
    BY <1>7, PlaceAdds DEF DeskBuy, CycleIInv
  <2>3. s = t
    BY <1>2, <2>1, <2>2, AddedIsCalm
  <2> QED
    BY <1>1, <2>1, <2>3 DEF Free
<1>8. ASSUME NEW t \in Symbols, Close(t) \/ SellLapse(t) \/ Breach(t) PROVE FALSE
  <2>1. /\ UNCHANGED <<sym, venue, row>> /\ newer' \in {newer, Older({}, 1)}
        /\ position' \subseteq position /\ crossed \subseteq crossed'
    BY <1>8 DEF Close, SellLapse, Breach
  <2> QED
    BY <1>2, <2>1, SavesNothing, ShelvedIsCalm
<1>9. CASE DeskSaves \/ Kill \/ Unkill
  <2>1. /\ UNCHANGED <<sym, venue, row>> /\ newer' \in {newer, Older({}, 1)}
        /\ position' \subseteq position /\ crossed \subseteq crossed'
    BY <1>9 DEF DeskSaves, Kill, Unkill
  <2> QED
    BY <1>2, <2>1, SavesNothing, ShelvedIsCalm
<1> QED
  BY <1>3, <1>4, <1>5, <1>6, <1>7, <1>8, <1>9 DEF Environment

\* The symbols the pass begins with are free.
LEMMA PendingFinds ==
    ASSUME CycleIInv, Pending, NEW s \in todo'
    PROVE  Free(s)'
<1>1. s \in Symbols \ (held \cup PendingSymbols) /\ at = "exits"
  BY DEF Pending
<1>2. UNCHANGED <<position, sym, venue, row, newer, crossed>>
  BY DEF Pending, venueVars, ledgerVars
<1>3. \A o \in BuysOf(s) : ~(Visible(o) /\ Unsettled(o))
  BY <1>1 DEF PendingSymbols, BuysOf
<1>4. \A o \in BuysOf(s) : venue[o] = "working" => Overlooked(o)
  BY <1>3 DEF BuysOf, Known, Overlooked, Unsettled, RowsMatch, CycleIInv, CycleTypeOK
<1>5. s \in position => \E o \in BuysOf(s) : venue[o] = "filled" /\ Overlooked(o)
  <2>1. SUFFICES ASSUME s \in position
                 PROVE  \E o \in BuysOf(s) : venue[o] = "filled" /\ Overlooked(o)
    OBVIOUS
  <2>2. PICK o \in BuysOf(s) : venue[o] = "filled" /\ row[o] # "filled"
    BY <1>1, <2>1 DEF Explained, CycleIInv
  <2>3. Overlooked(o)
    BY <1>3, <2>2 DEF BuysOf, Known, Overlooked, Unsettled, CycleIInv, CycleTypeOK
  <2> QED
    BY <2>2, <2>3
<1>6. Free(s)
  BY <1>4, <1>5 DEF Free
<1> QED
  BY <1>2, <1>6 DEF Free, BuysOf, Known, Overlooked, Unsettled, Visible

\* Every step keeps the pass to free symbols.
LEMMA EnteringKept == CycleIInv /\ [CycleNext]_workerVars => Entering'
<1> SUFFICES ASSUME CycleIInv, [CycleNext]_workerVars, at' \in {"entries", "submit"}
             PROVE  Entering'
  BY DEF Entering
<1> USE DEF venueVars, ledgerVars
<1>1. CASE Pending
  <2>1. at' = "entries"
    BY <1>1 DEF Pending
  <2> QED
    BY <1>1, <2>1, PendingFinds DEF Entering
<1>2. ASSUME at \in {"entries", "submit"}, \A s \in Symbols : Free(s) => Free(s)',
             UNCHANGED cycleVars
      PROVE  Entering'
  BY <1>2 DEF Entering, cycleVars, CycleIInv, CycleTypeOK
<1>3. CASE Environment
  <2>1. UNCHANGED cycleVars
    BY <1>3 DEF Environment, Fill, Lapse, DeskRepeat, DeskOverwrites, Close, SellLapse, Breach,
                DeskBuy, DeskSaves, Kill, Unkill
  <2>2. at \in {"entries", "submit"}
    BY <2>1 DEF cycleVars
  <2> QED
    BY <1>2, <1>3, <2>1, <2>2, EnvironmentKeepsFree
<1>4. ASSUME UNCHANGED <<sym, venue, row>>, newer' \in {newer, Older({}, 1)},
             at # "intents", position' = position, crossed' = crossed
      PROVE  \A s \in Symbols : Free(s) => Free(s)'
  BY <1>4, SavesNothing, ShelvedIsCalm, CalmKeepsFree
<1>5. ASSUME NEW s \in Symbols, Check(s) PROVE Entering'
  <2>1. \A t \in Symbols : Free(t) => Free(t)'
    BY <1>4, <1>5 DEF Check
  <2>2. at = "entries" /\ s \in todo /\ todo' = todo \ {s} /\ (at' = "submit" => cur' = s)
    BY <1>5 DEF Check
  <2> QED
    BY <2>1, <2>2 DEF Entering, CycleIInv, CycleTypeOK
<1>6. CASE RefuseEntry
  <2>1. \A t \in Symbols : Free(t) => Free(t)'
    <3>1. Onward /\ crossed' = crossed
      BY <1>6 DEF RefuseEntry, Over
    <3> QED
      BY <1>4, <1>6, <3>1 DEF RefuseEntry
  <2>2. at = "submit" /\ at' = "entries" /\ todo' = todo
    BY <1>6 DEF RefuseEntry, Over, Onward
  <2> QED
    BY <2>1, <2>2 DEF Entering, CycleIInv, CycleTypeOK
<1>7. CASE Buy \/ BuyUnjournaled
  <2>1. at = "submit" /\ at' = "entries" /\ UNCHANGED <<position, todo, crossed>>
    BY <1>7 DEF Buy, BuyUnjournaled, Over, Onward
  <2>2. cur \in Symbols
    BY <1>7, EntryMade DEF CycleIInv
  <2>3. PICK o \in Orders : Added(cur, o) \/ (Resent(o) /\ o \in Sticky(cur))
    BY <1>7, EntryMade DEF CycleIInv
  <2>4. \A s \in Symbols \ {cur} : Calm(s)
    <3>1. CASE Added(cur, o)
      BY <2>1, <2>2, <3>1, AddedIsCalm
    <3>2. CASE Resent(o) /\ o \in Sticky(cur)
      <4>1. sym[o] = cur
        BY <3>2 DEF Sticky, BuysOf
      <4> QED
        BY <2>1, <3>2, <4>1, ResentIsCalm
    <3> QED
      BY <2>3, <3>1, <3>2
  <2>5. \A s \in todo : s \in Symbols \ {cur} /\ Free(s)
    BY <2>1 DEF Entering, CycleIInv, CycleTypeOK
  <2>6. \A s \in todo' : Free(s)'
    BY <2>1, <2>4, <2>5, CalmKeepsFree
  <2> QED
    BY <2>1, <2>6 DEF Entering
<1>8. CASE UNCHANGED workerVars
  <2>1. UNCHANGED cycleVars
    BY <1>8 DEF workerVars
  <2>2. at \in {"entries", "submit"}
    BY <2>1 DEF cycleVars
  <2> QED
    BY <1>2, <1>4, <1>8, <2>1, <2>2 DEF workerVars
<1>9. ~Sync /\ ~NoAccount /\ ~Begin /\ ~ToIntents /\ ~EndCycle /\ ~RestartWorker
  BY Zenon DEF Sync, NoAccount, Begin, ToIntents, EndCycle, RestartWorker, Over
<1>10. ASSUME NEW s \in Symbols, Exit(s) \/ ExitUnknown(s) \/ ExitRepeats(s) \/ ExitRefused(s)
       PROVE  FALSE
  BY <1>10 DEF Exit, ExitUnknown, ExitRepeats, ExitRefused, Looked, Over
<1>11. \A s \in Symbols : ~IntentBuy(s)
  BY DEF IntentBuy, cycleVars
<1>12. \A o \in Orders : ~IntentUnpins(o)
  BY DEF IntentUnpins, cycleVars
<1> QED
  BY <1>1, <1>3, <1>5, <1>6, <1>7, <1>8, <1>9, <1>10, <1>11, <1>12 DEF CycleNext, Loop

-----------------------------------------------------------------------------
(* The invariant and what follows from it.                                  *)

\* The books are empty and the worker sleeps.
LEMMA InitCycleIInv == CycleInit => CycleIInv
<1> SUFFICES ASSUME CycleInit PROVE CycleIInv
  OBVIOUS
<1>1. CycleTypeOK
  <2>1. 0 \in 0..Window /\ 0 \in 0..MaxBuys /\ 0 \in 0..MaxFaults
    BY BoundAssumption
  <2>2. newer \in [Orders -> 0..Window]
    BY <2>1 DEF CycleInit
  <2> QED
    BY <2>1, <2>2 DEF CycleInit, CycleTypeOK
<1>2. KillStopsEntries /\ LastEntry /\ Halted /\ Explained /\ Entering
  BY DEF CycleInit, KillStopsEntries, LastEntry, Halted, Explained, Entering
<1>3. RowsMatch
  BY DEF CycleInit, RowsMatch, Known
<1> QED
  BY <1>1, <1>2, <1>3 DEF CycleIInv

\* Every step keeps it.
LEMMA CycleKeepsIInv == CycleIInv /\ [CycleNext]_workerVars => CycleIInv'
<1> SUFFICES ASSUME CycleIInv, [CycleNext]_workerVars PROVE CycleIInv'
  OBVIOUS
<1>1. CycleTypeOK'
  <2>1. CASE RestartWorker
    BY <2>1, FaultsTyped DEF RestartWorker, Over, venueVars, ledgerVars, CycleIInv, CycleTypeOK
  <2>2. CASE UNCHANGED workerVars
    BY <2>2 DEF workerVars, venueVars, ledgerVars, killVars, cycleVars, CycleIInv, CycleTypeOK
  <2> QED
    BY <2>1, <2>2, LoopTypes, EnvironmentTypes DEF CycleNext, CycleIInv
<1> QED
  BY <1>1, KillKept, RowsKept, ExplainedKept, EnteringKept DEF CycleIInv

\* So it always holds.
LEMMA AlwaysCycleIInv == CycleSpec => []CycleIInv
BY InitCycleIInv, CycleKeepsIInv, PTL DEF CycleSpec

\* The worker's cycle keeps the types of its state.
THEOREM CycleTypeCorrect == CycleSpec => []CycleTypeOK
<1>1. CycleIInv => CycleTypeOK
  BY DEF CycleIInv
<1> QED
  BY <1>1, AlwaysCycleIInv, PTL

\* At most one entry is made after a kill, however the cycle, the Desk and the venue
\* interleave.
THEOREM AtMostOneEntryAfterKill == CycleSpec => []KillStopsEntries
<1>1. CycleIInv => KillStopsEntries
  BY DEF CycleIInv
<1> QED
  BY <1>1, AlwaysCycleIInv, PTL

\* While the kill switch is on, nothing new reaches the venue but in the cycle that had
\* read the switch before.
THEOREM NothingNewWhileKilled == CycleSpec => KillStopsBuying
<1>1. CycleIInv /\ [CycleNext]_workerVars =>
        [killed /\ ~grace => \A o \in Orders : Known(o) \/ row'[o] = "none"]_workerVars
  <2> SUFFICES ASSUME CycleIInv, [CycleNext]_workerVars, killed, ~grace,
                      NEW o \in Orders, row[o] = "none"
               PROVE  row'[o] = "none"
    BY DEF Known
  <2> USE DEF CycleIInv, CycleTypeOK
  <2>1. ~Buy /\ ~BuyUnjournaled
    BY DEF Buy, BuyUnjournaled, Halted, Midway
  <2>2. \A s \in Symbols : ~IntentBuy(s) /\ ~DeskBuy(s)
    BY DEF IntentBuy, DeskBuy, Halted, Midway
  <2>3. ASSUME NEW p \in Orders, Fill(p) \/ Lapse(p) \/ DeskOverwrites(p) PROVE row'[o] = "none"
    BY <2>3 DEF Fill, Lapse, DeskOverwrites
  <2>4. CASE Sync
    <3>1. PICK taken \in SUBSET Synced :
            row' = [p \in Orders |-> IF p \in taken THEN RowOf(venue[p]) ELSE row[p]]
      BY <2>4 DEF Sync
    <3> QED
      BY <3>1 DEF Synced
  <2>5. ASSUME NEW p \in Orders, Resent(p) PROVE row'[o] = "none"
    BY <2>5 DEF Resent
  <2>6. CASE Shelved
    BY <2>6 DEF Shelved
  <2> QED
    BY <2>1, <2>2, <2>3, <2>4, <2>5, <2>6, BooksStep
<1> QED
  BY <1>1, AlwaysCycleIInv, PTL DEF CycleSpec, KillStopsBuying

\* An entry is not made for a symbol whose buy the ledger shows, or that is held by one:
\* the snapshot, the window and the pass together miss nothing that the Desk did not do
\* or the window did not push out.
THEOREM EntriesAreOfFreeSymbols == CycleSpec => EntersOnce
<1>1. CycleIInv /\ at = "submit" =>
        \/ ~Bought(cur)
        \/ cur \in crossed
        \/ \E p \in BuysOf(cur) :
             \/ Unsettled(p) /\ ~Visible(p)
             \/ row[p] = "ended" /\ venue[p] # "ended"
  <2> SUFFICES ASSUME CycleIInv, at = "submit", Bought(cur), cur \notin crossed
               PROVE  \E p \in BuysOf(cur) : Overlooked(p)
    BY DEF Overlooked
  <2> QED
    BY DEF Bought, Free, Entering, CycleIInv
<1>2. CycleIInv /\ [CycleNext]_workerVars =>
        [at = "submit" /\ at' # "submit" =>
           \A o \in Orders : ~Known(o) /\ row'[o] # "none" =>
             \/ ~Bought(cur)
             \/ cur \in crossed
             \/ \E p \in BuysOf(cur) :
                  \/ Unsettled(p) /\ ~Visible(p)
                  \/ row[p] = "ended" /\ venue[p] # "ended"]_workerVars
  BY <1>1
<1> QED
  BY <1>2, AlwaysCycleIInv, PTL DEF CycleSpec, EntersOnce

-----------------------------------------------------------------------------
(* The daily limit.                                                         *)

\* Who may hold a slot, and the dates that can be in play so far.
Bookkeeping ==
    /\ file.date <= today
    /\ file.count <= Cap
    /\ \A r \in Requests :
          /\ slot[r] <= today
          /\ pc[r] \in {"idle", "evaluated", "reserving"} => slot[r] = 0
          /\ pc[r] \in {"reserving", "releasing"} => day[r] \in 1..today

\* A stray write needs a midnight first.
StrayNeedsMidnight == today = 1 => ~stray

IInv == TypeOK /\ Bookkeeping /\ StrayNeedsMidnight /\ CountCoversSlots /\ CapUnlessStray

USE CapAssumption, DayAssumption

\* Any set of requests can be counted.
LEMMA RequestSets ==
    ASSUME NEW S \in SUBSET Requests
    PROVE  IsFiniteSet(S) /\ Cardinality(S) \in Nat
<1>1. IsFiniteSet(Requests)
  BY RequestAssumption, FS_Union DEF Requests
<1> QED
  BY <1>1, FS_Subset, FS_CardinalityType

\* The slots of one date are finitely many.
LEMMA SlotsFinite ==
    ASSUME NEW d
    PROVE  IsFiniteSet(Slots(d)) /\ Cardinality(Slots(d)) \in Nat
BY RequestSets DEF Slots

\* And so they are after a step.
LEMMA NextSlotsFinite ==
    ASSUME NEW d
    PROVE  Cardinality(Slots(d)') \in Nat
BY RequestSets DEF Slots

\* One request that takes a slot adds at most one to its date.
LEMMA TakeSlot ==
    ASSUME NEW r \in Requests, NEW d \in Days, TypeOK,
           slot' = [slot EXCEPT ![r] = d], slot[r] = 0
    PROVE  /\ Cardinality(Slots(d)') <= Cardinality(Slots(d)) + 1
           /\ \A e \in Days \ {d} : Slots(e)' = Slots(e)
<1>1. Slots(d)' = Slots(d) \cup {r}
  BY DEF Slots, TypeOK
<1>2. Cardinality(Slots(d) \cup {r}) <= Cardinality(Slots(d)) + 1
  BY SlotsFinite, FS_AddElement
<1>3. \A e \in Days \ {d} : Slots(e)' = Slots(e)
  <2>1. \A p \in Requests : slot'[p] = IF p = r THEN d ELSE slot[p]
    BY DEF TypeOK
  <2> QED
    BY <2>1 DEF Slots, Days
<1> QED
  BY <1>1, <1>2, <1>3

\* One request that gives its slot back frees one place of the slot's date.
LEMMA ReturnSlot ==
    ASSUME NEW r \in Requests, TypeOK, slot' = [slot EXCEPT ![r] = 0]
    PROVE  \A e \in Days :
              Cardinality(Slots(e)') =
                 IF slot[r] = e THEN Cardinality(Slots(e)) - 1 ELSE Cardinality(Slots(e))
<1> TAKE e \in Days
<1>1. Slots(e)' = Slots(e) \ {r}
  BY DEF Slots, TypeOK, Days
<1>2. r \in Slots(e) <=> slot[r] = e
  BY DEF Slots
<1> QED
  <2>1. CASE r \in Slots(e)
    <3>1. Cardinality(Slots(e) \ {r}) = Cardinality(Slots(e)) - 1
      BY <2>1, SlotsFinite, FS_RemoveElement
    <3> QED
      BY <1>1, <1>2, <2>1, <3>1
  <2>2. CASE r \notin Slots(e)
    <3>1. Slots(e) \ {r} = Slots(e)
      BY <2>2
    <3> QED
      BY <1>1, <1>2, <2>2, <3>1
  <2> QED
    BY <2>1, <2>2

\* Steps that leave the file, the slots and the history alone keep the counts.
LEMMA CountsKept ==
    ASSUME CountCoversSlots, CapUnlessStray, UNCHANGED <<file, slot, loose, stray>>
    PROVE  CountCoversSlots' /\ CapUnlessStray'
BY DEF CountCoversSlots, CapUnlessStray, CapPerDay, Slots, Used

\* No request holds a slot when the system starts.
LEMMA InitIInv == Init => IInv
<1> SUFFICES ASSUME Init PROVE IInv
  OBVIOUS
<1>1. \A d \in Days : Slots(d) = {}
  BY DEF Init, Slots, Days
<1>2. \A d \in Days : Cardinality(Slots(d)) = 0
  BY <1>1, FS_EmptySet
<1>3. TypeOK /\ Bookkeeping /\ StrayNeedsMidnight
  <2>1. TypeOK
    <3>1. poisoned \in BOOLEAN /\ stray \in BOOLEAN
      BY Zenon DEF Init
    <3>2. today \in Days /\ file \in [date : 0..LastDay, count : Nat]
      BY DEF Init, Days
    <3>3. /\ pc \in [Requests -> {"idle"}]
          /\ day \in [Requests -> 0..LastDay] /\ slot \in [Requests -> 0..LastDay]
          /\ loose \in [Days -> Nat]
      BY DEF Init
    <3> QED
      BY <3>1, <3>2, <3>3 DEF TypeOK
  <2>2. Bookkeeping
    <3>1. ASSUME NEW r \in Requests
          PROVE  /\ slot[r] <= today
                 /\ pc[r] \in {"idle", "evaluated", "reserving"} => slot[r] = 0
                 /\ pc[r] \in {"reserving", "releasing"} => day[r] \in 1..today
      BY DEF Init
    <3>2. file.date <= today /\ file.count <= Cap
      BY DEF Init
    <3> QED
      BY <3>1, <3>2 DEF Bookkeeping
  <2> QED
    BY <2>1, <2>2 DEF Init, StrayNeedsMidnight
<1>4. CountCoversSlots /\ CapUnlessStray
  BY <1>2 DEF Init, CountCoversSlots, CapUnlessStray, CapPerDay, Used, Days
<1> QED
  BY <1>3, <1>4 DEF IInv

\* A grant counts one more order on its date, and only below the limit.
LEMMA ReserveKeeps ==
    ASSUME IInv, NEW r \in Requests, Reserve(r)
    PROVE  IInv'
<1> DEFINE d == day[r]
<1>1. /\ d \in Days /\ d <= today /\ slot[r] = 0
      /\ Used(d) \in Nat /\ Used(d) < Cap
      /\ file' = [date |-> d, count |-> Used(d) + 1]
      /\ slot' = [slot EXCEPT ![r] = d]
      /\ stray' = (stray \/ d < file.date)
      /\ UNCHANGED <<today, poisoned, day, loose>>
      /\ \A e \in Days : loose[e] \in Nat
      /\ pc[r] = "reserving" /\ pc' = [pc EXCEPT ![r] = "holding"]
  BY DEF IInv, TypeOK, Bookkeeping, Reserve, Write, Transition, Used, Days
<1>2. TypeOK'
  BY <1>1 DEF IInv, TypeOK, Days
<1>3. Bookkeeping'
  BY <1>1 DEF IInv, TypeOK, Bookkeeping, Days
<1>4. StrayNeedsMidnight'
  BY <1>1 DEF IInv, TypeOK, StrayNeedsMidnight, Bookkeeping, Days
<1>5. CASE stray'
  BY <1>2, <1>3, <1>4, <1>5 DEF IInv, CountCoversSlots, CapUnlessStray
<1>6. CASE ~stray'
  <2>1. ~stray /\ file.date <= d
    <3>1. ~stray /\ ~(d < file.date)
      BY <1>1, <1>6, Zenon
    <3> QED
      BY <3>1, <1>1 DEF IInv, TypeOK, Days
  <2>0. /\ \A e \in Days : file.date <= e => Cardinality(Slots(e)) <= Used(e) + loose[e]
        /\ \A e \in Days : Cardinality(Slots(e)) <= Cap + loose[e]
    BY <2>1, Zenon DEF IInv, CountCoversSlots, CapUnlessStray, CapPerDay
  <2>2. Cardinality(Slots(d)) <= Used(d) + loose[d]
    BY <2>0, <2>1, <1>1
  <2>3. /\ Cardinality(Slots(d)') <= Used(d) + 1 + loose[d]
        /\ \A e \in Days \ {d} : Cardinality(Slots(e)') = Cardinality(Slots(e))
    <3>1. /\ Cardinality(Slots(d)') <= Cardinality(Slots(d)) + 1
          /\ \A e \in Days \ {d} : Slots(e)' = Slots(e)
      BY <1>1, TakeSlot DEF IInv
    <3>2. Cardinality(Slots(d)) \in Nat /\ Cardinality(Slots(d)') \in Nat
      BY SlotsFinite, NextSlotsFinite
    <3>3. Cardinality(Slots(d)') <= Used(d) + 1 + loose[d]
      BY <1>1, <2>2, <3>1, <3>2
    <3> QED
      BY <3>1, <3>3
  <2>4. CapUnlessStray'
    <3>1. \A e \in Days : Cardinality(Slots(e)') <= Cap + loose[e]'
      BY <1>1, <2>0, <2>3, NextSlotsFinite
    <3> QED
      BY <3>1, Zenon DEF CapUnlessStray, CapPerDay
  <2>5. CountCoversSlots'
    <3>1. ASSUME NEW e \in Days, d <= e
          PROVE  Cardinality(Slots(e)') <= Used(e)' + loose[e]'
      <4>1. CASE e = d
        BY <4>1, <1>1, <2>3 DEF Used
      <4>2. CASE e # d
        <5>1. file.date <= e /\ file.date # e
          BY <4>2, <3>1, <2>1, <1>1 DEF IInv, TypeOK, Days
        <5>2. Cardinality(Slots(e)) <= loose[e]
          BY <5>1, <2>0, <1>1 DEF Used
        <5> QED
          BY <4>2, <5>2, <2>3, <1>1, SlotsFinite DEF Used
      <4> QED
        BY <4>1, <4>2
    <3> QED
      BY <3>1, <1>1 DEF CountCoversSlots
  <2> QED
    BY <1>2, <1>3, <1>4, <2>4, <2>5 DEF IInv
<1> QED
  BY <1>5, <1>6

\* A release takes one from the date it reads.  It frees one place of that date too, or
\* is counted as loose.
LEMMA ReleaseKeeps ==
    ASSUME IInv, NEW r \in Requests, Release(r)
    PROVE  IInv'
<1> DEFINE d == day[r]
           n == Used(d)
<1>1. PICK landed \in BOOLEAN :
        /\ slot' = [slot EXCEPT ![r] = IF landed THEN slot[r] ELSE 0]
        /\ loose' = [loose EXCEPT ![d] =
                       IF n > 0 /\ (landed \/ slot[r] # d) THEN loose[d] + 1 ELSE loose[d]]
        /\ file' = [date |-> d, count |-> IF n > 0 THEN n - 1 ELSE 0]
  BY Zenon DEF Release, Write
<1>2. /\ d \in Days /\ d <= today /\ slot[r] \in 0..LastDay /\ slot[r] <= today
      /\ n \in Nat /\ n <= Cap
      /\ stray' = (stray \/ d < file.date)
      /\ UNCHANGED <<today, poisoned, day>>
      /\ pc[r] = "releasing" /\ pc' = [pc EXCEPT ![r] = "done"]
  BY DEF IInv, TypeOK, Bookkeeping, Release, Write, Transition, Used, Days
<1>3. TypeOK'
  <2>1. loose' \in [Days -> Nat]
    BY <1>1, <1>2 DEF IInv, TypeOK
  <2>2. slot' \in [Requests -> 0..LastDay]
    BY <1>1, <1>2 DEF IInv, TypeOK
  <2>3. file' \in [date : 0..LastDay, count : Nat]
    BY <1>1, <1>2 DEF Days
  <2>4. stray' \in BOOLEAN
    BY <1>2, Zenon DEF IInv, TypeOK
  <2> QED
    BY <1>2, <2>1, <2>2, <2>3, <2>4 DEF IInv, TypeOK
<1>4. Bookkeeping'
  BY <1>1, <1>2 DEF IInv, TypeOK, Bookkeeping, Days
<1>5. StrayNeedsMidnight'
  BY <1>1, <1>2 DEF IInv, TypeOK, StrayNeedsMidnight, Bookkeeping, Days
<1>6. CASE stray'
  BY <1>3, <1>4, <1>5, <1>6 DEF IInv, CountCoversSlots, CapUnlessStray
<1>7. CASE ~stray'
  <2>1. ~stray /\ file.date <= d
    <3>1. ~stray /\ ~(d < file.date)
      BY <1>2, <1>7, Zenon
    <3> QED
      BY <3>1, <1>2 DEF IInv, TypeOK, Days
  <2>2. /\ \A e \in Days : file.date <= e => Cardinality(Slots(e)) <= Used(e) + loose[e]
        /\ \A e \in Days : Cardinality(Slots(e)) <= Cap + loose[e]
    BY <2>1, Zenon DEF IInv, CountCoversSlots, CapUnlessStray, CapPerDay
  <2>3. \A e \in Days : loose[e] \in Nat /\ loose'[e] \in Nat /\ loose[e] <= loose'[e]
    BY <1>1, <1>2 DEF IInv, TypeOK
  <2>4. ASSUME NEW e \in Days
        PROVE  /\ Cardinality(Slots(e)) \in Nat /\ Cardinality(Slots(e)') \in Nat
               /\ Cardinality(Slots(e)') <= Cardinality(Slots(e))
               /\ ~landed /\ slot[r] = e => Cardinality(Slots(e)') = Cardinality(Slots(e)) - 1
    <3>1. Cardinality(Slots(e)) \in Nat /\ Cardinality(Slots(e)') \in Nat
      BY SlotsFinite, NextSlotsFinite
    <3>2. CASE landed
      <4>1. slot' = slot
        BY <1>1, <3>2 DEF IInv, TypeOK
      <4>2. Slots(e)' = Slots(e)
        BY <4>1 DEF Slots
      <4> QED
        BY <3>1, <3>2, <4>2
    <3>3. CASE ~landed
      <4>1. slot' = [slot EXCEPT ![r] = 0]
        BY <1>1, <3>3
      <4>2. Cardinality(Slots(e)') =
              IF slot[r] = e THEN Cardinality(Slots(e)) - 1 ELSE Cardinality(Slots(e))
        BY <4>1, ReturnSlot DEF IInv
      <4> QED
        BY <3>1, <4>2
    <3> QED
      BY <3>2, <3>3
  <2>5. ASSUME NEW e \in Days, e = d
        PROVE  Cardinality(Slots(e)') <= (IF n > 0 THEN n - 1 ELSE 0) + loose'[e]
    <3>1. Cardinality(Slots(e)) <= n + loose[e]
      BY <1>2, <2>1, <2>2, <2>5
    <3>2. CASE n = 0
      BY <3>1, <3>2, <2>3, <2>4, <1>2
    <3>3. CASE n > 0 /\ (landed \/ slot[r] # d)
      <4>1. loose'[e] = loose[e] + 1
        BY <3>3, <1>1, <1>2, <2>5 DEF IInv, TypeOK
      <4> QED
        BY <3>1, <3>3, <4>1, <2>3, <2>4, <1>2
    <3>4. CASE n > 0 /\ ~landed /\ slot[r] = d
      <4>1. Cardinality(Slots(e)') = Cardinality(Slots(e)) - 1
        BY <3>4, <2>4, <2>5
      <4> QED
        BY <3>1, <3>4, <4>1, <2>3, <2>4, <1>2
    <3> QED
      BY <3>2, <3>3, <3>4, <1>2
  <2>6. CapUnlessStray'
    <3>1. \A e \in Days : Cardinality(Slots(e)') <= Cap + loose'[e]
      BY <2>2, <2>3, <2>4, CapAssumption
    <3> QED
      BY <3>1, Zenon DEF CapUnlessStray, CapPerDay
  <2>7. CountCoversSlots'
    <3>1. ASSUME NEW e \in Days, d <= e
          PROVE  Cardinality(Slots(e)') <= Used(e)' + loose'[e]
      <4>1. CASE e = d
        <5>1. Used(e)' = IF n > 0 THEN n - 1 ELSE 0
          BY <4>1, <1>1 DEF Used
        <5> QED
          BY <4>1, <5>1, <2>5
      <4>2. CASE e # d
        <5>1. file.date <= e /\ file.date # e
          BY <4>2, <3>1, <2>1, <1>2 DEF IInv, TypeOK, Days
        <5>2. Cardinality(Slots(e)) <= loose[e]
          BY <5>1, <2>2, <2>3 DEF Used
        <5>3. Used(e)' = 0
          BY <4>2, <1>1 DEF Used
        <5> QED
          BY <5>2, <5>3, <2>3, <2>4
      <4> QED
        BY <4>1, <4>2
    <3> QED
      BY <3>1, <1>1 DEF CountCoversSlots
  <2> QED
    BY <1>3, <1>4, <1>5, <2>6, <2>7 DEF IInv
<1> QED
  BY <1>6, <1>7

\* Every other step of a request leaves the file and the slots alone.
LEMMA QuietStepKeeps ==
    ASSUME IInv, NEW r \in Requests,
           \/ Evaluate(r) \/ Refuse(r) \/ ReadClock(r) \/ ReserveRefused(r)
           \/ ReserveFails(r) \/ Accept(r) \/ BeginRelease(r)
           \/ RetryRejected(r) \/ WorkerBrokerReject(r) \/ ReleaseFails(r) \/ Crash(r)
    PROVE  IInv'
<1>1. UNCHANGED <<today, file, slot, loose, stray>>
  BY DEF Evaluate, Refuse, ReadClock, ReserveRefused, ReserveFails, Accept,
         BeginRelease, RetryRejected, WorkerBrokerReject, ReleaseFails, Crash
<1>2. poisoned' \in BOOLEAN
  BY Zenon DEF IInv, TypeOK, Evaluate, Refuse, ReadClock, ReserveRefused, ReserveFails,
     Accept, BeginRelease, RetryRejected, WorkerBrokerReject, ReleaseFails, Crash
<1>3. /\ \E from, to \in {"idle", "evaluated", "reserving", "holding", "releasing",
                         "accepted", "rejected", "unreturned", "done"} :
            /\ pc[r] = from /\ pc' = [pc EXCEPT ![r] = to]
            /\ to \in {"evaluated", "reserving"} => slot[r] = 0
            /\ to # "idle"
            /\ to = "reserving" \/ to = "releasing" => day' = [day EXCEPT ![r] = today]
            /\ ~(to = "reserving" \/ to = "releasing") => day' = day
  BY DEF IInv, TypeOK, Bookkeeping, Transition, Evaluate, Refuse, ReadClock, ReserveRefused,
     ReserveFails, Accept, BeginRelease, RetryRejected, WorkerBrokerReject, ReleaseFails, Crash
<1>4. TypeOK'
  <2>1. pc' \in [Requests -> {"idle", "evaluated", "reserving", "holding", "releasing",
                             "accepted", "rejected", "unreturned", "done"}]
    BY <1>3 DEF IInv, TypeOK
  <2>2. day' \in [Requests -> 0..LastDay]
    <3>1. day' = day \/ day' = [day EXCEPT ![r] = today]
      BY <1>3
    <3>2. day \in [Requests -> 0..LastDay] /\ today \in 0..LastDay
      BY DEF IInv, TypeOK, Days
    <3> QED
      BY <3>1, <3>2
  <2> QED
    BY <1>1, <1>2, <2>1, <2>2 DEF IInv, TypeOK
<1>5. Bookkeeping'
  BY <1>1, <1>3 DEF IInv, TypeOK, Bookkeeping, Days
<1>6. StrayNeedsMidnight'
  BY <1>1, <1>3 DEF IInv, TypeOK, StrayNeedsMidnight, Days
<1> QED
  BY <1>1, <1>4, <1>5, <1>6, CountsKept DEF IInv

LEMMA MidnightKeeps == IInv /\ Midnight => IInv'
<1> SUFFICES ASSUME IInv, Midnight PROVE IInv'
  OBVIOUS
<1>1. today' = today + 1 /\ today' \in Days
  BY DEF IInv, TypeOK, Midnight, Days
<1>2. TypeOK' /\ Bookkeeping' /\ StrayNeedsMidnight'
  BY <1>1 DEF IInv, TypeOK, Bookkeeping, StrayNeedsMidnight, Midnight, Days
<1>3. CountCoversSlots' /\ CapUnlessStray'
  BY CountsKept DEF IInv, Midnight
<1> QED
  BY <1>2, <1>3 DEF IInv

LEMMA NextKeepsIInv == IInv /\ [Next]_vars => IInv'
<1> SUFFICES ASSUME IInv, [Next]_vars PROVE IInv'
  OBVIOUS
<1>1. CASE Midnight
  BY <1>1, MidnightKeeps
<1>2. ASSUME NEW r \in Requests, Step(r) PROVE IInv'
  BY <1>2, ReserveKeeps, ReleaseKeeps, QuietStepKeeps DEF Step
<1>3. CASE UNCHANGED vars
  BY <1>3, CountsKept DEF vars, IInv, TypeOK, Bookkeeping, StrayNeedsMidnight
<1> QED
  BY <1>1, <1>2, <1>3 DEF Next

\* Every reachable state satisfies the inductive invariant.
LEMMA AlwaysIInv == Spec => []IInv
BY InitIInv, NextKeepsIInv, PTL DEF Spec

\* The variables keep their types.
THEOREM TypeCorrect == Spec => []TypeOK
<1>1. IInv => TypeOK
  BY DEF IInv
<1> QED
  BY AlwaysIInv, <1>1, PTL

\* For every cap and every set of requests and retries, the daily limit (mandate.py:250)
\* is exceeded at most by the places that were given back loosely, until some counter
\* call writes over the record of a later date.
THEOREM LimitUnlessStray == Spec => []CapUnlessStray
<1>1. IInv => CapUnlessStray
  BY DEF IInv
<1> QED
  BY AlwaysIInv, <1>1, PTL

\* Until the first midnight no record is written over: the limit is exceeded at most by
\* the places that were given back loosely.
THEOREM LimitUntilMidnight == Spec => []CapUntilMidnight
<1>1. IInv => CapUntilMidnight
  BY Zenon DEF IInv, StrayNeedsMidnight, CapUnlessStray, CapUntilMidnight
<1> QED
  BY AlwaysIInv, <1>1, PTL

\* The file falls behind the orders that hold a slot of its date at most by those places.
THEOREM CountCovers == Spec => []CountCoversSlots
<1>1. IInv => CountCoversSlots
  BY DEF IInv
<1> QED
  BY AlwaysIInv, <1>1, PTL
=============================================================================
