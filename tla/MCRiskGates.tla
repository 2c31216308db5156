----------------------------- MODULE MCRiskGates -----------------------------
(***************************************************************************)
(* A TLC instance of RiskGates.  All behaviours of two Desk requests and a *)
(* worker are too many; the run explores those of two parts (Scenario).    *)
(***************************************************************************)
EXTENDS RiskGates, Sequences, TLC

Alike == Permutations(Symbols)

\* The value of the account moves and midnight passes: two requests of the Desk buy
\* the same symbol, and nothing reaches the venue.
Halt ==
    /\ orders = 0 /\ at[Worker] = "idle"
    /\ \A p \in Desks : side[p] = "buy"
    /\ \A p, q \in Desks : sym[p] = sym[q] \/ Nothing \in {sym[p], sym[q]}

\* One request of the Desk beside the worker, while the value of the account stays.
Amount == 100
Steady ==
    /\ value = Amount
    /\ {dayStart.value} \cup {memory[e] : e \in Engines} \subseteq {0, Amount}
    /\ \A p \in Actors : at[p] # "idle" =>
        snap[p].value = Amount /\ start[p] \in {0, Amount}
    /\ \A p \in Desks \ {CHOOSE q \in Desks : TRUE} : at[p] = "idle"

\* Nothing more reaches the venue: sales are marked, and the book is pruned.
Closing ==
    /\ phase = "exits" /\ held = {} /\ working = {}
    /\ \A p \in Actors : at[p] # "land"

Limits == Steady /\ (now = 0 \/ Closing)

Scenario == Halt \/ Limits

(***************************************************************************)
(* What the later steps depend on: a local counts from where it is set to  *)
(* where it is last read.  While the value of the account stays no guard   *)
(* depends on the start of the day, so outside of Halt it does not count.  *)
(***************************************************************************)
Start(p) ==
    CASE ~Halt -> <<>>
      [] at[p] = "persist" -> <<day[p]>>
      [] OTHER -> <<day[p], start[p]>>

Read(p) ==
    LET order == <<side[p], sym[p], snap[p]>> IN
    CASE at[p] \in {"stamp", "again"} -> <<sym[p]>>
      [] at[p] = "mark" -> <<sym[p], stamp[p]>>
      [] at[p] = "date" -> order
      [] at[p] \in {"persist", "remember", "book"} -> order \o Start(p)
      [] at[p] \in {"evaluate", "land"} -> order \o Start(p) \o <<cool[p]>>
      [] OTHER -> <<>>

Cycle ==
    IF at[Worker] = "idle" THEN <<>>
    ELSE <<cool[Worker], cycle, began, phase, todo, pending>>

RiskView ==
    <<now, market, book, own, at, marked, backdated, blind, Cycle,
      [p \in Actors |-> Read(p)],
      IF Halt THEN <<memory, dayStart, first, stray>> ELSE <<>> >>
=============================================================================
