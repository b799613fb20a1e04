----------------------------- MODULE RunnerBook -----------------------------
(* A runner of services/market_cache.py: its ladders under the deltas and    *)
(* images of the Exchange Stream API, and the best offers it shows.          *)
(*                                                                           *)
(* A ladder maps a level (batb, batl) or a price (atb, atl) to the offer     *)
(* there.  One side of a runner is modelled, back or lay, and one scalar:    *)
(* tv, "sent only when changed; absence means unchanged".  A change names a  *)
(* key once, so the order of the entries in a message does not matter.       *)
EXTENDS Integers, FiniteSets

CONSTANT Depth   \* offers a view shows, and levels Betfair sends: 3

ASSUME DepthAssumption == Depth \in Nat \ {0}

LadderField == {"batb", "atb"}
EmptyLadder == [k \in {} |-> [price |-> 0, size |-> 0]]

NewRunner == [batb |-> EmptyLadder, atb |-> EmptyLadder, tv |-> 0]

-----------------------------------------------------------------------------
(* Deltas.                                                                   *)

\* apply_runner_change() on one ladder: size 0 removes, anything else sets.
LadderAfter(ladder, change) ==
  [k \in {k \in DOMAIN ladder \cup DOMAIN change :
             k \in DOMAIN change => change[k].size # 0} |->
     IF k \in DOMAIN change THEN change[k] ELSE ladder[k]]

\* apply_runner_change(): rc holds the fields that changed.
RunnerAfter(runner, rc) ==
  [f \in DOMAIN runner |->
     IF f \notin DOMAIN rc THEN runner[f]
     ELSE IF f \in LadderField THEN LadderAfter(runner[f], rc[f]) ELSE rc[f]]

\* Mutant: an image is applied like a delta.
MarketAfterNoImage(runner, mc) == RunnerAfter(runner, mc.rc)

\* apply_market_change(): an image starts from nothing.
MarketAfter(runner, mc) ==
  RunnerAfter(IF mc.img THEN NewRunner ELSE runner, mc.rc)

-----------------------------------------------------------------------------
(* Views.                                                                    *)

\* Mutant: both sides count upwards.
BetterUpwards(side, p, q) == p < q

Better(side, p, q) == IF side = "back" THEN p > q ELSE p < q

\* The keys in order, and the offers at the first Depth of them.
Ranked(ladder, Before(_, _)) ==
  LET rank(k) == Cardinality({j \in DOMAIN ladder : Before(j, k)}) + 1
      shown == IF Cardinality(DOMAIN ladder) <= Depth
               THEN Cardinality(DOMAIN ladder) ELSE Depth
  IN [i \in 1..shown |-> ladder[CHOOSE k \in DOMAIN ladder : rank(k) = i]]

\* best_available_to_back() and best_available_to_lay(): by level when there
\* are levels, otherwise by price.
BestAvailable(runner, side) ==
  IF runner.batb # EmptyLadder
  THEN Ranked(runner.batb, LAMBDA j, k : j < k)
  ELSE Ranked(runner.atb, LAMBDA j, k : Better(side, j, k))

-----------------------------------------------------------------------------
(* Betfair.  A book maps the prices on offer to the sizes offered.           *)

ByPrice(book) == [p \in DOMAIN book |-> [price |-> p, size |-> book[p]]]

ByLevel(book, side) ==
  LET above(p) == {q \in DOMAIN book : IF side = "back" THEN q > p ELSE q < p}
      levels == {Cardinality(above(p)) : p \in DOMAIN book}
      at(l) == CHOOSE p \in DOMAIN book : Cardinality(above(p)) = l
  IN [l \in {l \in levels : l < Depth} |-> [price |-> at(l), size |-> book[at(l)]]]

\* What a client that asked for these fields holds of the book.
Held(book, tv, fields, side) ==
  [batb |-> IF "batb" \in fields THEN ByLevel(book, side) ELSE EmptyLadder,
   atb  |-> IF "atb" \in fields THEN ByPrice(book) ELSE EmptyLadder,
   tv   |-> tv]

\* The entries that turn one ladder into another.
LadderDelta(old, new) ==
  [k \in {k \in DOMAIN old \cup DOMAIN new :
             ~(k \in DOMAIN old /\ k \in DOMAIN new /\ old[k] = new[k])} |->
     IF k \in DOMAIN new THEN new[k] ELSE [price |-> 0, size |-> 0]]

\* The rc that turns what a client holds into what it should hold.
RunnerDelta(old, new) ==
  [f \in {f \in DOMAIN new : old[f] # new[f]} |->
     IF f \in LadderField THEN LadderDelta(old[f], new[f]) ELSE new[f]]

\* The best offers of a book: what a view of it must show, however computed.
ShowsBest(view, book, side) ==
  /\ DOMAIN view = 1..Cardinality(DOMAIN view) /\ Cardinality(DOMAIN view) <= Depth
  /\ \A i \in DOMAIN view : /\ view[i].price \in DOMAIN book
                            /\ view[i].size = book[view[i].price]
  /\ \A i, j \in DOMAIN view :
       i < j => IF side = "back" THEN view[i].price > view[j].price
                                 ELSE view[i].price < view[j].price
  /\ \A p \in DOMAIN book \ {view[i].price : i \in DOMAIN view} :
       /\ Cardinality(DOMAIN view) = Depth
       /\ \A i \in DOMAIN view : IF side = "back" THEN view[i].price > p
                                                  ELSE view[i].price < p
=============================================================================
