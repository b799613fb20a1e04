------------------------- MODULE MarketStreamProofs -------------------------
(* Proofs about MarketStream for any markets, any number of changes and any  *)
(* number of messages in flight.                                             *)
(*                                                                           *)
(* Kept is the reason: follow cursor and price of a market along the         *)
(* messages in flight, and wherever the cursor gets, the price is there;     *)
(* otherwise the market is closed and the cache knew (Gone).                 *)
EXTENDS MarketStream, WellFoundedInduction, TLAPS

-----------------------------------------------------------------------------
(* Betfair's log.                                                            *)

LEMMA HasGreatest ==
  ASSUME NEW n \in Nat, NEW T \in SUBSET (0..n), T # {}
  PROVE  \E i \in T : \A j \in T : j <= i
<1> DEFINE R == OpToRel(<, Nat)
           D == {n - i : i \in T}
<1>1. IsWellFoundedOn(R, Nat)
  BY NatLessThanWellFounded
<1>2. D \subseteq Nat /\ D # {}
  <2>1. \A i \in T : i \in Nat /\ i <= n /\ n - i \in Nat
    OBVIOUS
  <2>2. PICK i \in T : TRUE
    OBVIOUS
  <2> QED
    BY <2>1, <2>2
<1>3. PICK x \in D : \A y \in D : ~(<<y, x>> \in R)
  <2> HIDE DEF R, D
  <2> QED
    BY <1>1, <1>2, WFMin
<1>4. \A y \in D : ~(y < x)
  BY <1>2, <1>3 DEF OpToRel
<1>5. PICK i \in T : x = n - i
  BY <1>3
<1>6. \A j \in T : ~(n - j < n - i)
  BY <1>4, <1>5
<1> QED
  BY <1>5, <1>6

Log == Seq([market : Market, closes : BOOLEAN])

LEMMA LogElement ==
  ASSUME NEW l \in Log, NEW i \in 1..Len(l)
  PROVE  l[i] \in [market : Market, closes : BOOLEAN]
<1> DEFINE R == [market : Market, closes : BOOLEAN]
<1>1. l \in Seq(R)
  BY DEF Log
<1> HIDE DEF R
<1>2. l[i] \in R
  BY <1>1
<1> QED
  BY <1>2 DEF R

LEMMA LastPriceIs ==
  ASSUME NEW l \in Log, NEW m, NEW from \in Nat, NEW to \in Nat, from >= 1, to <= Len(l)
  PROVE  /\ LastPrice(l, m, from, to) \in {0} \cup (from..to)
         /\ \A i \in ChangesOf(l, m, from, to) :
              ~l[i].closes => i <= LastPrice(l, m, from, to) /\ LastPrice(l, m, from, to) # 0
         /\ LastPrice(l, m, from, to) # 0 =>
              LastPrice(l, m, from, to) \in ChangesOf(l, m, from, to)
              /\ ~l[LastPrice(l, m, from, to)].closes
<1> DEFINE priced == {i \in ChangesOf(l, m, from, to) : ~l[i].closes}
           max == CHOOSE i \in priced : \A j \in priced : j <= i
<1>1. LastPrice(l, m, from, to) = IF priced = {} THEN 0 ELSE max
  BY DEF LastPrice
<1>2. priced \in SUBSET (0..to) /\ \A i \in priced : i \in from..to
  BY DEF ChangesOf
<1>3. priced # {} => max \in priced /\ \A j \in priced : j <= max
  BY <1>2, HasGreatest
<1> QED
  BY <1>1, <1>2, <1>3

LEMMA SamePrice ==
  ASSUME NEW l, NEW o, NEW m, NEW from, NEW to, NEW until,
         {i \in ChangesOf(o, m, from, to) : ~o[i].closes} =
         {i \in ChangesOf(l, m, from, until) : ~l[i].closes}
  PROVE  LastPrice(o, m, from, to) = LastPrice(l, m, from, until)
<1> DEFINE last(T) == IF T = {} THEN 0 ELSE CHOOSE i \in T : \A j \in T : j <= i
<1>1. LastPrice(o, m, from, to) = last({i \in ChangesOf(o, m, from, to) : ~o[i].closes})
  BY Zenon DEF LastPrice
<1>2. LastPrice(l, m, from, until) = last({i \in ChangesOf(l, m, from, until) : ~l[i].closes})
  BY Zenon DEF LastPrice
<1> HIDE DEF last
<1> QED
  BY <1>1, <1>2

\* What happened up to k is settled.
LEMMA LogAppended ==
  ASSUME NEW l \in Log, NEW e \in [market : Market, closes : BOOLEAN], NEW m,
         NEW k \in 0..Len(l)
  PROVE  /\ Append(l, e) \in Log /\ Len(Append(l, e)) = Len(l) + 1
         /\ HasClosed(Append(l, e), m, k) <=> HasClosed(l, m, k)
         /\ HasOpened(Append(l, e), m, k) <=> HasOpened(l, m, k)
         /\ IsOpen(Append(l, e), m, k) <=> IsOpen(l, m, k)
         /\ LastPrice(Append(l, e), m, 1, k) = LastPrice(l, m, 1, k)
<1> DEFINE n == Append(l, e)
<1>1. n \in Log /\ Len(n) = Len(l) + 1 /\ \A i \in 1..k : n[i] = l[i]
  BY DEF Log
<1> HIDE DEF n
<1>2. ChangesOf(n, m, 1, k) = ChangesOf(l, m, 1, k)
  BY <1>1 DEF ChangesOf
<1>3. \A i \in ChangesOf(l, m, 1, k) : n[i] = l[i]
  BY <1>1 DEF ChangesOf
<1>4. HasClosed(n, m, k) <=> HasClosed(l, m, k)
  BY <1>2, <1>3 DEF HasClosed
<1>5. HasOpened(n, m, k) <=> HasOpened(l, m, k)
  BY <1>2 DEF HasOpened
<1>6. {i \in ChangesOf(n, m, 1, k) : ~n[i].closes} = {i \in ChangesOf(l, m, 1, k) : ~l[i].closes}
  BY <1>2, <1>3
<1>7. LastPrice(n, m, 1, k) = LastPrice(l, m, 1, k)
  BY <1>6, SamePrice
<1> QED
  BY <1>1, <1>4, <1>5, <1>7 DEF IsOpen, n

\* Nothing that happened is undone.
LEMMA Stays ==
  ASSUME NEW l \in Log, NEW m, NEW j \in Nat, NEW k \in Nat, j <= k, k <= Len(l)
  PROVE  /\ HasClosed(l, m, j) => HasClosed(l, m, k)
         /\ HasOpened(l, m, j) => HasOpened(l, m, k)
         /\ LastPrice(l, m, 1, j) <= LastPrice(l, m, 1, k)
         /\ LastPrice(l, m, 1, k) <= k /\ LastPrice(l, m, 1, k) \in Nat
<1>1. ChangesOf(l, m, 1, j) \subseteq ChangesOf(l, m, 1, k)
  BY DEF ChangesOf
<1>0. Len(l) \in Nat /\ 1 \in Nat /\ 1 >= 1 /\ j <= Len(l)
  BY DEF Log
<1>2. /\ LastPrice(l, m, 1, j) \in {0} \cup (1..j)
      /\ LastPrice(l, m, 1, j) # 0 =>
           LastPrice(l, m, 1, j) \in ChangesOf(l, m, 1, j)
           /\ ~l[LastPrice(l, m, 1, j)].closes
      /\ LastPrice(l, m, 1, k) \in {0} \cup (1..k)
      /\ \A i \in ChangesOf(l, m, 1, k) :
           ~l[i].closes => i <= LastPrice(l, m, 1, k)
  <2>1. /\ LastPrice(l, m, 1, j) \in {0} \cup (1..j)
        /\ LastPrice(l, m, 1, j) # 0 =>
             LastPrice(l, m, 1, j) \in ChangesOf(l, m, 1, j)
             /\ ~l[LastPrice(l, m, 1, j)].closes
    BY <1>0, LastPriceIs
  <2>2. /\ LastPrice(l, m, 1, k) \in {0} \cup (1..k)
        /\ \A i \in ChangesOf(l, m, 1, k) :
             ~l[i].closes => i <= LastPrice(l, m, 1, k)
    BY <1>0, LastPriceIs
  <2> QED
    BY <2>1, <2>2
<1> QED
  BY <1>0, <1>1, <1>2 DEF HasClosed, HasOpened

\* What changed after k, put together with what was there at k.
LEMMA Since ==
  ASSUME NEW l \in Log, NEW m, NEW k \in 0..Len(l)
  PROVE  LET n == Len(l)
             late == LastPrice(l, m, k + 1, n) IN
         /\ late \in Nat
         /\ late # 0 => late = LastPrice(l, m, 1, n) /\ k < late
         /\ late = 0 => LastPrice(l, m, 1, n) = LastPrice(l, m, 1, k)
         /\ ChangesOf(l, m, k + 1, n) = {} =>
              /\ HasClosed(l, m, n) <=> HasClosed(l, m, k)
              /\ HasOpened(l, m, n) <=> HasOpened(l, m, k)
              /\ late = 0
         /\ ChangesOf(l, m, k + 1, n) # {} /\ ~HasClosed(l, m, n) => late # 0
<1> DEFINE n == Len(l)
           late == LastPrice(l, m, k + 1, n)
           all == LastPrice(l, m, 1, n)
           early == LastPrice(l, m, 1, k)
<1>1. n \in Nat /\ k \in Nat /\ k + 1 \in Nat /\ k + 1 >= 1 /\ k <= n
  BY DEF Log
<1>2. ChangesOf(l, m, 1, n) = ChangesOf(l, m, 1, k) \cup ChangesOf(l, m, k + 1, n)
  BY <1>1 DEF ChangesOf
<1>3. /\ \A i \in ChangesOf(l, m, 1, k) : i \in 1..k
      /\ \A i \in ChangesOf(l, m, k + 1, n) : i \in (k + 1)..n
  BY DEF ChangesOf
<1>4. /\ late \in {0} \cup ((k + 1)..n)
      /\ \A i \in ChangesOf(l, m, k + 1, n) : ~l[i].closes => i <= late /\ late # 0
      /\ late # 0 => late \in ChangesOf(l, m, k + 1, n) /\ ~l[late].closes
  BY <1>1, LastPriceIs
<1>5. /\ all \in {0} \cup (1..n)
      /\ \A i \in ChangesOf(l, m, 1, n) : ~l[i].closes => i <= all /\ all # 0
      /\ all # 0 => all \in ChangesOf(l, m, 1, n) /\ ~l[all].closes
  BY <1>1, LastPriceIs
<1>6. /\ early \in {0} \cup (1..k)
      /\ \A i \in ChangesOf(l, m, 1, k) : ~l[i].closes => i <= early /\ early # 0
      /\ early # 0 => early \in ChangesOf(l, m, 1, k) /\ ~l[early].closes
  BY <1>1, LastPriceIs
<1> HIDE DEF late, all, early
<1>7. late # 0 => late = all /\ k < late
  BY <1>1, <1>2, <1>3, <1>4, <1>5
<1>8. late = 0 => all = early
  BY <1>1, <1>2, <1>3, <1>4, <1>5, <1>6
<1>9. ChangesOf(l, m, k + 1, n) = {} =>
        /\ HasClosed(l, m, n) <=> HasClosed(l, m, k)
        /\ HasOpened(l, m, n) <=> HasOpened(l, m, k)
        /\ late = 0
  BY <1>2, <1>4 DEF HasClosed, HasOpened
<1>10. ChangesOf(l, m, k + 1, n) # {} /\ ~HasClosed(l, m, n) => late # 0
  BY <1>2, <1>4 DEF HasClosed
<1> QED
  BY <1>1, <1>4, <1>7, <1>8, <1>9, <1>10 DEF late, all, early

-----------------------------------------------------------------------------
(* What Betfair's messages tell.                                             *)

\* The message's part about a market: what it says of the market's status is
\* so at the end of the log, and its prices are the last ones of the log, or
\* those at clk c stand.
Says(l, x, m, c) ==
  /\ x \in Change
  /\ x.def = "CLOSED" <=> HasClosed(l, m, Len(l))
  /\ x.def = "none" => ~x.img /\ IsOpen(l, m, c)
  /\ IsOpen(l, m, Len(l)) => x.price # 0 /\ x.price = LastPrice(l, m, 1, Len(l))
  /\ IsOpen(l, m, c) => \/ x.price # 0 /\ x.price >= LastPrice(l, m, 1, c)
                        \/ x.price = 0 /\ ~x.img

\* What leaving a market out of an update tells a reader that is at clk c.
Omits(l, ct, m, c) ==
  /\ IsOpen(l, m, Len(l)) =>
       IsOpen(l, m, c) /\ LastPrice(l, m, 1, Len(l)) = LastPrice(l, m, 1, c)
  /\ IsOpen(l, m, c) /\ HasClosed(l, m, Len(l)) => ct = "SUB_IMAGE"

Updates(l, u, ct, m, c) ==
  IF m \in DOMAIN u THEN Says(l, u[m], m, c) ELSE Omits(l, ct, m, c)

LEMMA DeltaSays ==
  ASSUME NEW l \in Log, Len(l) <= MaxClk, NEW m, NEW k \in 0..Len(l),
         ChangesOf(l, m, k + 1, Len(l)) # {}
  PROVE  Says(l, DeltaSince(l, m, k), m, k)
<1> DEFINE n == Len(l)
           late == LastPrice(l, m, k + 1, n)
           d == DeltaSince(l, m, k)
<1>1. /\ n \in Nat /\ k \in Nat /\ n \in 0..n /\ k <= n
      /\ k + 1 \in Nat /\ k + 1 >= 1 /\ n <= Len(l)
  BY DEF Log
<1>2. /\ late \in Nat
      /\ late # 0 => late = LastPrice(l, m, 1, n) /\ k < late
      /\ late = 0 => LastPrice(l, m, 1, n) = LastPrice(l, m, 1, k)
      /\ ~HasClosed(l, m, n) => late # 0
  BY Since
<1>3. /\ HasClosed(l, m, k) => HasClosed(l, m, n)
      /\ HasOpened(l, m, k) => HasOpened(l, m, n)
      /\ LastPrice(l, m, 1, k) <= LastPrice(l, m, 1, n)
  BY <1>1, Stays
<1>4. LastPrice(l, m, 1, n) <= n
  BY <1>1, Stays
<1>5. /\ d.img = ~HasOpened(l, m, k) /\ d.price = late
      /\ d.def = IF HasClosed(l, m, n) THEN "CLOSED"
                 ELSE IF HasOpened(l, m, k) THEN "none" ELSE "OPEN"
      /\ d = [img |-> d.img, def |-> d.def, price |-> d.price]
  BY DEF DeltaSince
<1> HIDE DEF late, d
<1>6. d.img \in BOOLEAN
  BY <1>5 DEF HasOpened
<1>7. d.def \in Definition /\ (d.def = "CLOSED" <=> HasClosed(l, m, n))
  BY <1>5 DEF Definition
<1>8. d.def = "none" => ~d.img /\ IsOpen(l, m, k)
  BY <1>3, <1>5 DEF IsOpen
<1>9. d.price \in 0..MaxClk
  BY <1>1, <1>2, <1>4, <1>5, BoundAssumption
<1>10. d \in Change
  BY <1>5, <1>6, <1>7, <1>9 DEF Change
<1>11. IsOpen(l, m, n) => d.price # 0 /\ d.price = LastPrice(l, m, 1, n)
  BY <1>2, <1>5 DEF IsOpen
<1>12. IsOpen(l, m, k) => \/ d.price # 0 /\ d.price >= LastPrice(l, m, 1, k)
                          \/ d.price = 0 /\ ~d.img
  <2>1. LastPrice(l, m, 1, k) \in Nat /\ LastPrice(l, m, 1, n) \in Nat
    BY <1>1, Stays
  <2> QED
    BY <1>2, <1>3, <1>5, <2>1 DEF IsOpen
<1> QED
  BY <1>7, <1>8, <1>10, <1>11, <1>12 DEF Says, d

\* The changes since clk c, on resuming there or as they happen.
LEMMA DeltasUpdate ==
  ASSUME NEW l \in Log, Len(l) <= MaxClk, NEW c \in 0..Len(l), NEW u, NEW ct, NEW m,
         m \in DOMAIN u <=> ChangesOf(l, m, c + 1, Len(l)) # {},
         m \in DOMAIN u => u[m] = DeltaSince(l, m, c)
  PROVE  Updates(l, u, ct, m, c)
<1>1. CASE m \in DOMAIN u
  BY <1>1, DeltaSays DEF Updates
<1>2. CASE m \notin DOMAIN u
  <2>1. /\ HasClosed(l, m, Len(l)) <=> HasClosed(l, m, c)
        /\ HasOpened(l, m, Len(l)) <=> HasOpened(l, m, c)
        /\ LastPrice(l, m, 1, Len(l)) = LastPrice(l, m, 1, c)
    BY <1>2, Since
  <2> QED
    BY <1>2, <2>1 DEF Updates, Omits, IsOpen
<1> QED
  BY <1>1, <1>2

\* A new image, whatever clk the reader is at.
LEMMA ImageUpdates ==
  ASSUME NEW l \in Log, Len(l) <= MaxClk, NEW c \in 0..Len(l), NEW m \in Market
  PROVE  Updates(l, SubImage(l), "SUB_IMAGE", m, c)
<1> DEFINE u == SubImage(l)
           n == Len(l)
<1>1. n \in Nat /\ n \in 0..n /\ 0 \in 0..n /\ c \in Nat /\ c <= n /\ 0 + 1 = 1
  BY DEF Log
<1>2. /\ m \in DOMAIN u <=> IsOpen(l, m, n)
      /\ m \in DOMAIN u => u[m] = DeltaSince(l, m, 0)
  BY DEF SubImage
<1> HIDE DEF u
<1>3. CASE IsOpen(l, m, n)
  <2>1. ChangesOf(l, m, 0 + 1, n) # {} /\ ~HasClosed(l, m, n)
    BY <1>1, <1>3 DEF IsOpen, HasOpened
  <2>2. Says(l, DeltaSince(l, m, 0), m, 0)
    BY <1>1, <2>1, DeltaSays
  <2>3. ~HasOpened(l, m, 0)
    BY DEF HasOpened, ChangesOf
  <2>4. DeltaSince(l, m, 0).def # "none"
    BY <2>2, <2>3 DEF Says, IsOpen
  <2>5. LastPrice(l, m, 1, c) <= LastPrice(l, m, 1, n) /\ LastPrice(l, m, 1, n) \in Nat
    BY <1>1, Stays
  <2>6. LastPrice(l, m, 1, c) \in Nat
    BY <1>1, Stays
  <2>7. ASSUME NEW x, Says(l, x, m, 0), x.def # "none"
        PROVE  Says(l, x, m, c)
    <3>1. x.price # 0 /\ x.price = LastPrice(l, m, 1, n)
      BY <1>3, <2>7 DEF Says
    <3>2. x.price >= LastPrice(l, m, 1, c)
      BY <2>5, <2>6, <3>1
    <3> QED
      BY <2>7, <3>1, <3>2 DEF Says
  <2>8. Says(l, DeltaSince(l, m, 0), m, c)
    BY <2>2, <2>4, <2>7
  <2> QED
    BY <1>2, <1>3, <2>8 DEF Updates, u
<1>4. CASE ~IsOpen(l, m, n)
  BY <1>2, <1>4 DEF Updates, Omits, u
<1> QED
  BY <1>3, <1>4

-----------------------------------------------------------------------------
(* What the cache will be after each message in flight, for one market m:    *)
(* the cursor and the price are followed along the queue q.                  *)

Msg == [ct : {"SUB_IMAGE", "RESUB_DELTA", "UPDATE"},
        mc : UNION {[S -> Change] : S \in SUBSET Market},
        segmentType : {"none", "SEG_START", "SEG_END"},
        clk : Nat]

CursorStep(c, msg) == IF msg.segmentType \in {"none", "SEG_END"} THEN msg.clk ELSE c

Cursors(l, q, c) ==
  {k \in [0..Len(q) -> 0..Len(l)] :
     k[0] = c /\ \A i \in 1..Len(q) : k[i] = CursorStep(k[i - 1], q[i])}

\* 0 for a market that is not in the cache, else one more than its price.
PriceIn(ca, m) == IF m \in DOMAIN ca THEN ca[m].price + 1 ELSE 0

PriceStep(x, mc, m) ==
  IF m \notin DOMAIN mc THEN x
  ELSE IF mc[m].price # 0 THEN mc[m].price + 1 ELSE IF mc[m].img \/ x = 0 THEN 1 ELSE x

Prices(q, ca, m) ==
  {p \in [0..Len(q) -> Nat] :
     p[0] = PriceIn(ca, m) /\ \A i \in 1..Len(q) : p[i] = PriceStep(p[i - 1], q[i].mc, m)}

\* Wherever the cursor gets while the market is open, its prices are there.
Kept(l, q, ca, k, m) ==
  \E p \in Prices(q, ca, m) :
    \A i \in 0..Len(q) : IsOpen(l, m, k[i]) => p[i] > LastPrice(l, m, 1, k[i])

Tells(q, i, m) == m \in DOMAIN q[i].mc /\ q[i].mc[m].def = "CLOSED"

ClosedFrom(l, q, m, i) ==
  /\ HasClosed(l, m, Len(l))
  /\ \A j \in i..Len(q) : m \in DOMAIN q[j].mc => Tells(q, j, m)

\* The cache knew the closure, and may have evicted the market since.
Gone(l, q, ca, m) ==
  ClosedFrom(l, q, m, 1) /\ (m \in DOMAIN ca => ca[m].def = "CLOSED")

\* Once a market is told to be closed, it stays so.
Told(l, q, ca, m) ==
  /\ m \in DOMAIN ca => ca[m].def # "none"
  /\ m \in DOMAIN ca /\ ca[m].def = "CLOSED" => ClosedFrom(l, q, m, 1)
  /\ \A i \in 1..Len(q) : Tells(q, i, m) => ClosedFrom(l, q, m, i)

\* A definition is left out for a reader that has the market.
Due(l, q, k, m, i) ==
  m \in DOMAIN q[i].mc /\ q[i].mc[m].def = "none" => ~q[i].mc[m].img /\ IsOpen(l, m, k[i - 1])

\* The cursor passes a closure after it is told.
Passed(l, q, ca, k, m, i) ==
  IsOpen(l, m, k[i - 1]) /\ HasClosed(l, m, k[i]) /\ q[i].ct # "SUB_IMAGE" =>
    Gone(l, q, ca, m) \/ \E j \in 1..i : Tells(q, j, m)

Followed(l, q, ca, k, m) ==
  /\ Told(l, q, ca, m)
  /\ \A i \in 1..Len(q) : Due(l, q, k, m, i)
  /\ \A i \in 1..Len(q) : Passed(l, q, ca, k, m, i)

Right(l, q, ca, k, m) ==
  (Kept(l, q, ca, k, m) \/ Gone(l, q, ca, m)) /\ Followed(l, q, ca, k, m)

Then(f, n, x) == [i \in 0..(n + 1) |-> IF i = n + 1 THEN x ELSE f[i]]

LEMMA Appended ==
  ASSUME NEW q \in Seq(Msg), NEW msg \in Msg
  PROVE  LET r == Append(q, msg)
             n == Len(q) IN
         /\ n \in Nat /\ n + 1 \in 1..(n + 1) /\ 1..(n + 1) = 1..n \cup {n + 1}
         /\ r \in Seq(Msg) /\ Len(r) = n + 1 /\ r[n + 1] = msg
         /\ \A i \in 1..n : r[i] = q[i] /\ i # n + 1 /\ i \in 1..(n + 1)
OBVIOUS

LEMMA CursorAppended ==
  ASSUME NEW l \in Log, NEW q \in Seq(Msg), NEW c, NEW k \in Cursors(l, q, c),
         NEW msg \in Msg, msg.clk \in 0..Len(l)
  PROVE  /\ CursorStep(k[Len(q)], msg) \in 0..Len(l)
         /\ Then(k, Len(q), CursorStep(k[Len(q)], msg)) \in Cursors(l, Append(q, msg), c)
<1> DEFINE n == Len(q)
           r == Append(q, msg)
           x == CursorStep(k[n], msg)
           f == Then(k, n, x)
<1>1. /\ n \in Nat /\ n \in 0..n /\ 1..(n + 1) = 1..n \cup {n + 1}
      /\ Len(r) = n + 1 /\ r[n + 1] = msg
      /\ \A i \in 1..n : r[i] = q[i]
  BY Appended
<1>2. /\ k \in [0..n -> 0..Len(l)] /\ k[0] = c
      /\ \A i \in 1..n : k[i] = CursorStep(k[i - 1], q[i])
  BY DEF Cursors
<1>3. x \in 0..Len(l)
  BY <1>1, <1>2 DEF CursorStep
<1> HIDE DEF n, x
<1>4. /\ f \in [0..(n + 1) -> 0..Len(l)]
      /\ f[n + 1] = x /\ f[0] = k[0]
      /\ \A i \in 0..n : f[i] = k[i]
      /\ \A i \in 1..n : f[i - 1] = k[i - 1]
      /\ f[n + 1 - 1] = k[n]
  BY <1>1, <1>2, <1>3 DEF Then
<1> HIDE DEF f, r
<1>5. ASSUME NEW i \in 1..(n + 1)
      PROVE  f[i] = CursorStep(f[i - 1], r[i])
  <2>1. CASE i = n + 1
    BY <1>1, <1>4, <2>1
  <2>2. CASE i \in 1..n
    BY <1>1, <1>2, <1>4, <2>2
  <2> QED
    BY <1>1, <2>1, <2>2
<1>6. f \in Cursors(l, r, c)
  BY <1>1, <1>2, <1>4, <1>5 DEF Cursors
<1> QED
  BY <1>3, <1>6 DEF f, r, x, n

LEMMA PriceAppended ==
  ASSUME NEW l, NEW q \in Seq(Msg), NEW msg \in Msg, NEW ca, NEW m,
         NEW k, NEW x, NEW p \in Prices(q, ca, m),
         \A i \in 0..Len(q) : IsOpen(l, m, k[i]) => p[i] > LastPrice(l, m, 1, k[i]),
         m \in DOMAIN msg.mc => msg.mc[m].price \in Nat,
         IsOpen(l, m, x) => PriceStep(p[Len(q)], msg.mc, m) > LastPrice(l, m, 1, x)
  PROVE  LET f == Then(p, Len(q), PriceStep(p[Len(q)], msg.mc, m))
             j == Then(k, Len(q), x) IN
         /\ f \in Prices(Append(q, msg), ca, m)
         /\ \A i \in 0..(Len(q) + 1) : IsOpen(l, m, j[i]) => f[i] > LastPrice(l, m, 1, j[i])
<1> DEFINE n == Len(q)
           r == Append(q, msg)
           y == PriceStep(p[n], msg.mc, m)
           f == Then(p, n, y)
           j == Then(k, n, x)
<1>1. /\ n \in Nat /\ n \in 0..n /\ 1..(n + 1) = 1..n \cup {n + 1}
      /\ 0..(n + 1) = 0..n \cup {n + 1}
      /\ Len(r) = n + 1 /\ r[n + 1] = msg
      /\ \A i \in 1..n : r[i] = q[i]
  BY Appended
<1>2. /\ p \in [0..n -> Nat] /\ p[0] = PriceIn(ca, m)
      /\ \A i \in 1..n : p[i] = PriceStep(p[i - 1], q[i].mc, m)
  BY DEF Prices
<1>3. y \in Nat
  BY <1>1, <1>2 DEF PriceStep
<1> HIDE DEF n, y
<1>4. /\ f \in [0..(n + 1) -> Nat]
      /\ f[n + 1] = y /\ f[0] = p[0]
      /\ \A i \in 0..n : f[i] = p[i]
      /\ \A i \in 1..n : f[i - 1] = p[i - 1]
      /\ f[n + 1 - 1] = p[n]
  BY <1>1, <1>2, <1>3 DEF Then
<1>5. j[n + 1] = x /\ \A i \in 0..n : j[i] = k[i]
  BY <1>1 DEF Then
<1> HIDE DEF f, r, j
<1>6. ASSUME NEW i \in 1..(n + 1)
      PROVE  f[i] = PriceStep(f[i - 1], r[i].mc, m)
  <2>1. CASE i = n + 1
    BY <1>1, <1>4, <2>1 DEF y
  <2>2. CASE i \in 1..n
    <3>1. f[i] = p[i] /\ f[i - 1] = p[i - 1] /\ r[i] = q[i] /\ p[i] = PriceStep(p[i - 1], q[i].mc, m)
      BY <1>1, <1>2, <1>4, <2>2
    <3> QED
      BY <3>1
  <2> QED
    BY <1>1, <2>1, <2>2
<1>7. f \in Prices(r, ca, m)
  BY <1>1, <1>2, <1>4, <1>6 DEF Prices
<1>8. \A i \in 0..(n + 1) : IsOpen(l, m, j[i]) => f[i] > LastPrice(l, m, 1, j[i])
  <2>1. \A i \in 0..n : IsOpen(l, m, k[i]) => p[i] > LastPrice(l, m, 1, k[i])
    BY DEF n
  <2>2. IsOpen(l, m, x) => y > LastPrice(l, m, 1, x)
    BY DEF n, y
  <2> QED
    BY <1>1, <1>4, <1>5, <2>1, <2>2
<1> QED
  BY <1>7, <1>8 DEF f, r, j, y, n

LEMMA FollowedAppended ==
  ASSUME NEW l \in Log, NEW q \in Seq(Msg), NEW msg \in Msg, NEW ca, NEW m,
         NEW k, NEW x \in 0..Len(l), Followed(l, q, ca, k, m),
         m \in DOMAIN msg.mc =>
           /\ msg.mc[m].def = "CLOSED" <=> HasClosed(l, m, Len(l))
           /\ msg.mc[m].def = "none" => ~msg.mc[m].img /\ IsOpen(l, m, k[Len(q)]),
         IsOpen(l, m, k[Len(q)]) /\ HasClosed(l, m, x) /\ msg.ct # "SUB_IMAGE" =>
           m \in DOMAIN msg.mc \/ \E i \in 1..Len(q) : Tells(q, i, m)
  PROVE  /\ Followed(l, Append(q, msg), ca, Then(k, Len(q), x), m)
         /\ Gone(l, q, ca, m) => Gone(l, Append(q, msg), ca, m)
<1> DEFINE n == Len(q)
           r == Append(q, msg)
           j == Then(k, n, x)
<1>1. /\ n \in Nat /\ 1..(n + 1) = 1..n \cup {n + 1} /\ n + 1 \in 1..(n + 1) /\ n + 1 - 1 = n
      /\ Len(r) = n + 1 /\ r[n + 1] = msg
      /\ \A i \in 1..n : r[i] = q[i] /\ i \in 1..(n + 1)
  BY Appended
<1>2. /\ j[n + 1] = x /\ j[n] = k[n]
      /\ \A i \in 1..n : j[i] = k[i] /\ j[i - 1] = k[i - 1]
  <2> HIDE DEF n
  <2> QED
    BY <1>1 DEF Then
<1> HIDE DEF r, j
<1>3. HasClosed(l, m, x) => HasClosed(l, m, Len(l))
  <2>1. x \in Nat /\ Len(l) \in Nat /\ x <= Len(l) /\ Len(l) <= Len(l)
    BY DEF Log
  <2> QED
    BY <2>1, Stays
<1>4. \A i \in 1..n : Tells(r, i, m) <=> Tells(q, i, m)
  BY <1>1 DEF Tells
<1>5. Tells(r, n + 1, m) <=> m \in DOMAIN msg.mc /\ HasClosed(l, m, Len(l))
  BY <1>1 DEF Tells
<1>6. ASSUME NEW i \in 1..(n + 1), i \in 1..n => ClosedFrom(l, q, m, i), HasClosed(l, m, Len(l))
      PROVE  ClosedFrom(l, r, m, i)
  <2>1. ASSUME NEW h \in i..(n + 1), m \in DOMAIN r[h].mc
        PROVE  Tells(r, h, m)
    <3>1. CASE h = n + 1
      BY <1>1, <1>5, <1>6, <2>1, <3>1
    <3>2. CASE h # n + 1
      <4>1. i \in 1..n /\ h \in i..n /\ h \in 1..n
        BY <1>1, <3>2
      <4>2. ClosedFrom(l, q, m, i) /\ m \in DOMAIN q[h].mc
        BY <1>1, <1>6, <2>1, <4>1
      <4> QED
        BY <1>4, <4>1, <4>2 DEF ClosedFrom
    <3> QED
      BY <3>1, <3>2
  <2> QED
    BY <1>1, <1>6, <2>1 DEF ClosedFrom
<1>7. ClosedFrom(l, q, m, 1) => ClosedFrom(l, r, m, 1)
  <2>1. 1 \in 1..(n + 1)
    BY <1>1
  <2> QED
    BY <1>6, <2>1 DEF ClosedFrom
<1>8. Gone(l, q, ca, m) => Gone(l, r, ca, m)
  BY <1>7 DEF Gone
<1>9. Told(l, r, ca, m)
  <2>1. ASSUME NEW i \in 1..(n + 1), Tells(r, i, m)
        PROVE  ClosedFrom(l, r, m, i)
    <3>1. CASE i = n + 1
      <4>1. HasClosed(l, m, Len(l)) /\ i \notin 1..n
        BY <1>1, <1>5, <2>1, <3>1
      <4> QED
        BY <1>6, <4>1
    <3>2. CASE i \in 1..n
      <4>1. ClosedFrom(l, q, m, i)
        BY <1>4, <2>1, <3>2 DEF Followed, Told
      <4> QED
        BY <1>6, <4>1 DEF ClosedFrom
    <3> QED
      BY <1>1, <3>1, <3>2
  <2>2. /\ m \in DOMAIN ca => ca[m].def # "none"
        /\ m \in DOMAIN ca /\ ca[m].def = "CLOSED" => ClosedFrom(l, q, m, 1)
    BY DEF Followed, Told
  <2> QED
    BY <1>1, <1>7, <2>1, <2>2 DEF Told
<1>10. ASSUME NEW i \in 1..(n + 1)
       PROVE  Due(l, r, j, m, i)
  <2>1. CASE i = n + 1
    BY <1>1, <1>2, <2>1 DEF Due
  <2>2. CASE i \in 1..n
    <3>1. Due(l, q, k, m, i)
      BY <2>2 DEF Followed
    <3> QED
      BY <1>1, <1>2, <2>2, <3>1 DEF Due
  <2> QED
    BY <1>1, <2>1, <2>2
<1>11. ASSUME NEW i \in 1..(n + 1)
       PROVE  Passed(l, r, ca, j, m, i)
  <2>1. CASE i = n + 1
    <3>1. IsOpen(l, m, k[n]) /\ HasClosed(l, m, x) /\ msg.ct # "SUB_IMAGE" =>
            Tells(r, n + 1, m) \/ \E h \in 1..n : Tells(r, h, m)
      BY <1>3, <1>4, <1>5
    <3> QED
      BY <1>1, <1>2, <2>1, <3>1 DEF Passed
  <2>2. CASE i \in 1..n
    <3>1. Passed(l, q, ca, k, m, i)
      BY <2>2 DEF Followed
    <3>2. 1..i \subseteq 1..n
      BY <1>1, <2>2
    <3>3. (\E h \in 1..i : Tells(q, h, m)) => \E h \in 1..i : Tells(r, h, m)
      BY <1>4, <3>2
    <3>4. r[i] = q[i] /\ j[i] = k[i] /\ j[i - 1] = k[i - 1]
      BY <1>1, <1>2, <2>2
    <3> QED
      BY <1>8, <3>1, <3>3, <3>4 DEF Passed
  <2> QED
    BY <1>1, <2>1, <2>2
<1> QED
  BY <1>1, <1>8, <1>9, <1>10, <1>11 DEF Followed, r, j

\* An update sent whole, to a reader that will be at k[Len(q)] by then.
LEMMA SentWhole ==
  ASSUME NEW l \in Log, NEW q \in Seq(Msg), NEW msg \in Msg, NEW ca, NEW m, NEW k,
         msg.mc \in [DOMAIN msg.mc -> Change],
         Right(l, q, ca, k, m), Updates(l, msg.mc, msg.ct, m, k[Len(q)])
  PROVE  Right(l, Append(q, msg), ca, Then(k, Len(q), Len(l)), m)
<1> DEFINE n == Len(q)
           mc == msg.mc
<1>1. n \in Nat /\ n \in 0..n /\ Len(l) \in Nat /\ Len(l) \in 0..Len(l)
  BY DEF Log
<1>2. /\ Followed(l, Append(q, msg), ca, Then(k, n, Len(l)), m)
      /\ Gone(l, q, ca, m) => Gone(l, Append(q, msg), ca, m)
  <2>1. m \in DOMAIN mc =>
          /\ mc[m].def = "CLOSED" <=> HasClosed(l, m, Len(l))
          /\ mc[m].def = "none" => ~mc[m].img /\ IsOpen(l, m, k[n])
    BY DEF Updates, Says
  <2>2. IsOpen(l, m, k[n]) /\ HasClosed(l, m, Len(l)) /\ msg.ct # "SUB_IMAGE" => m \in DOMAIN mc
    BY DEF Updates, Omits
  <2> QED
    BY <1>1, <2>1, <2>2, FollowedAppended DEF Right
<1>3. ASSUME Kept(l, q, ca, k, m)
      PROVE  Kept(l, Append(q, msg), ca, Then(k, n, Len(l)), m)
  <2>1. PICK p \in Prices(q, ca, m) :
          \A i \in 0..n : IsOpen(l, m, k[i]) => p[i] > LastPrice(l, m, 1, k[i])
    BY <1>3 DEF Kept
  <2>2. m \in DOMAIN mc => mc[m].price \in Nat
    BY BoundAssumption DEF Change
  <2>3. LastPrice(l, m, 1, Len(l)) \in Nat
    <3>1. Len(l) <= Len(l)
      BY <1>1
    <3> QED
      BY <1>1, <3>1, Stays
  <2>4. IsOpen(l, m, Len(l)) => PriceStep(p[n], mc, m) > LastPrice(l, m, 1, Len(l))
    <3>1. CASE m \in DOMAIN mc
      BY <2>2, <2>3, <3>1 DEF Updates, Says, PriceStep
    <3>2. CASE m \notin DOMAIN mc
      BY <1>1, <2>1, <3>2 DEF Updates, Omits, PriceStep
    <3> QED
      BY <3>1, <3>2
  <2>5. /\ Then(p, n, PriceStep(p[n], mc, m)) \in Prices(Append(q, msg), ca, m)
        /\ \A i \in 0..(n + 1) :
             IsOpen(l, m, Then(k, n, Len(l))[i]) =>
               Then(p, n, PriceStep(p[n], mc, m))[i] > LastPrice(l, m, 1, Then(k, n, Len(l))[i])
    BY <2>1, <2>2, <2>4, PriceAppended
  <2>6. Len(Append(q, msg)) = n + 1
    BY Appended
  <2> QED
    BY <2>5, <2>6 DEF Kept
<1> QED
  BY <1>2, <1>3 DEF Right

\* What an update u says of market m is in one of its halves a and b.
Halved(u, a, b, m) ==
  /\ m \in DOMAIN a => m \in DOMAIN u /\ a[m] = u[m] /\ m \notin DOMAIN b
  /\ m \in DOMAIN b => m \in DOMAIN u /\ b[m] = u[m]
  /\ m \in DOMAIN u => m \in DOMAIN a \/ m \in DOMAIN b

\* An update sent in two segments, to a reader at c.
LEMMA SentHalved ==
  ASSUME NEW l \in Log, NEW c \in 0..Len(l), NEW a \in Msg, NEW b \in Msg, NEW ca, NEW m,
         NEW k \in Cursors(l, <<>>, c), NEW u, Halved(u, a.mc, b.mc, m),
         a.mc \in [DOMAIN a.mc -> Change], b.mc \in [DOMAIN b.mc -> Change],
         Right(l, <<>>, ca, k, m), Updates(l, u, b.ct, m, c)
  PROVE  Right(l, Append(Append(<<>>, a), b), ca, Then(Then(k, 0, c), 1, Len(l)), m)
<1> DEFINE q == Append(<<>>, a)
           k1 == Then(k, 0, c)
<1>1. /\ <<>> \in Seq(Msg) /\ Len(<<>>) = 0 /\ q \in Seq(Msg) /\ Len(q) = 1 /\ q[1] = a
      /\ Len(l) \in Nat /\ Len(l) \in 0..Len(l) /\ c \in Nat /\ c <= Len(l) /\ Len(l) <= Len(l)
      /\ Len(Append(q, b)) = 2 /\ 1 + 1 = 2 /\ 1 \in 1..1
  BY DEF Log
<1>2. k[0] = c /\ k1[1] = c /\ k1[0] = c
  BY <1>1 DEF Cursors, Then
<1>3. /\ LastPrice(l, m, 1, c) \in Nat /\ LastPrice(l, m, 1, Len(l)) \in Nat
      /\ LastPrice(l, m, 1, c) <= LastPrice(l, m, 1, Len(l))
  BY <1>1, Stays
<1>4. /\ m \in DOMAIN a.mc => a.mc[m] \in Change /\ a.mc[m].price \in Nat
      /\ m \in DOMAIN b.mc => b.mc[m] \in Change /\ b.mc[m].price \in Nat
  BY BoundAssumption DEF Change
<1> HIDE DEF q, k1
<1>5. m \in DOMAIN u =>
        /\ u[m].def = "CLOSED" <=> HasClosed(l, m, Len(l))
        /\ u[m].def = "none" => ~u[m].img /\ IsOpen(l, m, c)
        /\ IsOpen(l, m, Len(l)) => u[m].price # 0 /\ u[m].price = LastPrice(l, m, 1, Len(l))
        /\ IsOpen(l, m, c) => \/ u[m].price # 0 /\ u[m].price >= LastPrice(l, m, 1, c)
                              \/ u[m].price = 0 /\ ~u[m].img
  BY DEF Updates, Says
<1>6. m \notin DOMAIN u =>
        /\ IsOpen(l, m, Len(l)) =>
             IsOpen(l, m, c) /\ LastPrice(l, m, 1, Len(l)) = LastPrice(l, m, 1, c)
        /\ IsOpen(l, m, c) /\ HasClosed(l, m, Len(l)) => b.ct = "SUB_IMAGE"
  BY DEF Updates, Omits
<1>7. /\ Followed(l, q, ca, k1, m)
      /\ Gone(l, <<>>, ca, m) => Gone(l, q, ca, m)
  <2>1. m \in DOMAIN a.mc =>
          /\ a.mc[m].def = "CLOSED" <=> HasClosed(l, m, Len(l))
          /\ a.mc[m].def = "none" => ~a.mc[m].img /\ IsOpen(l, m, k[Len(<<>>)])
    BY <1>1, <1>2, <1>5 DEF Halved
  <2>2. ~(IsOpen(l, m, k[Len(<<>>)]) /\ HasClosed(l, m, c))
    BY <1>1, <1>2 DEF IsOpen
  <2>3. Followed(l, <<>>, ca, k, m)
    BY DEF Right
  <2>4. /\ Followed(l, Append(<<>>, a), ca, Then(k, Len(<<>>), c), m)
        /\ Gone(l, <<>>, ca, m) => Gone(l, Append(<<>>, a), ca, m)
    BY <1>1, <2>1, <2>2, <2>3, FollowedAppended
  <2> QED
    BY <1>1, <2>4 DEF q, k1
<1>8. /\ Followed(l, Append(q, b), ca, Then(k1, 1, Len(l)), m)
      /\ Gone(l, q, ca, m) => Gone(l, Append(q, b), ca, m)
  <2>1. m \in DOMAIN b.mc =>
          /\ b.mc[m].def = "CLOSED" <=> HasClosed(l, m, Len(l))
          /\ b.mc[m].def = "none" => ~b.mc[m].img /\ IsOpen(l, m, k1[Len(q)])
    BY <1>1, <1>2, <1>5 DEF Halved
  <2>2. IsOpen(l, m, k1[Len(q)]) /\ HasClosed(l, m, Len(l)) /\ b.ct # "SUB_IMAGE" =>
          m \in DOMAIN b.mc \/ Tells(q, 1, m)
    BY <1>1, <1>2, <1>5, <1>6 DEF Halved, Tells
  <2>3. /\ Followed(l, Append(q, b), ca, Then(k1, Len(q), Len(l)), m)
        /\ Gone(l, q, ca, m) => Gone(l, Append(q, b), ca, m)
    BY <1>1, <1>7, <2>1, <2>2, FollowedAppended
  <2> QED
    BY <1>1, <2>3
<1>9. ASSUME Kept(l, <<>>, ca, k, m)
      PROVE  Kept(l, Append(q, b), ca, Then(k1, 1, Len(l)), m)
  <2>1. PICK p \in Prices(<<>>, ca, m) :
          \A i \in 0..0 : IsOpen(l, m, k[i]) => p[i] > LastPrice(l, m, 1, k[i])
    BY <1>1, <1>9 DEF Kept
  <2>2. p[0] \in Nat /\ (IsOpen(l, m, c) => p[0] > LastPrice(l, m, 1, c))
    BY <1>1, <1>2, <2>1 DEF Prices
  <2> DEFINE x == PriceStep(p[0], a.mc, m)
             p1 == Then(p, 0, x)
             y == PriceStep(x, b.mc, m)
             p2 == Then(p1, 1, y)
             k2 == Then(k1, 1, Len(l))
  <2>3. IsOpen(l, m, c) => x > LastPrice(l, m, 1, c)
    BY <1>3, <1>4, <1>5, <2>2 DEF Halved, PriceStep
  <2>4. IsOpen(l, m, Len(l)) => y > LastPrice(l, m, 1, Len(l))
    BY <1>3, <1>4, <1>5, <1>6, <2>2 DEF Halved, PriceStep
  <2> HIDE DEF y
  <2>5. /\ p1 \in Prices(q, ca, m)
        /\ \A i \in 0..1 : IsOpen(l, m, k1[i]) => p1[i] > LastPrice(l, m, 1, k1[i])
    <3>1. \A i \in 0..Len(<<>>) : IsOpen(l, m, k[i]) => p[i] > LastPrice(l, m, 1, k[i])
      BY <1>1, <2>1
    <3>2. IsOpen(l, m, c) => PriceStep(p[Len(<<>>)], a.mc, m) > LastPrice(l, m, 1, c)
      BY <1>1, <2>3
    <3>3. /\ Then(p, Len(<<>>), PriceStep(p[Len(<<>>)], a.mc, m)) \in Prices(q, ca, m)
          /\ \A i \in 0..(Len(<<>>) + 1) :
               IsOpen(l, m, Then(k, Len(<<>>), c)[i]) =>
                 Then(p, Len(<<>>), PriceStep(p[Len(<<>>)], a.mc, m))[i] >
                   LastPrice(l, m, 1, Then(k, Len(<<>>), c)[i])
      BY <1>1, <1>4, <3>1, <3>2, PriceAppended DEF q
    <3>4. Len(<<>>) + 1 = 1
      BY <1>1
    <3> QED
      BY <1>1, <3>3, <3>4 DEF k1
  <2>6. p1[1] = x
    BY DEF Then
  <2> HIDE DEF p1, x
  <2>7. /\ p2 \in Prices(Append(q, b), ca, m)
        /\ \A i \in 0..2 : IsOpen(l, m, k2[i]) => p2[i] > LastPrice(l, m, 1, k2[i])
    <3>1. \A i \in 0..Len(q) : IsOpen(l, m, k1[i]) => p1[i] > LastPrice(l, m, 1, k1[i])
      BY <1>1, <2>5
    <3>2. PriceStep(p1[Len(q)], b.mc, m) = y
      BY <1>1, <2>6 DEF y
    <3>3. IsOpen(l, m, Len(l)) => PriceStep(p1[Len(q)], b.mc, m) > LastPrice(l, m, 1, Len(l))
      BY <2>4, <3>2
    <3>4. /\ Then(p1, Len(q), PriceStep(p1[Len(q)], b.mc, m)) \in Prices(Append(q, b), ca, m)
          /\ \A i \in 0..(Len(q) + 1) :
               IsOpen(l, m, Then(k1, Len(q), Len(l))[i]) =>
                 Then(p1, Len(q), PriceStep(p1[Len(q)], b.mc, m))[i] >
                   LastPrice(l, m, 1, Then(k1, Len(q), Len(l))[i])
      BY <1>1, <1>4, <2>5, <3>1, <3>3, PriceAppended
    <3> QED
      BY <1>1, <3>2, <3>4
  <2> QED
    BY <1>1, <2>7 DEF Kept
<1> QED
  BY <1>7, <1>8, <1>9 DEF Right, q, k1

\* Betfair's log grows before the message is sent.
LEMMA LogGrown ==
  ASSUME NEW l \in Log, NEW e \in [market : Market, closes : BOOLEAN],
         NEW q \in Seq(Msg), NEW c, NEW k \in Cursors(l, q, c), NEW ca, NEW m
  PROVE  /\ k \in Cursors(Append(l, e), q, c)
         /\ Right(l, q, ca, k, m) => Right(Append(l, e), q, ca, k, m)
<1> DEFINE g == Append(l, e)
           n == Len(q)
<1>1. n \in Nat /\ Len(l) \in Nat /\ Len(l) \in 0..Len(l) /\ g \in Log /\ Len(g) = Len(l) + 1
  BY LogAppended DEF Log
<1>2. k \in [0..n -> 0..Len(l)]
  BY DEF Cursors
<1>3. \A i \in 0..n :
        /\ HasClosed(g, m, k[i]) <=> HasClosed(l, m, k[i])
        /\ IsOpen(g, m, k[i]) <=> IsOpen(l, m, k[i])
        /\ LastPrice(g, m, 1, k[i]) = LastPrice(l, m, 1, k[i])
  BY <1>1, <1>2, LogAppended
<1>4. HasClosed(l, m, Len(l)) => HasClosed(g, m, Len(g))
  <2>1. HasClosed(l, m, Len(l)) <=> HasClosed(g, m, Len(l))
    BY <1>1, LogAppended
  <2>2. Len(l) \in Nat /\ Len(g) \in Nat /\ Len(l) <= Len(g) /\ Len(g) <= Len(g)
    BY <1>1
  <2>3. HasClosed(g, m, Len(l)) => HasClosed(g, m, Len(g))
    BY <1>1, <2>2, Stays
  <2> QED
    BY <2>1, <2>3
<1> HIDE DEF g
<1>5. k \in Cursors(g, q, c)
  <2>1. k \in [0..n -> 0..Len(g)]
    BY <1>1, <1>2
  <2> QED
    BY <2>1 DEF Cursors
<1>6. \A i : ClosedFrom(l, q, m, i) => ClosedFrom(g, q, m, i)
  BY <1>4 DEF ClosedFrom
<1>7. Gone(l, q, ca, m) => Gone(g, q, ca, m)
  BY <1>6 DEF Gone
<1>8. Kept(l, q, ca, k, m) => Kept(g, q, ca, k, m)
  BY <1>3 DEF Kept
<1>9. Told(l, q, ca, m) => Told(g, q, ca, m)
  BY <1>6 DEF Told
<1>10. ASSUME NEW i \in 1..n
       PROVE  /\ Due(l, q, k, m, i) => Due(g, q, k, m, i)
              /\ Passed(l, q, ca, k, m, i) => Passed(g, q, ca, k, m, i)
  <2>1. i \in 0..n /\ i - 1 \in 0..n
    BY <1>1
  <2> QED
    BY <1>3, <1>7, <2>1 DEF Due, Passed
<1> QED
  BY <1>5, <1>7, <1>8, <1>9, <1>10 DEF Right, Followed, g

Shifted(f, n) == [i \in 0..(n - 1) |-> f[i + 1]]

\* The cache after a message that says mc.
Takes(ca, mc, to) ==
  /\ DOMAIN to = DOMAIN ca \cup DOMAIN mc
  /\ \A m \in DOMAIN to :
       to[m] = IF m \in DOMAIN mc
               THEN Changed(IF m \in DOMAIN ca THEN ca[m] ELSE NewEntry, mc[m])
               ELSE ca[m]

LEMMA Tailed ==
  ASSUME NEW q \in Seq(Msg), q # <<>>
  PROVE  LET n == Len(q) IN
         /\ n \in Nat /\ n >= 1 /\ 1 \in 1..n
         /\ Tail(q) \in Seq(Msg) /\ Len(Tail(q)) = n - 1 /\ Head(q) = q[1] /\ Head(q) \in Msg
         /\ \A i \in 1..(n - 1) : Tail(q)[i] = q[i + 1] /\ i + 1 \in 1..n /\ i + 1 \in 2..n
         /\ \A i \in 2..n : i - 1 \in 1..(n - 1) /\ i - 1 + 1 = i
OBVIOUS

LEMMA CursorShifted ==
  ASSUME NEW l \in Log, NEW q \in Seq(Msg), q # <<>>, NEW c, NEW k \in Cursors(l, q, c)
  PROVE  Shifted(k, Len(q)) \in Cursors(l, Tail(q), CursorStep(c, Head(q)))
<1> DEFINE n == Len(q)
           t == Tail(q)
           f == Shifted(k, n)
<1>1. /\ n \in Nat /\ n >= 1 /\ 1 \in 1..n /\ Len(t) = n - 1 /\ Head(q) = q[1]
      /\ \A i \in 1..(n - 1) : t[i] = q[i + 1] /\ i + 1 \in 1..n
  BY Tailed
<1>2. /\ k \in [0..n -> 0..Len(l)] /\ k[0] = c
      /\ \A i \in 1..n : k[i] = CursorStep(k[i - 1], q[i])
  BY DEF Cursors
<1> HIDE DEF n, t
<1>3. f \in [0..(n - 1) -> 0..Len(l)] /\ \A i \in 0..(n - 1) : f[i] = k[i + 1]
  BY <1>1, <1>2 DEF Shifted
<1> HIDE DEF f
<1>4. f[0] = CursorStep(c, q[1])
  <2>1. 0 \in 0..(n - 1) /\ 0 + 1 = 1 /\ 1 - 1 = 0
    BY <1>1
  <2>2. f[0] = k[1] /\ k[1] = CursorStep(k[0], q[1])
    BY <1>1, <1>2, <1>3, <2>1
  <2> QED
    BY <1>2, <2>2
<1>5. ASSUME NEW i \in 1..(n - 1)
      PROVE  f[i] = CursorStep(f[i - 1], t[i])
  <2>1. i \in 0..(n - 1) /\ i - 1 \in 0..(n - 1) /\ i - 1 + 1 = i /\ i + 1 - 1 = i
    BY <1>1
  <2>2. f[i] = k[i + 1] /\ f[i - 1] = k[i] /\ t[i] = q[i + 1] /\ i + 1 \in 1..n
    BY <1>1, <1>3, <2>1
  <2>3. k[i + 1] = CursorStep(k[i + 1 - 1], q[i + 1])
    BY <1>2, <2>2
  <2> QED
    BY <2>1, <2>2, <2>3
<1>6. f \in Cursors(l, t, CursorStep(c, q[1]))
  BY <1>1, <1>3, <1>4, <1>5 DEF Cursors
<1> QED
  BY <1>1, <1>6 DEF f, t, n

LEMMA KeptShifted ==
  ASSUME NEW l \in Log, NEW q \in Seq(Msg), q # <<>>, NEW ca, NEW to, NEW k, NEW m,
         Kept(l, q, ca, k, m), PriceIn(to, m) = PriceStep(PriceIn(ca, m), Head(q).mc, m)
  PROVE  Kept(l, Tail(q), to, Shifted(k, Len(q)), m)
<1> DEFINE n == Len(q)
           t == Tail(q)
           j == Shifted(k, n)
<1>1. /\ n \in Nat /\ n >= 1 /\ 1 \in 1..n /\ Len(t) = n - 1 /\ Head(q) = q[1]
      /\ \A i \in 1..(n - 1) : t[i] = q[i + 1] /\ i + 1 \in 1..n
  BY Tailed
<1>2. PICK p \in Prices(q, ca, m) :
        \A i \in 0..n : IsOpen(l, m, k[i]) => p[i] > LastPrice(l, m, 1, k[i])
  BY DEF Kept
<1>3. /\ p \in [0..n -> Nat] /\ p[0] = PriceIn(ca, m)
      /\ \A i \in 1..n : p[i] = PriceStep(p[i - 1], q[i].mc, m)
  BY DEF Prices
<1> DEFINE f == Shifted(p, n)
<1> HIDE DEF n, t
<1>4. /\ f \in [0..(n - 1) -> Nat]
      /\ \A i \in 0..(n - 1) : f[i] = p[i + 1] /\ j[i] = k[i + 1] /\ i + 1 \in 0..n
  BY <1>1, <1>3 DEF Shifted
<1> HIDE DEF f, j
<1>5. f[0] = PriceIn(to, m)
  <2>1. 0 \in 0..(n - 1) /\ 0 + 1 = 1 /\ 1 - 1 = 0
    BY <1>1
  <2>2. f[0] = p[1] /\ p[1] = PriceStep(p[0], q[1].mc, m)
    BY <1>1, <1>3, <1>4, <2>1
  <2> QED
    BY <1>1, <1>3, <2>2
<1>6. ASSUME NEW i \in 1..(n - 1)
      PROVE  f[i] = PriceStep(f[i - 1], t[i].mc, m)
  <2>1. i \in 0..(n - 1) /\ i - 1 \in 0..(n - 1) /\ i - 1 + 1 = i /\ i + 1 - 1 = i
    BY <1>1
  <2>2. f[i] = p[i + 1] /\ f[i - 1] = p[i] /\ t[i] = q[i + 1] /\ i + 1 \in 1..n
    BY <1>1, <1>4, <2>1
  <2>3. p[i + 1] = PriceStep(p[i + 1 - 1], q[i + 1].mc, m)
    BY <1>3, <2>2
  <2> QED
    BY <2>1, <2>2, <2>3
<1>7. f \in Prices(t, to, m)
  BY <1>1, <1>4, <1>5, <1>6 DEF Prices
<1>8. \A i \in 0..(n - 1) : IsOpen(l, m, j[i]) => f[i] > LastPrice(l, m, 1, j[i])
  BY <1>2, <1>4
<1> QED
  BY <1>1, <1>7, <1>8 DEF Kept, j, n, t

LEMMA Handled ==
  ASSUME NEW l \in Log, NEW q \in Seq(Msg), q # <<>>, NEW c, NEW k \in Cursors(l, q, c),
         NEW ca, NEW to, NEW m, Takes(ca, Head(q).mc, to),
         m \in DOMAIN Head(q).mc => Head(q).mc[m] \in Change,
         m \in DOMAIN ca => ca[m] \in Entry,
         Right(l, q, ca, k, m)
  PROVE  Right(l, Tail(q), to, Shifted(k, Len(q)), m)
<1> DEFINE n == Len(q)
           t == Tail(q)
           j == Shifted(k, n)
           x == Head(q).mc[m]
           says == m \in DOMAIN Head(q).mc
           e == IF m \in DOMAIN ca THEN ca[m] ELSE NewEntry
<1>1. /\ n \in Nat /\ n >= 1 /\ 1 \in 1..n /\ Len(t) = n - 1 /\ Head(q) = q[1]
      /\ \A i \in 1..(n - 1) : t[i] = q[i + 1] /\ i + 1 \in 1..n /\ i + 1 \in 2..n
  BY Tailed
<1>2. /\ m \in DOMAIN to <=> m \in DOMAIN ca \/ says
      /\ says => to[m] = Changed(e, x)
      /\ m \in DOMAIN ca /\ ~says => to[m] = ca[m]
  BY DEF Takes
<1>3. /\ says => x \in Change /\ x.price \in Nat
      /\ m \in DOMAIN ca => ca[m].price \in Nat
  BY BoundAssumption DEF Change, Entry
<1>4. Tells(q, 1, m) <=> says /\ x.def = "CLOSED"
  BY <1>1 DEF Tells
<1> HIDE DEF n, t, says, x
<1>5. PriceIn(to, m) = PriceStep(PriceIn(ca, m), Head(q).mc, m)
  <2>1. CASE says
    <3>1. m \in DOMAIN to /\ to[m] = Changed(e, x)
      BY <1>2, <2>1
    <3>2. to[m].price = IF x.price # 0 THEN x.price ELSE IF x.img THEN 0 ELSE e.price
      BY <3>1 DEF Changed
    <3>3. e.price = IF m \in DOMAIN ca THEN ca[m].price ELSE 0
      BY DEF NewEntry
    <3>4. PriceStep(PriceIn(ca, m), Head(q).mc, m) =
            IF x.price # 0 THEN x.price + 1
            ELSE IF x.img \/ PriceIn(ca, m) = 0 THEN 1 ELSE PriceIn(ca, m)
      BY <2>1 DEF PriceStep, says, x
    <3> HIDE DEF e
    <3> QED
      BY <1>3, <2>1, <3>1, <3>2, <3>3, <3>4 DEF PriceIn
  <2>2. CASE ~says
    BY <1>2, <2>2 DEF PriceIn, PriceStep, says
  <2> QED
    BY <2>1, <2>2
<1>6. j \in [0..(n - 1) -> 0..Len(l)] /\ \A i \in 0..(n - 1) : j[i] = k[i + 1]
  BY <1>1 DEF Shifted, Cursors, n
<1> HIDE DEF j
<1>7. \A i \in 1..(n - 1) : Tells(t, i, m) <=> Tells(q, i + 1, m)
  BY <1>1 DEF Tells
<1>8. ASSUME NEW i \in Nat, i >= 1, ClosedFrom(l, q, m, i) \/ ClosedFrom(l, q, m, i + 1)
      PROVE  ClosedFrom(l, t, m, i)
  <2>1. ASSUME NEW h \in i..(n - 1), m \in DOMAIN t[h].mc
        PROVE  Tells(t, h, m)
    <3>1. h \in 1..(n - 1) /\ h + 1 \in i..n /\ h + 1 \in (i + 1)..n
      BY <1>1, <1>8
    <3>2. t[h] = q[h + 1]
      BY <1>1, <3>1
    <3>3. Tells(q, h + 1, m)
      BY <1>8, <2>1, <3>1, <3>2 DEF ClosedFrom, n
    <3> QED
      BY <1>7, <3>1, <3>3
  <2> QED
    BY <1>1, <1>8, <2>1 DEF ClosedFrom
<1>9. Told(l, q, ca, m)
  BY DEF Right, Followed
<1>10. ASSUME ClosedFrom(l, q, m, 1), m \in DOMAIN ca => ca[m].def = "CLOSED"
       PROVE  Gone(l, t, to, m)
  <2>1. says => x.def = "CLOSED"
    BY <1>1, <1>4, <1>10 DEF ClosedFrom, says, n
  <2>2. m \in DOMAIN to => to[m].def = "CLOSED"
    BY <1>2, <1>10, <2>1 DEF Changed
  <2>3. ClosedFrom(l, t, m, 1)
    BY <1>8, <1>10
  <2> QED
    BY <2>2, <2>3 DEF Gone
<1>11. ASSUME Tells(q, 1, m)
       PROVE  Gone(l, t, to, m)
  <2>1. ClosedFrom(l, q, m, 1)
    BY <1>1, <1>9, <1>11 DEF Told, n
  <2>2. m \in DOMAIN to => to[m].def = "CLOSED"
    BY <1>2, <1>4, <1>11 DEF Changed
  <2>3. ClosedFrom(l, t, m, 1)
    BY <1>8, <2>1
  <2> QED
    BY <2>2, <2>3 DEF Gone
<1>12. Kept(l, t, to, j, m) \/ Gone(l, t, to, m)
  <2>1. CASE Kept(l, q, ca, k, m)
    BY <1>5, <2>1, KeptShifted DEF t, j, n
  <2>2. CASE Gone(l, q, ca, m)
    BY <1>10, <2>2 DEF Gone
  <2> QED
    BY <2>1, <2>2 DEF Right
<1>13. m \in DOMAIN to => to[m].def # "none"
  <2>1. CASE says /\ x.def = "none"
    <3>1. ~x.img /\ IsOpen(l, m, k[0])
      <4>1. Due(l, q, k, m, 1)
        BY <1>1 DEF Right, Followed, n
      <4>2. 1 - 1 = 0
        OBVIOUS
      <4> QED
        BY <1>1, <2>1, <4>1, <4>2 DEF Due, says, x
    <3>2. m \in DOMAIN ca
      <4>1. CASE Gone(l, q, ca, m)
        BY <1>1, <1>4, <2>1, <4>1 DEF Gone, ClosedFrom, says, n
      <4>2. CASE Kept(l, q, ca, k, m)
        <5>1. PICK p \in Prices(q, ca, m) :
                \A i \in 0..n : IsOpen(l, m, k[i]) => p[i] > LastPrice(l, m, 1, k[i])
          BY <4>2 DEF Kept, n
        <5>2. k[0] \in 0..Len(l) /\ 0 \in 0..n /\ Len(l) \in Nat
          BY <1>1 DEF Cursors, n, Log
        <5>3. LastPrice(l, m, 1, k[0]) \in Nat
          <6>1. k[0] \in Nat /\ k[0] <= Len(l) /\ k[0] <= k[0]
            BY <5>2
          <6> QED
            BY <6>1, Stays
        <5>4. p[0] > LastPrice(l, m, 1, k[0]) /\ p[0] = PriceIn(ca, m)
          BY <3>1, <5>1, <5>2 DEF Prices
        <5> QED
          BY <5>3, <5>4 DEF PriceIn
      <4> QED
        BY <4>1, <4>2 DEF Right
    <3> QED
      BY <1>2, <1>9, <2>1, <3>1, <3>2 DEF Changed, Told
  <2>2. CASE says /\ x.def # "none"
    BY <1>2, <2>2 DEF Changed
  <2>3. CASE ~says
    BY <1>2, <1>9, <2>3 DEF Told
  <2> QED
    BY <2>1, <2>2, <2>3
<1>14. ASSUME m \in DOMAIN to, to[m].def = "CLOSED"
       PROVE  ClosedFrom(l, t, m, 1)
  <2>1. CASE says /\ x.def = "CLOSED"
    BY <1>4, <1>11, <2>1 DEF Gone
  <2>2. CASE ~(says /\ x.def = "CLOSED")
    <3>1. m \in DOMAIN ca /\ ca[m].def = "CLOSED"
      BY <1>2, <1>14, <2>2 DEF Changed, NewEntry
    <3>2. ClosedFrom(l, q, m, 1)
      BY <1>9, <3>1 DEF Told
    <3> QED
      BY <1>8, <3>2
  <2> QED
    BY <2>1, <2>2
<1>15. ASSUME NEW i \in 1..(n - 1)
       PROVE  /\ Tells(t, i, m) => ClosedFrom(l, t, m, i)
              /\ Due(l, t, j, m, i)
              /\ Passed(l, t, to, j, m, i)
  <2>1. /\ i + 1 \in 1..n /\ i + 1 - 1 = i /\ i \in 0..(n - 1) /\ i - 1 \in 0..(n - 1)
        /\ i - 1 + 1 = i /\ i \in Nat /\ i >= 1
    BY <1>1
  <2>2. t[i] = q[i + 1] /\ j[i] = k[i + 1] /\ j[i - 1] = k[i]
    BY <1>1, <1>6, <2>1
  <2>3. Tells(t, i, m) => ClosedFrom(l, t, m, i)
    <3>1. Tells(t, i, m) => ClosedFrom(l, q, m, i + 1)
      BY <1>7, <1>9, <2>1 DEF Told, n
    <3> QED
      BY <1>8, <2>1, <3>1
  <2>4. Due(l, q, k, m, i + 1) /\ Passed(l, q, ca, k, m, i + 1)
    BY <2>1 DEF Right, Followed, n
  <2>5. Due(l, t, j, m, i)
    BY <2>1, <2>2, <2>4 DEF Due
  <2>6. Gone(l, q, ca, m) => Gone(l, t, to, m)
    BY <1>10 DEF Gone
  <2>7. ASSUME NEW h \in 1..(i + 1), Tells(q, h, m)
        PROVE  Gone(l, t, to, m) \/ \E g \in 1..i : Tells(t, g, m)
    <3>1. CASE h = 1
      BY <1>11, <2>7, <3>1
    <3>2. CASE h # 1
      <4>1. h - 1 \in 1..i /\ h - 1 \in 1..(n - 1) /\ h - 1 + 1 = h
        BY <1>1, <2>1, <3>2
      <4>2. Tells(t, h - 1, m)
        BY <1>7, <2>7, <4>1
      <4> QED
        BY <4>1, <4>2
    <3> QED
      BY <3>1, <3>2
  <2>8. Passed(l, t, to, j, m, i)
    <3>1. IsOpen(l, m, k[i]) /\ HasClosed(l, m, k[i + 1]) /\ q[i + 1].ct # "SUB_IMAGE" =>
            Gone(l, q, ca, m) \/ \E h \in 1..(i + 1) : Tells(q, h, m)
      BY <2>1, <2>4 DEF Passed
    <3>2. IsOpen(l, m, k[i]) /\ HasClosed(l, m, k[i + 1]) /\ q[i + 1].ct # "SUB_IMAGE" =>
            Gone(l, t, to, m) \/ \E h \in 1..i : Tells(t, h, m)
      BY <2>6, <2>7, <3>1
    <3> QED
      BY <2>2, <3>2 DEF Passed
  <2> QED
    BY <2>3, <2>5, <2>8
<1> QED
  BY <1>1, <1>12, <1>13, <1>14, <1>15 DEF Right, Followed, Told, t, j, n

\* Nothing changes for a market the sweep leaves, or for one it evicts.
LEMMA Evicted ==
  ASSUME NEW l, NEW q, NEW ca, NEW to, NEW k, NEW m,
         DOMAIN to = {x \in DOMAIN ca : ca[x].def # "CLOSED"},
         \A x \in DOMAIN to : to[x] = ca[x],
         Right(l, q, ca, k, m)
  PROVE  Right(l, q, to, k, m)
<1>1. Gone(l, q, ca, m) => Gone(l, q, to, m)
  BY DEF Gone
<1>2. Told(l, q, to, m)
  BY DEF Right, Followed, Told
<1>3. \A i \in 1..Len(q) : Passed(l, q, to, k, m, i)
  BY <1>1 DEF Right, Followed, Passed
<1>4. CASE m \in DOMAIN ca /\ ca[m].def = "CLOSED"
  <2>1. Gone(l, q, to, m)
    BY <1>4 DEF Right, Followed, Told, Gone
  <2> QED
    BY <1>2, <1>3, <2>1 DEF Right, Followed
<1>5. CASE ~(m \in DOMAIN ca /\ ca[m].def = "CLOSED")
  <2>1. PriceIn(to, m) = PriceIn(ca, m)
    BY <1>5 DEF PriceIn
  <2>2. Kept(l, q, ca, k, m) => Kept(l, q, to, k, m)
    BY <2>1 DEF Kept, Prices
  <2> QED
    BY <1>1, <1>2, <1>3, <2>2 DEF Right, Followed
<1> QED
  BY <1>4, <1>5

Only(c) == [i \in 0..0 |-> c]

LEMMA OnlyCursor ==
  ASSUME NEW l, NEW c \in 0..Len(l)
  PROVE  Only(c) \in Cursors(l, <<>>, c) /\ Only(c)[0] = c
<1>1. Len(<<>>) = 0 /\ 1..0 = {}
  OBVIOUS
<1> QED
  BY <1>1 DEF Cursors, Only

\* What was in flight is lost with its connection.
LEMMA Dropped ==
  ASSUME NEW l, NEW q \in Seq(Msg), NEW c, NEW k \in Cursors(l, q, c), NEW ca, NEW m,
         Right(l, q, ca, k, m)
  PROVE  Right(l, <<>>, ca, Only(c), m)
<1>1. Len(<<>>) = 0 /\ 1..0 = {} /\ 0..0 = {0} /\ \A i \in 1..0 : FALSE
  OBVIOUS
<1>2. k[0] = c /\ Only(c)[0] = c /\ Len(q) \in Nat
  BY DEF Cursors, Only
<1>3. \A i \in Nat : i >= 1 /\ ClosedFrom(l, q, m, i) => ClosedFrom(l, <<>>, m, 1)
  BY <1>1 DEF ClosedFrom
<1>4. Followed(l, <<>>, ca, Only(c), m)
  <2>1. m \in DOMAIN ca /\ ca[m].def = "CLOSED" => ClosedFrom(l, <<>>, m, 1)
    BY <1>3 DEF Right, Followed, Told
  <2> QED
    BY <1>1, <2>1 DEF Right, Followed, Told
<1>5. Gone(l, q, ca, m) => Gone(l, <<>>, ca, m)
  BY <1>3 DEF Gone
<1>6. ASSUME Kept(l, q, ca, k, m)
      PROVE  Kept(l, <<>>, ca, Only(c), m)
  <2>1. PICK p \in Prices(q, ca, m) :
          \A i \in 0..Len(q) : IsOpen(l, m, k[i]) => p[i] > LastPrice(l, m, 1, k[i])
    BY <1>6 DEF Kept
  <2>2. p[0] \in Nat /\ p[0] = PriceIn(ca, m) /\ (IsOpen(l, m, c) => p[0] > LastPrice(l, m, 1, c))
    BY <1>2, <2>1 DEF Prices
  <2>3. Only(p[0]) \in Prices(<<>>, ca, m) /\ Only(p[0])[0] = p[0]
    BY <1>1, <2>2 DEF Prices, Only
  <2> QED
    BY <1>1, <1>2, <2>2, <2>3 DEF Kept
<1> QED
  BY <1>4, <1>5, <1>6 DEF Right

\* A process that starts knows nothing, and starts from clk 0.
LEMMA Restarted ==
  ASSUME NEW l \in Log, NEW m
  PROVE  Right(l, <<>>, <<>>, Only(0), m)
<1>1. Len(<<>>) = 0 /\ 0..0 = {0} /\ DOMAIN <<>> = {} /\ \A i \in 1..0 : FALSE
  OBVIOUS
<1>2. Only(0)[0] = 0 /\ ~IsOpen(l, m, 0)
  BY DEF Only, IsOpen, HasOpened, ChangesOf
<1>3. Only(0) \in Prices(<<>>, <<>>, m)
  BY <1>1 DEF Prices, PriceIn, Only
<1>4. Kept(l, <<>>, <<>>, Only(0), m)
  BY <1>1, <1>2, <1>3 DEF Kept
<1> QED
  BY <1>1, <1>4 DEF Right, Followed, Told

-----------------------------------------------------------------------------
(* The invariant.                                                            *)

TypeInv ==
  /\ log \in Log /\ Len(log) <= MaxClk
  /\ link \in {"up", "down"}
  /\ link = "down" => inbox = <<>>
  /\ inbox \in Seq(Msg)
  /\ DOMAIN cache \subseteq Market
  /\ \A m \in DOMAIN cache : cache[m] \in Entry
  /\ warned \in BOOLEAN /\ announced \in BOOLEAN

\* Whatever is read next, the cache is right where the cursor is then, and
\* while the connection is up the cursor gets to the end of the log.
ReadInv ==
  \E k \in Cursors(log, inbox, clk) :
    /\ link = "up" => k[Len(inbox)] = Len(log)
    /\ \A m \in Market : Right(log, inbox, cache, k, m)

LEMMA MsgIs ==
  ASSUME NEW ct \in {"SUB_IMAGE", "RESUB_DELTA", "UPDATE"},
         NEW seg \in {"none", "SEG_START", "SEG_END"}, NEW c \in Nat,
         NEW S \in SUBSET Market, NEW mc \in [S -> Change]
  PROVE  [ct |-> ct, mc |-> mc, segmentType |-> seg, clk |-> c] \in Msg
<1>1. mc \in UNION {[T -> Change] : T \in SUBSET Market}
  OBVIOUS
<1> QED
  BY <1>1 DEF Msg

LEMMA MsgHas ==
  ASSUME NEW msg \in Msg
  PROVE  DOMAIN msg.mc \subseteq Market /\ msg.mc \in [DOMAIN msg.mc -> Change]
<1>1. PICK S \in SUBSET Market : msg.mc \in [S -> Change]
  BY DEF Msg
<1> QED
  BY <1>1

LEMMA ClkInLog ==
  ASSUME TypeInv, ReadInv
  PROVE  clk \in 0..Len(log)
<1>1. PICK k \in Cursors(log, inbox, clk) : TRUE
  BY DEF ReadInv
<1>2. Len(inbox) \in Nat /\ 0 \in 0..Len(inbox)
  BY DEF TypeInv
<1> QED
  BY <1>1, <1>2 DEF Cursors

LEMMA NothingYet ==
  <<>> \in Seq(Msg) /\ <<>> \in Log /\ Len(<<>>) = 0 /\ DOMAIN <<>> = {}
BY DEF Log

LEMMA InitInv == Init => TypeInv /\ ReadInv
<1> SUFFICES ASSUME Init PROVE TypeInv /\ ReadInv
  OBVIOUS
<1>1. TypeInv
  <2>1. log \in Log /\ Len(log) <= MaxClk /\ inbox \in Seq(Msg) /\ inbox = <<>>
    BY BoundAssumption, NothingYet DEF Init
  <2>2. DOMAIN cache = {}
    BY NothingYet DEF Init
  <2> QED
    BY <2>1, <2>2 DEF Init, TypeInv
<1>2. log \in Log /\ 0 \in 0..Len(log)
  BY DEF Init, Log
<1>3. Only(0) \in Cursors(log, <<>>, 0)
  BY <1>2, OnlyCursor
<1>4. \A m \in Market : Right(log, <<>>, <<>>, Only(0), m)
  BY <1>2, Restarted
<1> QED
  BY <1>1, <1>3, <1>4 DEF Init, ReadInv

LEMMA DropStep ==
  ASSUME TypeInv, ReadInv, Drop
  PROVE  TypeInv' /\ ReadInv'
<1>1. PICK k \in Cursors(log, inbox, clk) : \A m \in Market : Right(log, inbox, cache, k, m)
  BY DEF ReadInv
<1>2. TypeInv'
  BY DEF TypeInv, Drop
<1>3. Only(clk) \in Cursors(log, <<>>, clk)
  BY ClkInLog, OnlyCursor
<1>4. \A m \in Market : Right(log, <<>>, cache, Only(clk), m)
  BY <1>1, Dropped DEF TypeInv
<1> QED
  BY <1>2, <1>3, <1>4 DEF ReadInv, Drop

LEMMA RestartStep ==
  ASSUME TypeInv, ReadInv, Restart
  PROVE  TypeInv' /\ ReadInv'
<1>1. log \in Log /\ 0 \in 0..Len(log)
  BY DEF TypeInv, Log
<1>2. TypeInv'
  BY NothingYet DEF TypeInv, Restart
<1>3. Only(0) \in Cursors(log, <<>>, 0)
  BY <1>1, OnlyCursor
<1>4. \A m \in Market : Right(log, <<>>, <<>>, Only(0), m)
  BY <1>1, Restarted
<1> QED
  BY <1>2, <1>3, <1>4 DEF ReadInv, Restart

LEMMA RemoveClosedStep ==
  ASSUME TypeInv, ReadInv, RemoveClosed
  PROVE  TypeInv' /\ ReadInv'
<1>1. /\ DOMAIN cache' = {x \in DOMAIN cache : cache[x].def # "CLOSED"}
      /\ \A x \in DOMAIN cache' : cache'[x] = cache[x]
      /\ UNCHANGED <<log, link, inbox, clk, warned, announced>>
  BY DEF RemoveClosed, Evictable
<1>2. TypeInv'
  BY <1>1 DEF TypeInv
<1>3. PICK k \in Cursors(log, inbox, clk) :
        /\ link = "up" => k[Len(inbox)] = Len(log)
        /\ \A m \in Market : Right(log, inbox, cache, k, m)
  BY DEF ReadInv
<1>4. \A m \in Market : Right(log, inbox, cache', k, m)
  BY <1>1, <1>3, Evicted
<1> QED
  BY <1>1, <1>2, <1>3, <1>4 DEF ReadInv

LEMMA HandleTakes ==
  ASSUME HandleMcm
  PROVE  /\ Takes(cache, Head(inbox).mc, cache')
         /\ clk' = CursorStep(clk, Head(inbox))
         /\ inbox # <<>> /\ inbox' = Tail(inbox) /\ link = "up"
         /\ UNCHANGED <<log, link>>
BY DEF HandleMcm, Applied, Takes, CursorAfter, CursorStep

LEMMA HandleMcmStep ==
  ASSUME TypeInv, ReadInv, HandleMcm
  PROVE  TypeInv' /\ ReadInv'
<1> DEFINE msg == Head(inbox)
           n == Len(inbox)
<1>1. /\ Takes(cache, msg.mc, cache') /\ clk' = CursorStep(clk, msg)
      /\ inbox # <<>> /\ inbox' = Tail(inbox) /\ link = "up"
      /\ UNCHANGED <<log, link>>
  BY HandleTakes
<1>2. /\ n \in Nat /\ n >= 1 /\ msg \in Msg /\ inbox' \in Seq(Msg) /\ Len(inbox') = n - 1
  BY <1>1, Tailed DEF TypeInv
<1>3. DOMAIN msg.mc \subseteq Market /\ msg.mc \in [DOMAIN msg.mc -> Change]
  BY <1>2, MsgHas
<1>4. DOMAIN cache' \subseteq Market
  BY <1>1, <1>3 DEF Takes, TypeInv
<1>5. ASSUME NEW m \in DOMAIN cache'
      PROVE  cache'[m] \in Entry
  <2>1. CASE m \in DOMAIN msg.mc
    <3>1. msg.mc[m] \in Change
      BY <1>3, <2>1
    <3>2. ASSUME NEW e \in Entry, NEW c \in Change
          PROVE  Changed(e, c) \in Entry
      BY BoundAssumption DEF Changed, Entry, Change, Definition
    <3>3. NewEntry \in Entry
      BY BoundAssumption DEF NewEntry, Entry, Definition
    <3>4. m \in DOMAIN cache => cache[m] \in Entry
      BY DEF TypeInv
    <3> QED
      BY <1>1, <1>5, <2>1, <3>1, <3>2, <3>3, <3>4 DEF Takes
  <2>2. CASE m \notin DOMAIN msg.mc
    BY <1>1, <1>5, <2>2 DEF Takes, TypeInv
  <2> QED
    BY <2>1, <2>2
<1>6. warned' \in BOOLEAN /\ announced' \in BOOLEAN
  <2>1. CASE UNCHANGED <<warned, announced>>
    BY <2>1 DEF TypeInv
  <2>2. CASE GuardChecks(Cardinality(DOMAIN cache'))
    <3> HIDE DEF msg, n
    <3>1. warned' \in BOOLEAN
      BY <2>2 DEF TypeInv, GuardChecks
    <3>2. announced' \in BOOLEAN
      <4>1. CASE UNCHANGED announced
        BY <4>1 DEF TypeInv
      <4>2. CASE announced' = Publishes("gateway_subscription_warning")
        BY <4>2 DEF Publishes
      <4> QED
        BY <2>2, <4>1, <4>2 DEF GuardChecks
    <3> QED
      BY <3>1, <3>2
  <2> QED
    BY <2>1, <2>2 DEF HandleMcm
<1>7. TypeInv'
  BY <1>1, <1>2, <1>4, <1>5, <1>6 DEF TypeInv
<1>8. PICK k \in Cursors(log, inbox, clk) :
        /\ k[n] = Len(log)
        /\ \A m \in Market : Right(log, inbox, cache, k, m)
  BY <1>1 DEF ReadInv
<1>9. Shifted(k, n) \in Cursors(log, inbox', clk')
  BY <1>1, <1>8, CursorShifted DEF TypeInv
<1>10. Shifted(k, n)[n - 1] = Len(log)
  BY <1>2, <1>8 DEF Shifted
<1>11. ASSUME NEW m \in Market
       PROVE  Right(log, inbox', cache', Shifted(k, n), m)
  <2>1. m \in DOMAIN msg.mc => msg.mc[m] \in Change
    BY <1>3
  <2>2. m \in DOMAIN cache => cache[m] \in Entry
    BY DEF TypeInv
  <2>3. Right(log, Tail(inbox), cache', Shifted(k, Len(inbox)), m)
    BY <1>1, <1>8, <2>1, <2>2, Handled DEF TypeInv
  <2> QED
    BY <1>1, <2>3
<1>12. ReadInv'
  BY <1>1, <1>2, <1>9, <1>10, <1>11 DEF ReadInv
<1> QED
  BY <1>7, <1>12

\* An answer to a subscription, whole or in two segments.
LEMMA Answered ==
  ASSUME TypeInv, ReadInv, inbox = <<>>,
         NEW ct \in {"SUB_IMAGE", "RESUB_DELTA", "UPDATE"}, NEW u,
         u \in [DOMAIN u -> Change], DOMAIN u \subseteq Market,
         \A m \in Market : Updates(log, u, ct, m, clk),
         NEW q \in Segmentations(ct, u)
  PROVE  /\ q \in Seq(Msg)
         /\ \E k \in Cursors(log, q, clk) :
              k[Len(q)] = Len(log) /\ \A m \in Market : Right(log, q, cache, k, m)
<1>1. PICK k \in Cursors(log, <<>>, clk) : \A m \in Market : Right(log, <<>>, cache, k, m)
  BY DEF ReadInv
<1>2. /\ log \in Log /\ clk \in 0..Len(log) /\ Len(log) \in Nat /\ Len(log) \in 0..Len(log)
      /\ Len(<<>>) = 0 /\ <<>> \in Seq(Msg) /\ 0 + 1 = 1 /\ 1 + 1 = 2
  BY ClkInLog DEF TypeInv, Log
<1>3. k[0] = clk
  BY DEF Cursors
<1>4. CASE q = <<Message(ct, u, "none")>>
  <2> DEFINE msg == Message(ct, u, "none")
  <2>1. /\ msg \in Msg /\ msg.mc = u /\ msg.ct = ct /\ msg.segmentType = "none"
        /\ msg.clk = Len(log)
    BY <1>2, MsgIs DEF Message
  <2> HIDE DEF msg
  <2>2. /\ q = Append(<<>>, msg) /\ q \in Seq(Msg) /\ Len(q) = 1
    BY <1>4, <2>1 DEF msg
  <2>3. Then(k, 0, Len(log)) \in Cursors(log, q, clk)
    <3>1. CursorStep(k[0], msg) = Len(log)
      BY <2>1 DEF CursorStep
    <3>2. Then(k, Len(<<>>), CursorStep(k[Len(<<>>)], msg)) \in Cursors(log, Append(<<>>, msg), clk)
      BY <1>2, <2>1, CursorAppended
    <3> QED
      BY <1>2, <2>2, <3>1, <3>2
  <2>4. ASSUME NEW m \in Market
        PROVE  Right(log, q, cache, Then(k, 0, Len(log)), m)
    <3>1. Updates(log, msg.mc, msg.ct, m, k[Len(<<>>)]) /\ msg.mc \in [DOMAIN msg.mc -> Change]
      BY <1>2, <1>3, <2>1
    <3>2. Right(log, Append(<<>>, msg), cache, Then(k, Len(<<>>), Len(log)), m)
      BY <1>1, <1>2, <2>1, <3>1, SentWhole
    <3> QED
      BY <1>2, <2>2, <3>2
  <2>5. Then(k, 0, Len(log))[Len(q)] = Len(log)
    BY <2>2 DEF Then
  <2> QED
    BY <2>2, <2>3, <2>4, <2>5
<1>5. ASSUME NEW S \in (SUBSET DOMAIN u) \ {{}, DOMAIN u},
             q = <<Message(ct, [m \in S |-> u[m]], "SEG_START"),
                   Message(ct, [m \in DOMAIN u \ S |-> u[m]], "SEG_END")>>
      PROVE  /\ q \in Seq(Msg)
             /\ \E j \in Cursors(log, q, clk) :
                  j[Len(q)] = Len(log) /\ \A m \in Market : Right(log, q, cache, j, m)
  <2> DEFINE U == [m \in S |-> u[m]]
             V == [m \in DOMAIN u \ S |-> u[m]]
             a == Message(ct, U, "SEG_START")
             b == Message(ct, V, "SEG_END")
  <2>1. U \in [S -> Change] /\ V \in [DOMAIN u \ S -> Change]
    OBVIOUS
  <2>2. \A m \in Market : Halved(u, U, V, m)
    BY DEF Halved
  <2> HIDE DEF U, V
  <2>3. /\ a \in Msg /\ a.mc = U /\ a.segmentType = "SEG_START" /\ a.clk = Len(log)
        /\ b \in Msg /\ b.mc = V /\ b.segmentType = "SEG_END" /\ b.clk = Len(log) /\ b.ct = ct
    <3>1. S \in SUBSET Market /\ DOMAIN u \ S \in SUBSET Market
      OBVIOUS
    <3> QED
      BY <1>2, <2>1, <3>1, MsgIs DEF Message
  <2>4. q = <<a, b>>
    BY <1>5 DEF U, V
  <2> HIDE DEF a, b
  <2>5. /\ q = Append(Append(<<>>, a), b) /\ q \in Seq(Msg) /\ Len(q) = 2
        /\ Append(<<>>, a) \in Seq(Msg) /\ Len(Append(<<>>, a)) = 1
    BY <2>3, <2>4
  <2> DEFINE j1 == Then(k, 0, clk)
             j2 == Then(j1, 1, Len(log))
  <2>6. j1 \in Cursors(log, Append(<<>>, a), clk)
    <3>1. CursorStep(k[0], a) = clk
      BY <1>3, <2>3 DEF CursorStep
    <3>2. Then(k, Len(<<>>), CursorStep(k[Len(<<>>)], a)) \in Cursors(log, Append(<<>>, a), clk)
      BY <1>2, <2>3, CursorAppended
    <3> QED
      BY <1>2, <3>1, <3>2
  <2> HIDE DEF j1
  <2>7. j2 \in Cursors(log, q, clk)
    <3>1. CursorStep(j1[1], b) = Len(log)
      BY <2>3 DEF CursorStep
    <3>2. Then(j1, Len(Append(<<>>, a)), CursorStep(j1[Len(Append(<<>>, a))], b))
            \in Cursors(log, Append(Append(<<>>, a), b), clk)
      BY <1>2, <2>3, <2>5, <2>6, CursorAppended
    <3> QED
      BY <2>5, <3>1, <3>2
  <2>8. ASSUME NEW m \in Market
        PROVE  Right(log, q, cache, j2, m)
    <3>1. /\ a.mc \in [DOMAIN a.mc -> Change] /\ b.mc \in [DOMAIN b.mc -> Change]
          /\ Halved(u, a.mc, b.mc, m) /\ Updates(log, u, b.ct, m, clk)
      BY <2>1, <2>2, <2>3
    <3>2. Right(log, Append(Append(<<>>, a), b), cache, Then(Then(k, 0, clk), 1, Len(log)), m)
      BY <1>1, <1>2, <2>3, <3>1, SentHalved
    <3> QED
      BY <2>5, <3>2 DEF j1
  <2>9. j2[Len(q)] = Len(log)
    BY <2>5 DEF Then
  <2> QED
    BY <2>5, <2>7, <2>8, <2>9
<1> QED
  BY <1>4, <1>5 DEF Segmentations

LEMMA SubscribeStep ==
  ASSUME TypeInv, ReadInv, Subscribe
  PROVE  TypeInv' /\ ReadInv'
<1>1. /\ inbox = <<>> /\ inbox' \in Answers /\ link' = "up"
      /\ UNCHANGED <<log, cache, clk, warned, announced>>
  BY DEF Subscribe, TypeInv
<1>2. log \in Log /\ Len(log) <= MaxClk /\ clk \in 0..Len(log)
  BY ClkInLog DEF TypeInv
<1>3. ASSUME NEW u, NEW ct \in {"SUB_IMAGE", "RESUB_DELTA"}, DOMAIN u \subseteq Market,
             u = [m \in DOMAIN u |-> u[m]],
             \A m \in Market : Updates(log, u, ct, m, clk), inbox' \in Segmentations(ct, u)
      PROVE  TypeInv' /\ ReadInv'
  <2>1. u \in [DOMAIN u -> Change]
    <3>1. \A m \in DOMAIN u : u[m] \in Change
      BY <1>3 DEF Updates, Says
    <3> QED
      BY <1>3, <3>1
  <2>2. /\ inbox' \in Seq(Msg)
        /\ \E k \in Cursors(log, inbox', clk) :
             k[Len(inbox')] = Len(log) /\ \A m \in Market : Right(log, inbox', cache, k, m)
    BY <1>1, <1>3, <2>1, Answered
  <2> QED
    BY <1>1, <2>2 DEF TypeInv, ReadInv
<1>4. CASE inbox' \in Segmentations("SUB_IMAGE", SubImage(log))
  <2>1. /\ DOMAIN SubImage(log) \subseteq Market
        /\ SubImage(log) = [m \in DOMAIN SubImage(log) |-> SubImage(log)[m]]
    BY Zenon DEF SubImage
  <2>2. \A m \in Market : Updates(log, SubImage(log), "SUB_IMAGE", m, clk)
    BY <1>2, ImageUpdates
  <2> QED
    BY <1>3, <1>4, <2>1, <2>2
<1>5. CASE inbox' \in Segmentations("RESUB_DELTA", ResubDelta(log, clk))
  <2>1. /\ DOMAIN ResubDelta(log, clk) \subseteq Market
        /\ ResubDelta(log, clk) = [m \in DOMAIN ResubDelta(log, clk) |-> ResubDelta(log, clk)[m]]
    BY Zenon DEF ResubDelta
  <2>2. ASSUME NEW m \in Market
        PROVE  Updates(log, ResubDelta(log, clk), "RESUB_DELTA", m, clk)
    <3>1. /\ m \in DOMAIN ResubDelta(log, clk) <=> ChangesOf(log, m, clk + 1, Len(log)) # {}
          /\ m \in DOMAIN ResubDelta(log, clk) => ResubDelta(log, clk)[m] = DeltaSince(log, m, clk)
      BY DEF ResubDelta
    <3> QED
      BY <1>2, <3>1, DeltasUpdate
  <2> QED
    BY <1>3, <1>5, <2>1, <2>2
<1> QED
  BY <1>1, <1>4, <1>5 DEF Answers

LEMMA BetfairChangesStep ==
  ASSUME TypeInv, ReadInv, NEW b \in Market, NEW closes \in BOOLEAN, BetfairChanges(b, closes)
  PROVE  TypeInv' /\ ReadInv'
<1> DEFINE e == [market |-> b, closes |-> closes]
           n == Len(inbox)
           c == Len(log)
           u == [x \in {b} |-> DeltaSince(log', x, c)]
           msg == [ct |-> "UPDATE", mc |-> u, segmentType |-> "none", clk |-> Len(log')]
<1>1. /\ e \in [market : Market, closes : BOOLEAN] /\ log' = Append(log, e)
      /\ c \in Nat /\ c < MaxClk /\ UNCHANGED <<link, cache, clk, warned, announced>>
      /\ log \in Log
  BY DEF BetfairChanges, TypeInv, Log
<1>2. log' \in Log /\ Len(log') = c + 1 /\ Len(log') \in Nat /\ log'[c + 1] = e
      /\ c \in 0..Len(log') /\ Len(log') <= MaxClk
  <2>1. log \in Seq([market : Market, closes : BOOLEAN])
    BY <1>1 DEF Log
  <2> QED
    BY <1>1, <2>1, BoundAssumption DEF Log
<1>3. PICK k \in Cursors(log, inbox, clk) :
        /\ link = "up" => k[n] = c
        /\ \A m \in Market : Right(log, inbox, cache, k, m)
  BY DEF ReadInv
<1>4. inbox \in Seq(Msg)
  BY DEF TypeInv
<1>5. k \in Cursors(log', inbox, clk) /\ \A m \in Market : Right(log', inbox, cache, k, m)
  BY <1>1, <1>3, <1>4, LogGrown
<1>6. CASE link = "down" /\ UNCHANGED inbox
  <2>1. TypeInv'
    BY <1>1, <1>2, <1>6 DEF TypeInv
  <2> QED
    BY <1>1, <1>5, <1>6, <2>1 DEF ReadInv
<1>7. CASE link = "up" /\ inbox' = Append(inbox, msg)
  <2>1. \A m : ChangesOf(log', m, c + 1, Len(log')) # {} <=> m = b
    <3>1. ASSUME NEW m
          PROVE  ChangesOf(log', m, c + 1, Len(log')) = IF m = b THEN {c + 1} ELSE {}
      <4>1. (c + 1)..Len(log') = {c + 1}
        BY <1>1, <1>2
      <4>2. log'[c + 1].market = b
        BY <1>2
      <4> QED
        BY <4>1, <4>2 DEF ChangesOf
    <3> QED
      BY <3>1
  <2>2. ASSUME NEW m \in Market
        PROVE  Updates(log', u, "UPDATE", m, c)
    <3>1. /\ m \in DOMAIN u <=> ChangesOf(log', m, c + 1, Len(log')) # {}
          /\ m \in DOMAIN u => u[m] = DeltaSince(log', m, c)
      BY <2>1
    <3> HIDE DEF u, c
    <3> QED
      BY <1>2, <3>1, DeltasUpdate
  <2>3. u \in [{b} -> Change]
    <3>1. u[b] \in Change
      BY <2>2 DEF Updates, Says
    <3> QED
      BY <3>1
  <2>4. msg \in Msg /\ msg.mc = u /\ msg.ct = "UPDATE" /\ msg.segmentType = "none"
        /\ msg.clk = Len(log')
    BY <1>2, <2>3, MsgIs
  <2>5. DOMAIN u = {b}
    OBVIOUS
  <2> HIDE DEF msg, u
  <2>6. n \in Nat /\ inbox' \in Seq(Msg) /\ Len(inbox') = n + 1
    BY <1>4, <1>7, <2>4, Appended
  <2>7. TypeInv'
    BY <1>1, <1>2, <1>7, <2>6 DEF TypeInv
  <2> DEFINE j == Then(k, n, Len(log'))
  <2>8. j \in Cursors(log', inbox', clk')
    <3>1. CursorStep(k[n], msg) = Len(log')
      BY <2>4 DEF CursorStep
    <3>2. msg.clk \in 0..Len(log')
      BY <1>2, <2>4
    <3>3. Then(k, n, CursorStep(k[n], msg)) \in Cursors(log', Append(inbox, msg), clk)
      BY <1>2, <1>4, <1>5, <2>4, <3>2, CursorAppended
    <3> QED
      BY <1>1, <1>7, <3>1, <3>3
  <2>9. ASSUME NEW m \in Market
        PROVE  Right(log', inbox', cache, j, m)
    <3>1. Updates(log', msg.mc, msg.ct, m, k[n]) /\ msg.mc \in [DOMAIN msg.mc -> Change]
      BY <1>3, <1>7, <2>2, <2>3, <2>4, <2>5
    <3>2. Right(log', Append(inbox, msg), cache, j, m)
      BY <1>2, <1>4, <1>5, <2>4, <3>1, SentWhole
    <3> QED
      BY <1>7, <3>2
  <2>10. j[n + 1] = Len(log')
    BY <2>6 DEF Then
  <2> HIDE DEF j
  <2>11. ReadInv'
    BY <1>1, <2>6, <2>8, <2>9, <2>10 DEF ReadInv
  <2> QED
    BY <2>7, <2>11
<1> QED
  BY <1>1, <1>6, <1>7 DEF BetfairChanges

LEMMA NextInv ==
  ASSUME TypeInv, ReadInv, [Next]_vars
  PROVE  TypeInv' /\ ReadInv'
<1>1. CASE UNCHANGED vars
  BY <1>1 DEF vars, TypeInv, ReadInv
<1>2. CASE \E m \in Market, closes \in BOOLEAN : BetfairChanges(m, closes)
  BY <1>2, BetfairChangesStep
<1> QED
  BY <1>1, <1>2, SubscribeStep, DropStep, RestartStep, HandleMcmStep, RemoveClosedStep DEF Next

LEMMA Inductive == Spec => [](TypeInv /\ ReadInv)
<1>1. Init => TypeInv /\ ReadInv
  BY InitInv
<1>2. (TypeInv /\ ReadInv) /\ [Next]_vars => (TypeInv /\ ReadInv)'
  BY NextInv
<1> QED
  BY <1>1, <1>2, PTL DEF Spec

-----------------------------------------------------------------------------
(* No price is newer than the log's last one: the other half of the cache    *)
(* being Betfair's book.                                                     *)

Newest(l, m) == LastPrice(l, m, 1, Len(l))

NotAheadIn(l, mc) == \A m \in DOMAIN mc : mc[m].price <= Newest(l, m)

NotAhead ==
  /\ NotAheadIn(log, cache)
  /\ \A i \in 1..Len(inbox) : NotAheadIn(log, inbox[i].mc)

LEMMA NewestIs ==
  ASSUME NEW l \in Log, NEW m
  PROVE  Newest(l, m) \in Nat
<1>1. Len(l) \in Nat /\ Len(l) <= Len(l)
  BY DEF Log
<1> QED
  BY <1>1, Stays DEF Newest

LEMMA NewestGrows ==
  ASSUME NEW l \in Log, NEW e \in [market : Market, closes : BOOLEAN], NEW m
  PROVE  Newest(l, m) <= Newest(Append(l, e), m)
<1> DEFINE n == Append(l, e)
           k == Len(l)
<1>1. /\ k \in 0..k /\ k \in Nat
      /\ k <= k + 1
  BY DEF Log
<1>2. n \in Log /\ Len(n) = k + 1 /\ LastPrice(n, m, 1, k) = LastPrice(l, m, 1, k)
  BY <1>1, LogAppended
<1> HIDE DEF n
<1>3. LastPrice(n, m, 1, k) <= LastPrice(n, m, 1, Len(n))
  BY <1>1, <1>2, Stays
<1> QED
  BY <1>2, <1>3 DEF Newest, n

\* What stays in place while the log grows.
LEMMA StillNotAhead ==
  ASSUME NEW l \in Log, NEW e \in [market : Market, closes : BOOLEAN], NEW mc,
         \A m \in DOMAIN mc : mc[m].price \in Nat, NotAheadIn(l, mc)
  PROVE  NotAheadIn(Append(l, e), mc)
<1>1. Append(l, e) \in Log
  BY DEF Log
<1>2. ASSUME NEW m \in DOMAIN mc
      PROVE  mc[m].price <= Newest(Append(l, e), m)
  <2>1. Newest(l, m) <= Newest(Append(l, e), m)
    BY NewestGrows
  <2>2. Newest(l, m) \in Nat /\ Newest(Append(l, e), m) \in Nat
    BY <1>1, NewestIs
  <2>3. mc[m].price <= Newest(l, m) /\ mc[m].price \in Nat
    BY DEF NotAheadIn
  <2> QED
    BY <2>1, <2>2, <2>3
<1> QED
  BY <1>2 DEF NotAheadIn

LEMMA DeltaNotAhead ==
  ASSUME NEW l \in Log, NEW m, NEW k \in 0..Len(l)
  PROVE  DeltaSince(l, m, k).price <= Newest(l, m)
<1> DEFINE late == LastPrice(l, m, k + 1, Len(l))
<1>1. late \in Nat /\ (late # 0 => late = LastPrice(l, m, 1, Len(l)))
  BY Since
<1>2. DeltaSince(l, m, k).price = late
  BY DEF DeltaSince
<1>3. Newest(l, m) \in Nat
  BY NewestIs
<1> HIDE DEF late
<1> QED
  BY <1>1, <1>2, <1>3 DEF Newest

LEMMA SegmentsNotAhead ==
  ASSUME NEW u, NEW ct, NotAheadIn(log, u), NEW q \in Segmentations(ct, u)
  PROVE  \A i \in 1..Len(q) : NotAheadIn(log, q[i].mc)
<1>1. CASE q = <<Message(ct, u, "none")>>
  <2>1. Len(q) = 1 /\ q[1].mc = u
    BY <1>1 DEF Message
  <2> QED
    BY <2>1
<1>2. ASSUME NEW S \in (SUBSET DOMAIN u) \ {{}, DOMAIN u},
             q = <<Message(ct, [m \in S |-> u[m]], "SEG_START"),
                   Message(ct, [m \in DOMAIN u \ S |-> u[m]], "SEG_END")>>
      PROVE  \A i \in 1..Len(q) : NotAheadIn(log, q[i].mc)
  <2>1. /\ Len(q) = 2 /\ q[1].mc = [m \in S |-> u[m]]
        /\ q[2].mc = [m \in DOMAIN u \ S |-> u[m]]
    BY <1>2 DEF Message
  <2>2. NotAheadIn(log, [m \in S |-> u[m]]) /\ NotAheadIn(log, [m \in DOMAIN u \ S |-> u[m]])
    BY DEF NotAheadIn
  <2> QED
    BY <2>1, <2>2
<1> QED
  BY <1>1, <1>2 DEF Segmentations

LEMMA NotAheadStep ==
  ASSUME TypeInv, ReadInv, NotAhead, [Next]_vars
  PROVE  NotAhead'
<1>1. log \in Log /\ clk \in 0..Len(log) /\ 0 \in 0..Len(log)
  BY ClkInLog DEF TypeInv, Log
<1>2. CASE Subscribe
  <2>1. inbox' \in Answers /\ UNCHANGED <<log, cache>>
    BY <1>2 DEF Subscribe
  <2>2. NotAheadIn(log, SubImage(log)) /\ NotAheadIn(log, ResubDelta(log, clk))
    <3>1. \A m : DeltaSince(log, m, 0).price <= Newest(log, m)
                 /\ DeltaSince(log, m, clk).price <= Newest(log, m)
      BY <1>1, DeltaNotAhead
    <3> QED
      BY <3>1 DEF NotAheadIn, SubImage, ResubDelta
  <2>3. \A i \in 1..Len(inbox') : NotAheadIn(log, inbox'[i].mc)
    BY <2>1, <2>2, SegmentsNotAhead DEF Answers
  <2> QED
    BY <2>1, <2>3 DEF NotAhead
<1>3. CASE Drop
  BY <1>3, NothingYet DEF Drop, NotAhead
<1>4. CASE Restart
  BY <1>4, NothingYet DEF Restart, NotAhead, NotAheadIn
<1>5. CASE HandleMcm
  <2> DEFINE msg == Head(inbox)
             n == Len(inbox)
  <2>1. /\ Takes(cache, msg.mc, cache') /\ inbox # <<>> /\ inbox' = Tail(inbox)
        /\ UNCHANGED log
    BY <1>5, HandleTakes
  <2>2. /\ n \in Nat /\ n >= 1 /\ Len(inbox') = n - 1 /\ msg = inbox[1] /\ msg \in Msg
        /\ 1 \in 1..n /\ \A i \in 1..(n - 1) : inbox'[i] = inbox[i + 1] /\ i + 1 \in 1..n
    BY <2>1, Tailed DEF TypeInv
  <2>3. NotAheadIn(log, msg.mc) /\ NotAheadIn(log, cache)
    BY <2>2 DEF NotAhead
  <2>4. ASSUME NEW m \in DOMAIN cache'
        PROVE  cache'[m].price <= Newest(log, m)
    <3>1. 0 <= Newest(log, m)
      BY <1>1, NewestIs
    <3>2. /\ m \in DOMAIN cache => cache[m].price <= Newest(log, m)
          /\ m \in DOMAIN msg.mc => msg.mc[m].price <= Newest(log, m)
      BY <2>3 DEF NotAheadIn
    <3>3. CASE m \in DOMAIN msg.mc
      <4> DEFINE e == IF m \in DOMAIN cache THEN cache[m] ELSE NewEntry
      <4>1. cache'[m] = Changed(e, msg.mc[m])
        BY <2>1, <3>3 DEF Takes
      <4>2. e.price <= Newest(log, m)
        BY <3>1, <3>2 DEF NewEntry
      <4> HIDE DEF e, msg
      <4> QED
        BY <3>1, <3>2, <3>3, <4>1, <4>2 DEF Changed
    <3>4. CASE m \notin DOMAIN msg.mc
      BY <2>1, <3>2, <3>4 DEF Takes
    <3> QED
      BY <3>3, <3>4
  <2>5. ASSUME NEW i \in 1..Len(inbox')
        PROVE  NotAheadIn(log, inbox'[i].mc)
    BY <2>2 DEF NotAhead
  <2> QED
    BY <2>1, <2>4, <2>5 DEF NotAhead, NotAheadIn
<1>6. CASE RemoveClosed
  BY <1>6 DEF RemoveClosed, NotAhead, NotAheadIn
<1>7. ASSUME NEW b \in Market, NEW closes \in BOOLEAN, BetfairChanges(b, closes)
      PROVE  NotAhead'
  <2> DEFINE e == [market |-> b, closes |-> closes]
             c == Len(log)
             u == [x \in {b} |-> DeltaSince(log', x, c)]
             msg == [ct |-> "UPDATE", mc |-> u, segmentType |-> "none", clk |-> Len(log')]
  <2>1. /\ e \in [market : Market, closes : BOOLEAN] /\ log' = Append(log, e)
        /\ UNCHANGED cache /\ (inbox' = inbox \/ inbox' = Append(inbox, msg))
    BY <1>7 DEF BetfairChanges
  <2>2. c \in 0..c /\ log' \in Log /\ Len(log') = c + 1 /\ c \in 0..Len(log')
    <3>1. c \in 0..c /\ c \in 0..(c + 1)
      BY <1>1 DEF Log
    <3> QED
      BY <1>1, <2>1, <3>1, LogAppended
  <2>3. \A m \in DOMAIN cache : cache[m].price \in Nat
    BY BoundAssumption DEF TypeInv, Entry
  <2>4. NotAheadIn(log', cache)
    BY <1>1, <2>1, <2>3, StillNotAhead DEF NotAhead
  <2>5. ASSUME NEW i \in 1..Len(inbox)
        PROVE  NotAheadIn(log', inbox[i].mc)
    <3>1. inbox[i] \in Msg
      BY DEF TypeInv
    <3>2. inbox[i].mc \in [DOMAIN inbox[i].mc -> Change]
      BY <3>1, MsgHas
    <3>3. \A m \in DOMAIN inbox[i].mc : inbox[i].mc[m].price \in Nat
      BY <3>2, BoundAssumption DEF Change
    <3>4. NotAheadIn(log, inbox[i].mc)
      BY DEF NotAhead
    <3> QED
      BY <1>1, <2>1, <3>3, <3>4, StillNotAhead
  <2>6. CASE inbox' = inbox
    BY <2>1, <2>4, <2>5, <2>6 DEF NotAhead
  <2>7. CASE inbox' = Append(inbox, msg)
    <3>1. DeltaSince(log', b, c).price <= Newest(log', b)
      BY <2>2, DeltaNotAhead
    <3>2. NotAheadIn(log', msg.mc)
      BY <3>1 DEF NotAheadIn
    <3> HIDE DEF msg
    <3>3. /\ Len(inbox') = Len(inbox) + 1 /\ inbox'[Len(inbox) + 1] = msg
          /\ \A i \in 1..Len(inbox) : inbox'[i] = inbox[i]
          /\ 1..Len(inbox') = 1..Len(inbox) \cup {Len(inbox) + 1}
      BY <2>7 DEF TypeInv
    <3>4. \A i \in 1..Len(inbox') : NotAheadIn(log', inbox'[i].mc)
      BY <2>5, <3>2, <3>3
    <3> QED
      BY <2>1, <2>4, <3>4 DEF NotAhead
  <2> QED
    BY <2>1, <2>6, <2>7
<1>8. CASE UNCHANGED vars
  BY <1>8 DEF vars, NotAhead
<1> QED
  BY <1>2, <1>3, <1>4, <1>5, <1>6, <1>7, <1>8 DEF Next

LEMMA NeverAhead == Spec => []NotAhead
<1>1. Init => NotAhead
  BY NothingYet DEF Init, NotAhead, NotAheadIn
<1>2. TypeInv /\ ReadInv /\ NotAhead /\ [Next]_vars => NotAhead'
  BY NotAheadStep
<1> QED
  BY <1>1, <1>2, Inductive, PTL DEF Spec

-----------------------------------------------------------------------------
(* The properties.                                                           *)

\* What is read and kept has its shape: the cache holds subscribed markets,
\* every message's changes are well formed and the cursor is in Betfair's log.
THEOREM TypeCorrect == Spec => []TypeOK
<1>1. ASSUME TypeInv, ReadInv
      PROVE  TypeOK
  <2>1. clk \in 0..Len(log)
    BY <1>1, ClkInLog
  <2>2. ASSUME NEW i \in 1..Len(inbox), NEW m \in DOMAIN inbox[i].mc
        PROVE  inbox[i].mc[m] \in Change
    <3>1. inbox[i] \in Msg
      BY <1>1 DEF TypeInv
    <3> QED
      BY <2>2, <3>1, MsgHas
  <2>3. \A i \in 1..Len(log) : log[i] \in [market : Market, closes : BOOLEAN]
    BY <1>1, LogElement DEF TypeInv
  <2> QED
    BY <1>1, <2>1, <2>2, <2>3 DEF TypeInv, TypeOK
<1> QED
  BY <1>1, Inductive, PTL

\* What the cursor says was read is in the cache, or was closed since: a
\* connection lost anywhere in a segmented update leaves no gap that the next
\* resumption would not fill.
THEOREM CursorCoveredHolds == Spec => []CursorCovered
<1>1. ASSUME TypeInv, ReadInv
      PROVE  CursorCovered
  <2>1. PICK k \in Cursors(log, inbox, clk) : \A m \in Market : Right(log, inbox, cache, k, m)
    BY <1>1 DEF ReadInv
  <2>2. k[0] = clk /\ 0 \in 0..Len(inbox)
    BY <1>1 DEF Cursors, TypeInv
  <2>3. ASSUME NEW m \in Market, IsOpen(log, m, clk)
        PROVE  \/ m \in DOMAIN cache /\ cache[m].price >= LastPrice(log, m, 1, clk)
               \/ HasClosed(log, m, Len(log)) /\ (m \in DOMAIN cache => cache[m].def = "CLOSED")
    <3>1. CASE Gone(log, inbox, cache, m)
      BY <3>1 DEF Gone, ClosedFrom
    <3>2. CASE Kept(log, inbox, cache, k, m)
      <4>1. PICK p \in Prices(inbox, cache, m) :
              \A i \in 0..Len(inbox) : IsOpen(log, m, k[i]) => p[i] > LastPrice(log, m, 1, k[i])
        BY <3>2 DEF Kept
      <4>2. PriceIn(cache, m) > LastPrice(log, m, 1, clk)
        BY <2>2, <2>3, <4>1 DEF Prices
      <4>3. LastPrice(log, m, 1, clk) \in Nat
        <5>1. log \in Log /\ clk \in Nat /\ clk <= Len(log) /\ clk <= clk
          BY <1>1, ClkInLog DEF TypeInv, Log
        <5> QED
          BY <5>1, Stays
      <4>4. m \in DOMAIN cache => cache[m].price \in Nat
        BY <1>1, BoundAssumption DEF TypeInv, Entry
      <4> QED
        BY <4>2, <4>3, <4>4 DEF PriceIn
    <3> QED
      BY <2>1, <3>1, <3>2 DEF Right
  <2> QED
    BY <2>3 DEF CursorCovered
<1> QED
  BY <1>1, Inductive, PTL

\* Once everything sent is read the cache is Betfair's book of the open
\* markets: Kept says that no price in it is too old, NotAhead that none is too
\* new, and Told that a market it calls closed is closed.
THEOREM CaughtUpHolds == Spec => []CaughtUp
<1>1. ASSUME TypeInv, ReadInv, NotAhead
      PROVE  CaughtUp
  <2> SUFFICES ASSUME link = "up", inbox = <<>>, NEW m \in Market, IsOpen(log, m, Len(log))
               PROVE  /\ m \in DOMAIN cache
                      /\ cache[m] = [def |-> "OPEN", price |-> LastPrice(log, m, 1, Len(log))]
    BY DEF CaughtUp
  <2>1. PICK k \in Cursors(log, inbox, clk) :
          k[Len(inbox)] = Len(log) /\ Right(log, inbox, cache, k, m)
    BY <1>1 DEF ReadInv
  <2>2. Len(inbox) = 0 /\ 0 \in 0..Len(inbox) /\ k[0] = Len(log)
    BY <2>1, NothingYet
  <2>3. Newest(log, m) \in Nat
    BY <1>1, NewestIs DEF TypeInv
  <2>4. Kept(log, inbox, cache, k, m)
    BY <2>1 DEF Right, Gone, ClosedFrom, IsOpen
  <2>5. PriceIn(cache, m) > Newest(log, m)
    BY <2>2, <2>4 DEF Kept, Prices, Newest
  <2>6. m \in DOMAIN cache
    BY <2>3, <2>5 DEF PriceIn
  <2>7. cache[m] \in Entry /\ cache[m].price \in Nat
    BY <1>1, <2>6, BoundAssumption DEF TypeInv, Entry
  <2>8. cache[m].price = Newest(log, m)
    <3>1. cache[m].price <= Newest(log, m)
      BY <1>1, <2>6 DEF NotAhead, NotAheadIn
    <3>2. cache[m].price + 1 > Newest(log, m)
      BY <2>5, <2>6 DEF PriceIn
    <3> QED
      BY <2>3, <2>7, <3>1, <3>2
  <2>9. cache[m].def = "OPEN"
    <3>1. cache[m].def # "none" /\ cache[m].def # "CLOSED"
      BY <2>1, <2>6 DEF Right, Followed, Told, ClosedFrom, IsOpen
    <3> QED
      BY <2>7, <3>1 DEF Entry, Definition
  <2> QED
    BY <2>6, <2>7, <2>8, <2>9 DEF Entry, Newest
<1> QED
  BY <1>1, Inductive, NeverAhead, PTL

\* No market is in the cache without its definition, however the messages that
\* brought it were cut.
THEOREM DefinitionKnownHolds == Spec => []DefinitionKnown
<1>1. ASSUME TypeInv, ReadInv
      PROVE  DefinitionKnown
  <2>1. PICK k : \A m \in Market : Right(log, inbox, cache, k, m)
    BY <1>1 DEF ReadInv
  <2> QED
    BY <1>1, <2>1 DEF TypeInv, DefinitionKnown, Right, Followed, Told
<1> QED
  BY <1>1, Inductive, PTL

\* When the cursor passes the closure of a cached market and the cache does not
\* learn it, the message was an image that Betfair sent in place of a delta; no
\* other message, lost connection or restart does it.
THEOREM OnlyImagesMissClosuresHolds == Spec => OnlyImagesMissClosures
<1> DEFINE Seen == \A m \in DOMAIN cache \cap DOMAIN cache' :
                     IsOpen(log, m, clk) /\ HasClosed(log, m, clk') /\ cache'[m].def # "CLOSED"
                       => inbox # <<>> /\ Head(inbox).ct = "SUB_IMAGE"
<1>1. ASSUME TypeInv, ReadInv, [Next]_vars
      PROVE  [Seen]_vars
  <2>1. CASE HandleMcm
    <3>1. /\ Takes(cache, Head(inbox).mc, cache') /\ clk' = CursorStep(clk, Head(inbox))
          /\ inbox # <<>>
      BY <2>1, HandleTakes
    <3>2. PICK k \in Cursors(log, inbox, clk) : \A m \in Market : Right(log, inbox, cache, k, m)
      BY <1>1 DEF ReadInv
    <3>3. /\ Head(inbox) = inbox[1] /\ 1 \in 1..Len(inbox) /\ 1 - 1 = 0 /\ 1..1 = {1}
      BY <1>1, <3>1, Tailed DEF TypeInv
    <3>4. k[0] = clk /\ k[1] = clk'
      BY <3>1, <3>3 DEF Cursors
    <3>5. ASSUME NEW m \in DOMAIN cache \cap DOMAIN cache',
                 IsOpen(log, m, clk), HasClosed(log, m, clk'), Head(inbox).ct # "SUB_IMAGE"
          PROVE  cache'[m].def = "CLOSED"
      <4>1. m \in Market
        BY <1>1 DEF TypeInv
      <4>2. Passed(log, inbox, cache, k, m, 1)
        BY <3>2, <3>3, <4>1 DEF Right, Followed
      <4>3. Gone(log, inbox, cache, m) \/ Tells(inbox, 1, m)
        BY <3>3, <3>4, <3>5, <4>2 DEF Passed
      <4>4. CASE m \in DOMAIN inbox[1].mc
        <5>1. Tells(inbox, 1, m)
          BY <3>3, <4>3, <4>4 DEF Gone, ClosedFrom
        <5>2. PICK e : cache'[m] = Changed(e, inbox[1].mc[m])
          BY <3>1, <3>3, <3>5, <4>4 DEF Takes
        <5>3. inbox[1].mc[m].def = "CLOSED"
          BY <5>1 DEF Tells
        <5> QED
          BY <5>2, <5>3 DEF Changed
      <4>5. CASE m \notin DOMAIN inbox[1].mc
        BY <3>1, <3>3, <3>5, <4>3, <4>5 DEF Takes, Gone, Tells
      <4> QED
        BY <4>4, <4>5
    <3> QED
      BY <3>1, <3>5
  <2>2. CASE UNCHANGED clk
    BY <2>2 DEF IsOpen
  <2>3. CASE Restart
    <3>1. DOMAIN cache' = {}
      BY <2>3, NothingYet DEF Restart
    <3> QED
      BY <3>1
  <2> QED
    BY <1>1, <2>1, <2>2, <2>3
      DEF Next, vars, Subscribe, Drop, RemoveClosed, BetfairChanges
<1> QED
  BY <1>1, Inductive, PTL DEF Spec, OnlyImagesMissClosures
=============================================================================
