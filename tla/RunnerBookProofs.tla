-------------------------- MODULE RunnerBookProofs --------------------------
(* Proofs about RunnerBook: for any finite book and any depth, the view of a *)
(* runner shows the best offers, whichever ladders the client holds.         *)
EXTENDS RunnerBook, FiniteSetTheorems, TLAPS

-----------------------------------------------------------------------------
(* Ranks in a finite total order: below[k] is what comes before k.           *)

IsOrder(S, below) ==
  /\ below \in [S -> SUBSET S]
  /\ \A k \in S : k \notin below[k] /\ \A j \in below[k] : below[j] \subseteq below[k]
  /\ \A j, k \in S : j # k => j \in below[k] \/ k \in below[j]

LEMMA RankGrows ==
  ASSUME NEW S, IsFiniteSet(S), NEW below, IsOrder(S, below)
  PROVE  /\ \A k \in S : Cardinality(below[k]) \in Nat /\ Cardinality(below[k]) < Cardinality(S)
         /\ \A j, k \in S : j \in below[k] <=> Cardinality(below[j]) < Cardinality(below[k])
<1>1. Cardinality(S) \in Nat
  BY FS_CardinalityType
<1>2. ASSUME NEW T \in SUBSET S
      PROVE  IsFiniteSet(T) /\ Cardinality(T) \in Nat
  BY FS_Subset, FS_CardinalityType
<1>3. ASSUME NEW T \in SUBSET S, NEW U \in SUBSET T, NEW k \in T, k \notin U
      PROVE  Cardinality(U) < Cardinality(T)
  <2>1. IsFiniteSet(T) /\ Cardinality(T) \in Nat /\ Cardinality(U) \in Nat
    BY <1>2
  <2>2. Cardinality(U) <= Cardinality(T) /\ (Cardinality(T) = Cardinality(U) => T = U)
    BY <2>1, FS_Subset
  <2> QED
    BY <1>3, <2>1, <2>2
<1>4. ASSUME NEW k \in S
      PROVE  Cardinality(below[k]) \in Nat /\ Cardinality(below[k]) < Cardinality(S)
  <2>1. below[k] \in SUBSET S /\ k \notin below[k]
    BY DEF IsOrder
  <2> QED
    BY <1>2, <1>3, <2>1
<1>5. ASSUME NEW j \in S, NEW k \in S, j \in below[k]
      PROVE  Cardinality(below[j]) < Cardinality(below[k])
  <2>1. /\ below[k] \in SUBSET S /\ below[j] \in SUBSET below[k] /\ j \notin below[j]
    BY <1>5 DEF IsOrder
  <2> QED
    BY <1>3, <1>5, <2>1
<1>6. ASSUME NEW j \in S, NEW k \in S, j \notin below[k]
      PROVE  ~(Cardinality(below[j]) < Cardinality(below[k]))
  <2>1. CASE j = k
    BY <1>4, <2>1
  <2>2. CASE j # k
    <3>1. k \in below[j]
      BY <1>6, <2>2 DEF IsOrder
    <3>2. Cardinality(below[k]) < Cardinality(below[j])
      BY <1>5, <3>1
    <3> QED
      BY <1>4, <3>2
  <2> QED
    BY <2>1, <2>2
<1> QED
  BY <1>4, <1>5, <1>6

LEMMA RankIsTotal ==
  ASSUME NEW S, IsFiniteSet(S), NEW below, IsOrder(S, below)
  PROVE  /\ Cardinality(S) \in Nat
         /\ \A i \in 0..(Cardinality(S) - 1) : \E k \in S : Cardinality(below[k]) = i
         /\ \A j, k \in S : Cardinality(below[j]) = Cardinality(below[k]) => j = k
<1> DEFINE n == Cardinality(S)
           T == 0..(n - 1)
           f == [k \in S |-> Cardinality(below[k])]
<1>1. n \in Nat
  BY FS_CardinalityType
<1>2. /\ \A k \in S : Cardinality(below[k]) \in Nat /\ Cardinality(below[k]) < n
      /\ \A j, k \in S : j \in below[k] <=> Cardinality(below[j]) < Cardinality(below[k])
  BY RankGrows
<1>3. IsFiniteSet(T) /\ Cardinality(T) = n
  <2>1. 0 \in Int /\ n - 1 \in Int
    BY <1>1
  <2>2. IsFiniteSet(T) /\ Cardinality(T) = IF 0 > n - 1 THEN 0 ELSE (n - 1) - 0 + 1
    BY <2>1, FS_Interval
  <2> QED
    BY <1>1, <2>2
<1>4. \A j, k \in S : Cardinality(below[j]) = Cardinality(below[k]) => j = k
  BY <1>2 DEF IsOrder
<1>5. f \in Injection(S, T)
  <2>1. f \in [S -> T]
    BY <1>1, <1>2
  <2>2. \A j, k \in S : f[j] = f[k] => j = k
    BY <1>4
  <2> HIDE DEF f
  <2> QED
    BY <2>1, <2>2 DEF Injection, IsInjective
<1>6. f \in Surjection(S, T)
  <2> HIDE DEF f, T, n
  <2>1. Cardinality(S) = Cardinality(T)
    BY <1>3 DEF n
  <2> QED
    BY <1>3, <1>5, <2>1, FS_Injection
<1>7. \A i \in T : \E k \in S : f[k] = i
  BY <1>6 DEF Surjection
<1> QED
  BY <1>1, <1>4, <1>7

-----------------------------------------------------------------------------
(* The offers of a book in the order of a side.                              *)

Above(book, sd, p) == {q \in DOMAIN book : IF sd = "back" THEN q > p ELSE q < p}

Shown(n) == IF n <= Depth THEN n ELSE Depth

Offers(book) == {[price |-> p, size |-> book[p]] : p \in DOMAIN book}

\* The i-th offer of a view has i - 1 better ones in the book.
ShowsRanks(view, book, sd) ==
  /\ view \in [1..Shown(Cardinality(DOMAIN book)) -> Offers(book)]
  /\ \A i \in DOMAIN view : /\ view[i].price \in DOMAIN book
                            /\ view[i].size = book[view[i].price]
                            /\ Cardinality(Above(book, sd, view[i].price)) = i - 1

LEMMA AboveOrders ==
  ASSUME NEW book, NEW sd, DOMAIN book \subseteq Int
  PROVE  IsOrder(DOMAIN book, [p \in DOMAIN book |-> Above(book, sd, p)])
<1>1. CASE sd = "back"
  BY <1>1 DEF IsOrder, Above
<1>2. CASE sd # "back"
  BY <1>2 DEF IsOrder, Above
<1> QED
  BY <1>1, <1>2

LEMMA AboveRanks ==
  ASSUME NEW book, NEW sd, DOMAIN book \subseteq Int, IsFiniteSet(DOMAIN book)
  PROVE  LET P == DOMAIN book
             n == Cardinality(P) IN
         /\ n \in Nat
         /\ \A p \in P : /\ Cardinality(Above(book, sd, p)) \in Nat
                         /\ Cardinality(Above(book, sd, p)) < n
         /\ \A i \in 0..(n - 1) : \E p \in P : Cardinality(Above(book, sd, p)) = i
         /\ \A p, q \in P : Cardinality(Above(book, sd, p)) = Cardinality(Above(book, sd, q)) => p = q
         /\ \A p, q \in P :
              q \in Above(book, sd, p) <=>
                Cardinality(Above(book, sd, q)) < Cardinality(Above(book, sd, p))
<1> DEFINE P == DOMAIN book
           above == [p \in P |-> Above(book, sd, p)]
<1>1. IsOrder(P, above)
  BY AboveOrders
<1>2. \A p \in P : above[p] = Above(book, sd, p)
  OBVIOUS
<1> HIDE DEF above
<1>3. /\ \A k \in P : Cardinality(above[k]) \in Nat /\ Cardinality(above[k]) < Cardinality(P)
      /\ \A j, k \in P : j \in above[k] <=> Cardinality(above[j]) < Cardinality(above[k])
  BY <1>1, RankGrows
<1>4. /\ Cardinality(P) \in Nat
      /\ \A i \in 0..(Cardinality(P) - 1) : \E k \in P : Cardinality(above[k]) = i
      /\ \A j, k \in P : Cardinality(above[j]) = Cardinality(above[k]) => j = k
  BY <1>1, RankIsTotal
<1> QED
  BY <1>2, <1>3, <1>4

LEMMA RanksAreBest ==
  ASSUME NEW book, NEW sd, DOMAIN book \subseteq Int, IsFiniteSet(DOMAIN book),
         NEW view, ShowsRanks(view, book, sd)
  PROVE  ShowsBest(view, book, sd)
<1> DEFINE P == DOMAIN book
           n == Cardinality(P)
           s == Shown(n)
           rank(p) == Cardinality(Above(book, sd, p))
<1>1. /\ n \in Nat
      /\ \A p \in P : rank(p) \in Nat /\ rank(p) < n
      /\ \A p, q \in P : rank(p) = rank(q) => p = q
      /\ \A p, q \in P : q \in Above(book, sd, p) <=> rank(q) < rank(p)
  BY AboveRanks
<1>2. /\ DOMAIN view = 1..s
      /\ \A i \in 1..s : view[i].price \in P /\ view[i].size = book[view[i].price]
                         /\ rank(view[i].price) = i - 1
  <2>1. DOMAIN view = 1..s
    BY DEF ShowsRanks
  <2> QED
    BY <2>1 DEF ShowsRanks
<1>3. s \in Nat /\ s <= n /\ s <= Depth /\ (s = n \/ s = Depth)
  BY <1>1, DepthAssumption DEF Shown
<1>4. Cardinality(DOMAIN view) = s
  <2>1. 1 \in Int /\ s \in Int
    BY <1>3
  <2>2. Cardinality(1..s) = IF 1 > s THEN 0 ELSE s - 1 + 1
    BY <2>1, FS_Interval
  <2> QED
    BY <1>2, <1>3, <2>2
<1>5. \A p, q \in P : rank(q) < rank(p) => IF sd = "back" THEN q > p ELSE q < p
  BY <1>1 DEF Above
<1> HIDE DEF rank, s, n
<1>6. ASSUME NEW i \in 1..s, NEW j \in 1..s, i < j
      PROVE  IF sd = "back" THEN view[i].price > view[j].price ELSE view[i].price < view[j].price
  <2>1. rank(view[i].price) < rank(view[j].price)
    BY <1>2, <1>3, <1>6
  <2> QED
    BY <1>2, <1>5, <2>1
<1>7. ASSUME NEW p \in P \ {view[i].price : i \in 1..s}
      PROVE  /\ s = Depth
             /\ \A i \in 1..s : IF sd = "back" THEN view[i].price > p ELSE view[i].price < p
  <2>1. ~(rank(p) < s)
    <3>1. SUFFICES ASSUME rank(p) < s PROVE FALSE
      OBVIOUS
    <3>2. PICK i \in 1..s : rank(p) = i - 1
      <4>1. PICK r \in Nat : r = rank(p)
        BY <1>1
      <4>2. r + 1 \in 1..s /\ r = r + 1 - 1
        BY <1>3, <3>1, <4>1
      <4> QED
        BY <4>1, <4>2
    <3>3. view[i].price \in P /\ rank(view[i].price) = i - 1
      BY <1>2
    <3>4. view[i].price = p
      BY <1>1, <3>2, <3>3
    <3> QED
      BY <1>7, <3>4
  <2>2. s = Depth
    BY <1>1, <1>3, <2>1
  <2>3. ASSUME NEW i \in 1..s
        PROVE  IF sd = "back" THEN view[i].price > p ELSE view[i].price < p
    <3>1. rank(view[i].price) < rank(p)
      BY <1>1, <1>2, <1>3, <2>1
    <3> QED
      BY <1>2, <1>5, <3>1
  <2> QED
    BY <2>2, <2>3
<1> QED
  BY <1>2, <1>3, <1>4, <1>6, <1>7 DEF ShowsBest

-----------------------------------------------------------------------------
(* Views by price and by level.                                              *)

LEMMA ByPriceView ==
  ASSUME NEW book, NEW sd, DOMAIN book \subseteq Int, IsFiniteSet(DOMAIN book)
  PROVE  ShowsRanks(Ranked(ByPrice(book), LAMBDA j, k : Better(sd, j, k)), book, sd)
<1> DEFINE P == DOMAIN book
           n == Cardinality(P)
           at(i) == CHOOSE k \in P : Cardinality({j \in P : Better(sd, j, k)}) + 1 = i
           view == [i \in 1..Shown(n) |-> ByPrice(book)[at(i)]]
<1>1. DOMAIN ByPrice(book) = P
  BY DEF ByPrice
<1>2. Ranked(ByPrice(book), LAMBDA j, k : Better(sd, j, k)) = view
  BY <1>1 DEF Ranked, Shown
<1>3. \A k : {j \in P : Better(sd, j, k)} = Above(book, sd, k)
  BY DEF Above, Better
<1>4. /\ n \in Nat
      /\ \A p \in P : Cardinality(Above(book, sd, p)) \in Nat
      /\ \A i \in 0..(n - 1) : \E p \in P : Cardinality(Above(book, sd, p)) = i
  BY AboveRanks
<1>5. ASSUME NEW i \in 1..Shown(n)
      PROVE  at(i) \in P /\ Cardinality(Above(book, sd, at(i))) = i - 1
  <2>1. i - 1 \in 0..(n - 1) /\ i - 1 + 1 = i
    BY <1>4, DepthAssumption DEF Shown
  <2>2. PICK p \in P : Cardinality(Above(book, sd, p)) = i - 1
    BY <1>4, <2>1
  <2>3. Cardinality({j \in P : Better(sd, j, p)}) + 1 = i
    BY <1>3, <2>1, <2>2
  <2>4. at(i) \in P /\ Cardinality({j \in P : Better(sd, j, at(i))}) + 1 = i
    BY <2>3
  <2>5. Cardinality(Above(book, sd, at(i))) + 1 = i
    BY <1>3, <2>4
  <2> HIDE DEF at
  <2> QED
    BY <1>4, <2>4, <2>5
<1> HIDE DEF at
<1>6. \A i \in 1..Shown(n) : view[i].price = at(i) /\ view[i].size = book[at(i)]
  BY <1>5 DEF ByPrice
<1>7. view \in [1..Shown(n) -> Offers(book)]
  BY <1>5 DEF ByPrice, Offers
<1> HIDE DEF view, n
<1>8. ShowsRanks(view, book, sd)
  BY <1>5, <1>6, <1>7 DEF ShowsRanks, n
<1> QED
  BY <1>2, <1>8

LEMMA ByLevelView ==
  ASSUME NEW book, NEW sd, DOMAIN book \subseteq Int, IsFiniteSet(DOMAIN book)
  PROVE  /\ DOMAIN ByLevel(book, sd) = 0..(Shown(Cardinality(DOMAIN book)) - 1)
         /\ ShowsRanks(Ranked(ByLevel(book, sd), LAMBDA j, k : j < k), book, sd)
<1> DEFINE P == DOMAIN book
           n == Cardinality(P)
           s == Shown(n)
           D == 0..(s - 1)
           rank(p) == Cardinality(Above(book, sd, p))
           levels == {rank(p) : p \in P}
           at(l) == CHOOSE p \in P : rank(p) = l
           ladder == [l \in D |-> [price |-> at(l), size |-> book[at(l)]]]
           key(i) == CHOOSE k \in D : Cardinality({j \in D : j < k}) + 1 = i
           view == [i \in 1..s |-> ladder[key(i)]]
<1>1. /\ n \in Nat
      /\ \A p \in P : rank(p) \in Nat /\ rank(p) < n
      /\ \A i \in 0..(n - 1) : \E p \in P : rank(p) = i
  BY AboveRanks
<1>2. s \in Nat /\ s <= n /\ s <= Depth /\ (s = n \/ s = Depth)
  BY <1>1, DepthAssumption DEF Shown
<1>3. ByLevel(book, sd) = ladder
  <2>1. ByLevel(book, sd) =
          [l \in {l \in levels : l < Depth} |-> [price |-> at(l), size |-> book[at(l)]]]
    BY DEF ByLevel, Above
  <2>2. {l \in levels : l < Depth} = D
    <3>1. \A l \in levels : l \in Nat /\ l < n
      BY <1>1
    <3>2. \A l \in D : l \in levels
      <4>1. \A l \in D : l \in 0..(n - 1)
        BY <1>1, <1>2
      <4> HIDE DEF rank, D
      <4> QED
        BY <1>1, <4>1
    <3>3. \A l \in D : l < Depth
      BY <1>2, DepthAssumption
    <3>4. \A l \in levels : l < Depth => l \in D
      BY <1>1, <1>2, <3>1, DepthAssumption
    <3> HIDE DEF levels, D
    <3> QED
      BY <3>2, <3>3, <3>4
  <2> HIDE DEF levels, D
  <2> QED
    BY <2>1, <2>2
<1>4. \A l \in D : at(l) \in P /\ rank(at(l)) = l
  <2>1. \A l \in D : \E p \in P : rank(p) = l
    BY <1>1, <1>2
  <2> HIDE DEF rank, D
  <2> QED
    BY <2>1
<1>5. ASSUME NEW k \in D
      PROVE  Cardinality({j \in D : j < k}) = k
  <2>1. {j \in D : j < k} = 0..(k - 1)
    BY <1>2
  <2>2. k \in Nat /\ 0 \in Int /\ k - 1 \in Int
    BY <1>2
  <2>3. Cardinality(0..(k - 1)) = IF 0 > k - 1 THEN 0 ELSE (k - 1) - 0 + 1
    BY <2>2, FS_Interval
  <2>4. (IF 0 > k - 1 THEN 0 ELSE (k - 1) - 0 + 1) = k
    BY <2>2
  <2> HIDE DEF D, s
  <2> QED
    BY <2>1, <2>3, <2>4
<1>6. Cardinality(D) = s
  <2>1. 0 \in Int /\ s - 1 \in Int
    BY <1>2
  <2>2. Cardinality(0..(s - 1)) = IF 0 > s - 1 THEN 0 ELSE (s - 1) - 0 + 1
    BY <2>1, FS_Interval
  <2> QED
    BY <1>2, <2>2
<1>7. DOMAIN ladder = D
  OBVIOUS
<1>8. Ranked(ladder, LAMBDA j, k : j < k) = view
  <2>1. IF Cardinality(DOMAIN ladder) <= Depth THEN Cardinality(DOMAIN ladder) = s ELSE FALSE
    BY <1>2, <1>6, <1>7
  <2> HIDE DEF ladder, D, s
  <2> QED
    BY <1>7, <2>1 DEF Ranked
<1>9. ASSUME NEW i \in 1..s
      PROVE  key(i) \in D /\ key(i) = i - 1
  <2>1. i - 1 \in D /\ i - 1 + 1 = i
    BY <1>2
  <2>2. Cardinality({j \in D : j < i - 1}) + 1 = i
    BY <1>5, <2>1
  <2>3. key(i) \in D /\ Cardinality({j \in D : j < key(i)}) + 1 = i
    BY <2>1, <2>2
  <2>4. Cardinality({j \in D : j < key(i)}) = key(i)
    BY <1>5, <2>3
  <2> HIDE DEF key
  <2> QED
    BY <2>3, <2>4
<1> HIDE DEF key, at, rank
<1>10. \A i \in 1..s : /\ view[i].price = at(i - 1) /\ view[i].size = book[at(i - 1)]
                       /\ i - 1 \in D
  BY <1>9
<1>11. view \in [1..s -> Offers(book)]
  <2>1. \A i \in 1..s : view[i] = [price |-> at(i - 1), size |-> book[at(i - 1)]]
    BY <1>9
  <2>2. \A i \in 1..s : view[i] \in Offers(book)
    BY <1>4, <1>10, <2>1 DEF Offers
  <2> QED
    BY <2>2
<1> HIDE DEF view, s, D, ladder
<1>12. ShowsRanks(view, book, sd)
  BY <1>4, <1>10, <1>11 DEF ShowsRanks, s, rank
<1> QED
  BY <1>3, <1>7, <1>8, <1>12 DEF s, D

-----------------------------------------------------------------------------
(* The view of a runner.                                                     *)

LEMMA EmptyHeld ==
  ASSUME NEW book, NEW sd, DOMAIN book = {}
  PROVE  ByLevel(book, sd) = EmptyLadder /\ ByPrice(book) = EmptyLadder
BY DEF ByLevel, ByPrice, EmptyLadder

LEMMA HeldView ==
  ASSUME NEW book, NEW sd, DOMAIN book \subseteq Int, IsFiniteSet(DOMAIN book),
         NEW F \in SUBSET LadderField, F # {}, NEW n
  PROVE  ShowsRanks(BestAvailable(Held(book, n, F, sd), sd), book, sd)
<1> DEFINE runner == Held(book, n, F, sd)
           byLevel == Ranked(ByLevel(book, sd), LAMBDA j, k : j < k)
           byPrice == Ranked(ByPrice(book), LAMBDA j, k : Better(sd, j, k))
<1>1. ShowsRanks(byLevel, book, sd) /\ ShowsRanks(byPrice, book, sd)
  BY ByLevelView, ByPriceView
<1>2. CASE "batb" \in F /\ DOMAIN book # {}
  <2>1. Cardinality(DOMAIN book) \in Nat /\ Cardinality(DOMAIN book) # 0
    BY <1>2, FS_CardinalityType, FS_EmptySet
  <2>2. 0 \in 0..(Shown(Cardinality(DOMAIN book)) - 1)
    BY <2>1, DepthAssumption DEF Shown
  <2>3. ByLevel(book, sd) # EmptyLadder
    BY <2>2, ByLevelView DEF EmptyLadder
  <2>4. BestAvailable(runner, sd) = byLevel
    BY <1>2, <2>3 DEF BestAvailable, Held
  <2> QED
    BY <1>1, <2>4
<1>3. CASE DOMAIN book = {} \/ "batb" \notin F
  <2>1. runner.batb = EmptyLadder /\ runner.atb = ByPrice(book)
    BY <1>3, EmptyHeld DEF Held, LadderField
  <2>2. BestAvailable(runner, sd) = byPrice
    BY <2>1 DEF BestAvailable
  <2> QED
    BY <1>1, <2>2
<1> QED
  BY <1>2, <1>3

\* best_available_to_back() and best_available_to_lay() of a runner held in
\* full show the best offers of its book, best first: whichever ladders the
\* client asked for, on either side, for any finite book and any depth.
THEOREM HeldShowsBest ==
  ASSUME NEW book, NEW sd, DOMAIN book \subseteq Int, IsFiniteSet(DOMAIN book),
         NEW F \in SUBSET LadderField, F # {}, NEW n
  PROVE  ShowsBest(BestAvailable(Held(book, n, F, sd), sd), book, sd)
BY HeldView, RanksAreBest

\* A cache that got nothing yet shows nothing.
LEMMA NewRunnerView ==
  ASSUME NEW sd
  PROVE  BestAvailable(NewRunner, sd) = <<>>
<1>1. DOMAIN EmptyLadder = {} /\ Cardinality({}) = 0
  BY FS_EmptySet DEF EmptyLadder
<1>2. NewRunner.batb = EmptyLadder /\ NewRunner.atb = EmptyLadder
  BY DEF NewRunner
<1>3. 0 <= Depth
  BY DepthAssumption
<1> HIDE DEF EmptyLadder
<1> QED
  BY <1>1, <1>2, <1>3 DEF BestAvailable, Ranked
=============================================================================
