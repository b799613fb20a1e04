----------------------------- MODULE FeedProofs -----------------------------
(* Proofs about Feed for any depth, prices, consumers, sports and sizes of   *)
(* queue and wire: the cache is Betfair's book, every consumer's view of it  *)
(* moves forward, and only full queues lose events.                          *)
EXTENDS Feed, RunnerBookProofs, TLAPS

-----------------------------------------------------------------------------
(* Ladders and runners: a delta leads where it was computed to lead.         *)

Part == {"batb", "atb", "tv"}

IsLadder(l) == /\ l = [k \in DOMAIN l |-> l[k]]
               /\ \A k \in DOMAIN l : l[k].size # 0

IsRunner(r) == /\ r = [f \in Part |-> r[f]]
               /\ IsLadder(r.batb) /\ IsLadder(r.atb)

\* apply_runner_change() on a ladder, given the entries that differ, yields the
\* other ladder: offers gone, offers new and offers resized.
LEMMA LadderRoundTrip ==
  ASSUME NEW old, NEW new, IsLadder(old), IsLadder(new)
  PROVE  LadderAfter(old, LadderDelta(old, new)) = new
<1> DEFINE delta == LadderDelta(old, new)
<1>1. DOMAIN delta = {k \in DOMAIN old \cup DOMAIN new :
                        ~(k \in DOMAIN old /\ k \in DOMAIN new /\ old[k] = new[k])}
  BY DEF LadderDelta
<1>2. \A k \in DOMAIN delta :
        delta[k] = IF k \in DOMAIN new THEN new[k] ELSE [price |-> 0, size |-> 0]
  BY DEF LadderDelta
<1>3. \A k \in DOMAIN delta : delta[k].size # 0 <=> k \in DOMAIN new
  BY <1>1, <1>2 DEF IsLadder
<1> HIDE DEF delta
<1>4. {k \in DOMAIN old \cup DOMAIN delta : k \in DOMAIN delta => delta[k].size # 0} = DOMAIN new
  BY <1>1, <1>3
<1>5. LadderAfter(old, delta) =
        [k \in DOMAIN new |-> IF k \in DOMAIN delta THEN delta[k] ELSE old[k]]
  BY <1>4 DEF LadderAfter
<1>6. \A k \in DOMAIN new : (IF k \in DOMAIN delta THEN delta[k] ELSE old[k]) = new[k]
  BY <1>1, <1>2
<1>7. LadderAfter(old, delta) = [k \in DOMAIN new |-> new[k]]
  BY <1>5, <1>6
<1> QED
  BY <1>7 DEF IsLadder, delta

LEMMA RunnerRoundTrip ==
  ASSUME NEW old, NEW new, IsRunner(old), IsRunner(new)
  PROVE  RunnerAfter(old, RunnerDelta(old, new)) = new
<1> DEFINE rc == RunnerDelta(old, new)
<1>1. DOMAIN old = Part /\ DOMAIN new = Part
  BY DEF IsRunner
<1>2. DOMAIN rc = {f \in Part : old[f] # new[f]}
  BY <1>1 DEF RunnerDelta
<1>3. \A f \in DOMAIN rc :
        rc[f] = IF f \in LadderField THEN LadderDelta(old[f], new[f]) ELSE new[f]
  BY <1>1 DEF RunnerDelta
<1>4. \A f \in LadderField : LadderAfter(old[f], LadderDelta(old[f], new[f])) = new[f]
  BY LadderRoundTrip DEF IsRunner, LadderField
<1> HIDE DEF rc
<1>5. RunnerAfter(old, rc) =
        [f \in Part |-> IF f \notin DOMAIN rc THEN old[f]
                        ELSE IF f \in LadderField THEN LadderAfter(old[f], rc[f]) ELSE rc[f]]
  BY <1>1 DEF RunnerAfter
<1>6. \A f \in Part : (IF f \notin DOMAIN rc THEN old[f]
                       ELSE IF f \in LadderField THEN LadderAfter(old[f], rc[f]) ELSE rc[f])
                      = new[f]
  BY <1>2, <1>3, <1>4
<1>7. RunnerAfter(old, rc) = [f \in Part |-> new[f]]
  BY <1>5, <1>6
<1> QED
  BY <1>7 DEF IsRunner, rc

LEMMA ByPriceIs ==
  ASSUME NEW b \in Books
  PROVE  IsLadder(ByPrice(b))
BY DEF Books, ByPrice, IsLadder

LEMMA ByLevelIs ==
  ASSUME NEW b \in Books, NEW sd
  PROVE  IsLadder(ByLevel(b, sd))
<1> DEFINE above(p) == {q \in DOMAIN b : IF sd = "back" THEN q > p ELSE q < p}
           levels == {Cardinality(above(p)) : p \in DOMAIN b}
           at(l) == CHOOSE p \in DOMAIN b : Cardinality(above(p)) = l
<1>1. ASSUME NEW l \in levels
      PROVE  at(l) \in DOMAIN b
  <2>1. PICK p \in DOMAIN b : Cardinality(above(p)) = l
    BY <1>1
  <2> HIDE DEF above
  <2> QED
    BY <2>1
<1>2. \A p \in DOMAIN b : b[p] = 1
  BY DEF Books
<1>3. ByLevel(b, sd) = [l \in {l \in levels : l < Depth} |-> [price |-> at(l), size |-> b[at(l)]]]
  BY DEF ByLevel
<1> HIDE DEF above, levels, at
<1> QED
  BY <1>1, <1>2, <1>3 DEF IsLadder

LEMMA EmptyIs == IsLadder(EmptyLadder)
BY DEF EmptyLadder, IsLadder

\* What a client of Betfair, or the cache, may hold.
Runners == {NewRunner} \cup
           {Held(b, n, F, sd) : b \in Books, n \in Nat, F \in SUBSET LadderField,
                                sd \in {"back", "lay"}}

LEMMA RunnersAre ==
  ASSUME NEW r \in Runners
  PROVE  IsRunner(r) /\ r.tv \in Nat
<1>1. CASE r = NewRunner
  BY <1>1, EmptyIs DEF NewRunner, IsRunner, Part
<1>2. ASSUME NEW b \in Books, NEW n \in Nat, NEW F \in SUBSET LadderField,
             NEW sd \in {"back", "lay"}, r = Held(b, n, F, sd)
      PROVE  IsRunner(r) /\ r.tv \in Nat
  <2>1. IsLadder(ByPrice(b)) /\ IsLadder(ByLevel(b, sd))
    BY ByPriceIs, ByLevelIs
  <2> QED
    BY <1>2, <2>1, EmptyIs DEF Held, IsRunner, Part
<1> QED
  BY <1>1, <1>2 DEF Runners

-----------------------------------------------------------------------------
(* The stream and the cache.                                                 *)

Changes == {RunnerDelta(a, b) : a \in Runners, b \in Runners}
Messages == [img : BOOLEAN, rc : Changes]

MarketOK ==
  /\ side \in {"back", "lay"} /\ fields \in SUBSET LadderField
  /\ books \in Seq(Books) /\ Len(books) >= 1
  /\ connected \in BOOLEAN /\ sentTv \in 0..tv
  /\ cache \in Runners /\ cache.tv \in 0..tv
  /\ wire \in Seq(Messages)
  /\ ~connected => wire = <<>>

\* The states of the book the messages in flight lead through, one after the
\* other from the cache's to the last one sent, never back.
Leads(s) ==
  /\ s \in [0..Len(wire) -> 0..tv]
  /\ s[0] = cache.tv
  /\ \A i \in 1..Len(wire) :
       s[i - 1] <= s[i] /\ wire[i] \in {Image(s[i]), Delta(s[i - 1], s[i])}
  /\ connected => s[Len(wire)] = sentTv

Chained == \E s \in [0..Len(wire) -> 0..tv] : Leads(s)

StreamInv == MarketOK /\ LaddersAgree /\ Chained

LEMMA NewRunnerIs ==
  NewRunner \in Runners
BY DEF Runners

LEMMA HeldAtIs ==
  ASSUME MarketOK, NEW n \in 0..tv
  PROVE  HeldAt(n) \in Runners /\ HeldAt(n).tv = n
<1>1. tv \in Nat /\ \A i \in 1..tv : books[i] \in Books
  BY DEF MarketOK, tv
<1>2. CASE n = 0
  BY <1>2 DEF HeldAt, Runners, NewRunner
<1>3. CASE n # 0
  BY <1>1, <1>3 DEF HeldAt, Runners, Held, MarketOK
<1> QED
  BY <1>2, <1>3

\* A later book changes nothing of what was held before it.
LEMMA HeldAtStays ==
  ASSUME MarketOK, NEW b \in Books, books' = Append(books, b), UNCHANGED <<side, fields>>
  PROVE  /\ books' \in Seq(Books) /\ tv' = tv + 1
         /\ \A n \in 0..tv : HeldAt(n)' = HeldAt(n)
<1>1. /\ books \in Seq(Books) /\ tv = Len(books) /\ tv \in Nat
  BY DEF MarketOK, tv
<1>2. books' \in Seq(Books) /\ tv' = tv + 1 /\ \A i \in 1..tv : books'[i] = books[i]
  BY <1>1 DEF tv
<1> QED
  BY <1>1, <1>2 DEF HeldAt

LEMMA MessagesAre ==
  ASSUME MarketOK, NEW m \in 0..tv, NEW n \in 0..tv
  PROVE  Image(n) \in Messages /\ Delta(m, n) \in Messages
<1>1. NewRunner \in Runners /\ HeldAt(m) \in Runners /\ HeldAt(n) \in Runners
  BY HeldAtIs, NewRunnerIs
<1>2. RunnerDelta(NewRunner, HeldAt(n)) \in Changes /\ RunnerDelta(HeldAt(m), HeldAt(n)) \in Changes
  BY <1>1 DEF Changes
<1> QED
  BY <1>2 DEF Messages, Image, Delta

\* A message takes the cache to the state it leads to.
LEMMA MessageLeads ==
  ASSUME MarketOK, LaddersAgree, NEW n \in 0..tv, NEW mc \in {Image(n), Delta(cache.tv, n)}
  PROVE  MarketAfter(cache, mc) = HeldAt(n)
<1>1. NewRunner \in Runners /\ HeldAt(n) \in Runners /\ HeldAt(cache.tv) \in Runners
  <2>1. cache.tv \in 0..tv
    BY DEF MarketOK
  <2> QED
    BY <2>1, HeldAtIs, NewRunnerIs
<1>2. CASE mc = Image(n)
  BY <1>1, <1>2, RunnersAre, RunnerRoundTrip DEF Image, MarketAfter
<1>3. CASE mc = Delta(cache.tv, n)
  BY <1>1, <1>3, RunnersAre, RunnerRoundTrip DEF Delta, MarketAfter, LaddersAgree
<1> QED
  BY <1>2, <1>3

LEMMA StreamInit == Init => StreamInv
<1> SUFFICES ASSUME Init
             PROVE  StreamInv
  OBVIOUS
<1>1. PICK b \in Books : books = <<b>>
  BY DEF Init
<1>2. books \in Seq(Books) /\ Len(books) = 1 /\ tv = 1
  BY <1>1 DEF tv
<1>3. cache = NewRunner /\ NewRunner \in Runners /\ cache.tv = 0
  BY DEF Init, Runners, NewRunner
<1>4. MarketOK
  <2>1. /\ side \in {"back", "lay"} /\ fields \in SUBSET LadderField
        /\ connected = FALSE /\ wire = <<>> /\ sentTv = 0 /\ 0 \in 0..tv
    BY <1>2 DEF Init
  <2>2. <<>> \in Seq(Messages)
    OBVIOUS
  <2>3. cache \in Runners /\ cache.tv \in 0..tv /\ sentTv \in 0..tv
    BY <2>1, <1>3
  <2>4. wire \in Seq(Messages) /\ connected \in BOOLEAN /\ (~connected => wire = <<>>)
    BY <2>1, <2>2
  <2>5. books \in Seq(Books) /\ Len(books) >= 1
    BY <1>2
  <2> QED
    BY <2>1, <2>3, <2>4, <2>5 DEF MarketOK
<1>5. LaddersAgree
  BY <1>3 DEF LaddersAgree, HeldAt
<1>6. Chained
  <2> DEFINE s == [i \in 0..0 |-> 0]
  <2>1. Len(wire) = 0 /\ ~connected
    BY DEF Init
  <2>2. s \in [0..Len(wire) -> 0..tv] /\ Leads(s)
    BY <2>1, <1>2, <1>3 DEF Leads
  <2> QED
    BY <2>2 DEF Chained
<1> QED
  BY <1>4, <1>5, <1>6 DEF StreamInv

\* As long as Betfair's book does not change, no message means anything else.
LEMMA Unmoved ==
  ASSUME UNCHANGED <<side, fields, books>>
  PROVE  /\ tv' = tv
         /\ \A n : HeldAt(n)' = HeldAt(n) /\ Image(n)' = Image(n)
         /\ \A m, n : Delta(m, n)' = Delta(m, n)
<1>1. tv' = tv /\ \A n : HeldAt(n)' = HeldAt(n)
  BY DEF HeldAt, tv
<1> QED
  BY <1>1 DEF Image, Delta

\* How a chain of the next state is shown.
LEMMA ChainedNext ==
  ASSUME UNCHANGED <<side, fields, books>>,
         NEW t \in [0..Len(wire') -> 0..tv],
         t[0] = cache'.tv,
         \A i \in 1..Len(wire') :
           t[i - 1] <= t[i] /\ wire'[i] \in {Image(t[i]), Delta(t[i - 1], t[i])},
         connected' => t[Len(wire')] = sentTv'
  PROVE  Chained'
<1>1. t \in [0..Len(wire)' -> 0..tv'] /\ tv' = tv
  BY Unmoved
<1>2. Leads(t)'
  BY <1>1, Unmoved DEF Leads
<1> QED
  BY <1>1, <1>2 DEF Chained

\* Steps of the stream do not disturb what they do not touch.
LEMMA StreamStays ==
  ASSUME StreamInv, UNCHANGED <<marketVars, streamVars, cache>>
  PROVE  StreamInv'
<1>1. /\ UNCHANGED <<side, fields, books, connected, wire, sentTv, cache>>
  BY DEF marketVars, streamVars
<1>2. MarketOK' /\ LaddersAgree'
  BY <1>1 DEF StreamInv, MarketOK, LaddersAgree, HeldAt, tv
<1>3. Chained'
  BY <1>1 DEF StreamInv, Chained, Leads, Image, Delta, HeldAt, tv
<1> QED
  BY <1>2, <1>3 DEF StreamInv

LEMMA StreamStep == StreamInv /\ [Next]_vars => StreamInv' /\ (cache.tv <= cache'.tv)
<1> SUFFICES ASSUME StreamInv, [Next]_vars
             PROVE  StreamInv' /\ cache.tv <= cache'.tv
  OBVIOUS
<1> USE DEF StreamInv
<1>1. /\ tv = Len(books) /\ tv \in Nat /\ cache.tv \in 0..tv /\ cache \in Runners
      /\ Len(wire) \in Nat /\ wire \in Seq(Messages) /\ sentTv \in 0..tv
  BY DEF MarketOK, tv
<1>2. PICK s \in [0..Len(wire) -> 0..tv] : Leads(s)
  BY DEF Chained
<1>3. CASE BookChanges
  <2>1. PICK b \in Books : books' = Append(books, b)
    <3>1. books[tv] \in Books
      BY <1>1 DEF MarketOK
    <3>2. PICK p \in Price :
            books' = Append(books, IF p \in DOMAIN books[tv]
                                   THEN [q \in DOMAIN books[tv] \ {p} |-> books[tv][q]]
                                   ELSE [q \in DOMAIN books[tv] \cup {p} |-> 1])
      BY <1>3 DEF BookChanges
    <3>3. /\ [q \in DOMAIN books[tv] \ {p} |-> books[tv][q]] \in Books
          /\ [q \in DOMAIN books[tv] \cup {p} |-> 1] \in Books
      BY <3>1 DEF Books
    <3> QED
      BY <3>2, <3>3
  <2>2. UNCHANGED <<side, fields, connected, wire, sentTv, cache>>
    BY <1>3 DEF BookChanges, streamVars
  <2>3. /\ books' \in Seq(Books) /\ tv' = tv + 1
        /\ \A n \in 0..tv : HeldAt(n)' = HeldAt(n)
    BY <2>1, <2>2, HeldAtStays
  <2>4. MarketOK'
    BY <1>1, <2>2, <2>3 DEF MarketOK, tv
  <2>5. LaddersAgree'
    BY <1>1, <2>2, <2>3 DEF LaddersAgree
  <2>6. \A m, n \in 0..tv : Image(n)' = Image(n) /\ Delta(m, n)' = Delta(m, n)
    BY <2>3 DEF Image, Delta
  <2>7. s \in [0..Len(wire)' -> 0..tv'] /\ Leads(s)'
    <3>1. 0..tv \subseteq 0..tv'
      BY <1>1, <2>3
    <3>2. s \in [0..Len(wire)' -> 0..tv']
      BY <3>1, <2>2
    <3>3. \A i \in 1..Len(wire) : s[i] \in 0..tv /\ s[i - 1] \in 0..tv
      BY <1>1
    <3> QED
      BY <3>2, <3>3, <2>2, <2>6, <1>2 DEF Leads
  <2> QED
    BY <1>1, <2>2, <2>4, <2>5, <2>7 DEF Chained
<1>4. CASE Connect
  <2> DEFINE t == [i \in 0..1 |-> IF i = 0 THEN cache.tv ELSE tv]
  <2>1. /\ UNCHANGED <<side, fields, books, cache>> /\ connected' = TRUE /\ sentTv' = tv
        /\ \E mc \in {Image(tv), Delta(cache.tv, tv)} : wire' = <<mc>>
    BY <1>4 DEF Connect, marketVars
  <2>2. PICK mc \in {Image(tv), Delta(cache.tv, tv)} : wire' = <<mc>>
    BY <2>1
  <2>3. mc \in Messages
    BY <1>1, MessagesAre
  <2>4. wire' \in Seq(Messages) /\ Len(wire') = 1 /\ wire'[1] = mc
    BY <2>2, <2>3
  <2>5. tv' = tv
    BY <2>1, Unmoved
  <2>6. MarketOK'
    BY <1>1, <2>1, <2>4, <2>5 DEF MarketOK
  <2>7. LaddersAgree'
    BY <2>1, Unmoved DEF LaddersAgree
  <2>8. t \in [0..Len(wire') -> 0..tv] /\ t[0] = cache.tv /\ t[1] = tv
    BY <1>1, <2>4
  <2> HIDE DEF t
  <2>9. \A i \in 1..Len(wire') : i = 1 /\ i - 1 = 0
    BY <2>4
  <2>10. t[0] <= t[1] /\ wire'[1] \in {Image(t[1]), Delta(t[0], t[1])}
    BY <1>1, <2>2, <2>4, <2>8
  <2>11. \A i \in 1..Len(wire') :
           t[i - 1] <= t[i] /\ wire'[i] \in {Image(t[i]), Delta(t[i - 1], t[i])}
    BY <2>9, <2>10
  <2>12. Chained'
    BY <2>1, <2>4, <2>8, <2>11, ChainedNext
  <2> QED
    BY <1>1, <2>1, <2>6, <2>7, <2>12
<1>5. CASE BetfairSends
  <2> DEFINE len == Len(wire)
             t == [i \in 0..len + 1 |-> IF i <= len THEN s[i] ELSE tv]
  <2>1. /\ UNCHANGED <<side, fields, books, cache, connected>> /\ sentTv' = tv
        /\ connected /\ wire' = Append(wire, Delta(sentTv, tv))
    BY <1>5 DEF BetfairSends, marketVars
  <2>2. Delta(sentTv, tv) \in Messages
    BY <1>1, MessagesAre
  <2>3. /\ wire' \in Seq(Messages) /\ Len(wire') = len + 1
        /\ wire'[len + 1] = Delta(sentTv, tv)
        /\ \A i \in 1..len : wire'[i] = wire[i]
    BY <1>1, <2>1, <2>2
  <2>4. tv' = tv
    BY <2>1, Unmoved
  <2>5. MarketOK'
    BY <1>1, <2>1, <2>3, <2>4 DEF MarketOK
  <2>6. LaddersAgree'
    BY <2>1, Unmoved DEF LaddersAgree
  <2>7. /\ t \in [0..Len(wire') -> 0..tv] /\ t[0] = cache.tv /\ t[len + 1] = tv
        /\ \A i \in 0..len : t[i] = s[i]
    BY <1>1, <1>2, <2>3, <2>4 DEF Leads
  <2>8. ASSUME NEW i \in 1..(len + 1)
        PROVE  t[i - 1] <= t[i] /\ wire'[i] \in {Image(t[i]), Delta(t[i - 1], t[i])}
    <3>1. CASE i \in 1..len
      <4>1. t[i - 1] = s[i - 1] /\ t[i] = s[i] /\ wire'[i] = wire[i]
        BY <1>1, <3>1, <2>3, <2>7
      <4> QED
        BY <4>1, <3>1, <1>2 DEF Leads
    <3>2. CASE i = len + 1
      <4>1. t[i - 1] = sentTv /\ t[i] = tv
        BY <1>1, <1>2, <3>2, <2>1, <2>7 DEF Leads
      <4> QED
        BY <4>1, <1>1, <3>2, <2>3
    <3> QED
      BY <1>1, <3>1, <3>2
  <2> HIDE DEF t
  <2>9. Chained'
    BY <2>1, <2>3, <2>7, <2>8, ChainedNext
  <2> QED
    BY <1>1, <2>1, <2>5, <2>6, <2>9
<1>6. CASE ConnectionLost
  <2> DEFINE t == [i \in 0..0 |-> cache.tv]
  <2>1. /\ UNCHANGED <<side, fields, books, cache, sentTv>> /\ connected' = FALSE
        /\ wire' = <<>>
    BY <1>6 DEF ConnectionLost, marketVars
  <2>2. tv' = tv /\ <<>> \in Seq(Messages) /\ Len(wire') = 0
    BY <2>1, Unmoved
  <2>3. MarketOK'
    BY <1>1, <2>1, <2>2 DEF MarketOK
  <2>4. LaddersAgree'
    BY <2>1, Unmoved DEF LaddersAgree
  <2>5. t \in [0..Len(wire') -> 0..tv] /\ t[0] = cache.tv
    BY <1>1, <2>2
  <2> HIDE DEF t
  <2>6. Chained'
    BY <2>1, <2>2, <2>5, ChainedNext
  <2> QED
    BY <1>1, <2>1, <2>3, <2>4, <2>6
<1>7. CASE HandleMcm
  <2> DEFINE len == Len(wire)
             t == [i \in 0..(len - 1) |-> s[i + 1]]
  <2>1. /\ UNCHANGED <<side, fields, books, connected, sentTv>>
        /\ wire # <<>> /\ wire' = Tail(wire) /\ cache' = MarketAfter(cache, Head(wire))
    BY <1>7 DEF HandleMcm, marketVars
  <2>2. /\ len >= 1 /\ Head(wire) = wire[1] /\ wire' \in Seq(Messages)
        /\ Len(wire') = len - 1 /\ \A i \in 1..(len - 1) : wire'[i] = wire[i + 1]
    BY <1>1, <2>1
  <2>3. tv' = tv
    BY <2>1, Unmoved
  <2>4. /\ s[0] = cache.tv /\ s[1] \in 0..tv /\ s[0] <= s[1]
        /\ wire[1] \in {Image(s[1]), Delta(s[0], s[1])}
    <3>1. 1 \in 1..Len(wire) /\ 1 - 1 = 0 /\ 1 \in 0..Len(wire)
      BY <1>1, <2>2
    <3>2. s[1] \in 0..tv
      BY <3>1
    <3> QED
      BY <3>1, <3>2, <1>2 DEF Leads
  <2>5. cache' = HeldAt(s[1])
    BY <2>1, <2>2, <2>4, MessageLeads
  <2>6. cache' \in Runners /\ cache'.tv = s[1]
    BY <2>4, <2>5, HeldAtIs
  <2>7. ~connected => wire' = <<>>
    BY <2>1 DEF MarketOK
  <2>8. MarketOK'
    BY <1>1, <2>1, <2>2, <2>3, <2>4, <2>6, <2>7 DEF MarketOK
  <2>9. LaddersAgree'
    BY <2>1, <2>5, <2>6, Unmoved DEF LaddersAgree
  <2>10. /\ t \in [0..Len(wire') -> 0..tv] /\ t[0] = cache'.tv
         /\ \A i \in 0..(len - 1) : t[i] = s[i + 1]
    BY <1>1, <1>2, <2>2, <2>3, <2>6
  <2>11. ASSUME NEW i \in 1..(len - 1)
         PROVE  t[i - 1] <= t[i] /\ wire'[i] \in {Image(t[i]), Delta(t[i - 1], t[i])}
    <3>1. i + 1 \in 1..len /\ (i + 1) - 1 = i /\ t[i - 1] = s[i] /\ t[i] = s[i + 1]
      BY <1>1, <2>2, <2>10
    <3>2. s[(i + 1) - 1] <= s[i + 1]
          /\ wire[i + 1] \in {Image(s[i + 1]), Delta(s[(i + 1) - 1], s[i + 1])}
      BY <3>1, <1>2 DEF Leads
    <3> QED
      BY <3>1, <3>2, <2>2
  <2>12. connected' => t[Len(wire')] = sentTv'
    <3>1. Len(wire') \in 0..(len - 1) /\ Len(wire') + 1 = len
      BY <1>1, <2>2
    <3> QED
      BY <3>1, <1>2, <2>1, <2>10 DEF Leads
  <2> HIDE DEF t
  <2>13. Chained'
    BY <2>1, <2>2, <2>10, <2>11, <2>12, ChainedNext
  <2> QED
    BY <1>1, <2>4, <2>6, <2>8, <2>9, <2>13
<1>8. CASE Publish
  BY <1>1, <1>8, StreamStays DEF Publish
<1>9. CASE UNCHANGED <<marketVars, streamVars, cache>>
  BY <1>1, <1>9, StreamStays
<1> QED
  BY <1>3, <1>4, <1>5, <1>6, <1>7, <1>8, <1>9 DEF Next, vars

-----------------------------------------------------------------------------
(* Every consumer moves forward.                                             *)

Views == {BestAvailable(r, sd) : r \in Runners, sd \in {"back", "lay"}} \cup {<<>>}
Told == [event : {"market_change", "infra_event"}, tv : Nat, best : Views]

HubOK ==
  /\ gen \in [Consumer -> {"none", "made", "getting", "sending", "done"}]
  /\ queue \in [Consumer -> Seq(Told)]
  /\ held \in [Consumer -> Seq(Told)]
  /\ shown \in [Consumer -> Nat]
  /\ \A c \in Consumer : Len(held[c]) = IF gen[c] = "sending" THEN 1 ELSE 0

\* The state of the market c is at once it was sent what its generator holds.
Floor(c) == IF held[c] # <<>> /\ held[c][1].tv # 0 THEN held[c][1].tv ELSE shown[c]

\* Infrastructure events apart (their tv is 0), q goes from lo to hi, never back.
Ordered(q, lo, hi) ==
  /\ \A i \in 1..Len(q) : q[i].tv <= hi /\ (q[i].tv # 0 => lo <= q[i].tv)
  /\ \A i, j \in 1..Len(q) :
       i < j /\ q[i].tv # 0 /\ q[j].tv # 0 => q[i].tv <= q[j].tv

InOrder ==
  \A c \in Consumer : /\ shown[c] <= Floor(c) /\ Floor(c) <= cache.tv
                      /\ Ordered(queue[c], Floor(c), cache.tv)

HubInv == HubOK /\ InOrder

LEMMA ToldIs == \A e \in Told : e.tv \in Nat
BY DEF Told

LEMMA PutOrdered ==
  ASSUME NEW q \in Seq(Told), NEW lo \in Nat, NEW hi \in Nat, NEW high \in Nat,
         NEW e \in Told, Ordered(q, lo, hi), lo <= hi, hi <= high, e.tv \in {0, high}
  PROVE  Put(q, e) \in Seq(Told) /\ Ordered(Put(q, e), lo, high)
<1>1. \A i \in 1..Len(q) : q[i] \in Told /\ q[i].tv \in Nat
  BY ToldIs
<1>2. CASE Put(q, e) = q
  BY <1>1, <1>2 DEF Ordered
<1>3. CASE Put(q, e) = Append(q, e)
  <2> DEFINE r == Append(q, e)
  <2>1. /\ r \in Seq(Told) /\ Len(r) = Len(q) + 1 /\ r[Len(q) + 1] = e
        /\ \A i \in 1..Len(q) : r[i] = q[i]
    OBVIOUS
  <2> HIDE DEF r
  <2>2. \A i \in 1..Len(r) : i \in 1..Len(q) \/ i = Len(q) + 1
    BY <2>1
  <2>3. \A i \in 1..Len(r) : r[i].tv <= high /\ (r[i].tv # 0 => lo <= r[i].tv)
    BY <1>1, <2>1, <2>2 DEF Ordered
  <2>4. \A i, j \in 1..Len(r) :
          i < j /\ r[i].tv # 0 /\ r[j].tv # 0 => r[i].tv <= r[j].tv
    <3> SUFFICES ASSUME NEW i \in 1..Len(r), NEW j \in 1..Len(r), i < j,
                        r[i].tv # 0, r[j].tv # 0
                 PROVE  r[i].tv <= r[j].tv
      OBVIOUS
    <3>1. i \in 1..Len(q)
      BY <2>1
    <3>2. CASE j \in 1..Len(q)
      BY <3>1, <3>2, <2>1 DEF Ordered
    <3>3. CASE j = Len(q) + 1
      BY <3>1, <3>3, <1>1, <2>1 DEF Ordered
    <3> QED
      BY <2>2, <3>2, <3>3
  <2>5. Ordered(r, lo, high)
    BY <2>3, <2>4 DEF Ordered
  <2> QED
    BY <1>3, <2>1, <2>5 DEF r
<1> QED
  BY <1>2, <1>3 DEF Put

LEMMA TailOrdered ==
  ASSUME NEW q \in Seq(Told), q # <<>>, NEW lo \in Nat, NEW hi \in Nat, lo <= hi,
         Ordered(q, lo, hi)
  PROVE  /\ Tail(q) \in Seq(Told) /\ Head(q) \in Told
         /\ Head(q).tv <= hi /\ (Head(q).tv # 0 => lo <= Head(q).tv)
         /\ Ordered(Tail(q), IF Head(q).tv # 0 THEN Head(q).tv ELSE lo, hi)
<1> DEFINE r == Tail(q)
<1>1. /\ Len(q) >= 1 /\ Head(q) = q[1] /\ q[1] \in Told /\ r \in Seq(Told)
      /\ Len(r) = Len(q) - 1 /\ \A i \in 1..Len(r) : r[i] = q[i + 1]
  OBVIOUS
<1> HIDE DEF r
<1>2. \A i \in 1..Len(r) : i + 1 \in 1..Len(q) /\ 1 < i + 1
  BY <1>1
<1>3. q[1].tv <= hi /\ (q[1].tv # 0 => lo <= q[1].tv)
  BY <1>1 DEF Ordered
<1>4. ASSUME NEW i \in 1..Len(r)
      PROVE  /\ r[i].tv <= hi
             /\ r[i].tv # 0 => (IF q[1].tv # 0 THEN q[1].tv ELSE lo) <= r[i].tv
  <2>1. /\ i + 1 \in 1..Len(q) /\ 1 \in 1..Len(q) /\ 1 < i + 1
        /\ r[i] = q[i + 1]
    BY <1>1, <1>2
  <2>2. q[i + 1].tv <= hi /\ (q[i + 1].tv # 0 => lo <= q[i + 1].tv)
    BY <2>1 DEF Ordered
  <2>3. q[1].tv # 0 /\ q[i + 1].tv # 0 => q[1].tv <= q[i + 1].tv
    BY <2>1 DEF Ordered
  <2> QED
    BY <2>1, <2>2, <2>3
<1>5. ASSUME NEW i \in 1..Len(r), NEW j \in 1..Len(r), i < j, r[i].tv # 0, r[j].tv # 0
      PROVE  r[i].tv <= r[j].tv
  <2>1. i + 1 \in 1..Len(q) /\ j + 1 \in 1..Len(q) /\ i + 1 < j + 1
    BY <1>1, <1>5
  <2>2. q[i + 1].tv # 0 /\ q[j + 1].tv # 0
    BY <1>1, <1>5
  <2>3. q[i + 1].tv <= q[j + 1].tv
    BY <2>1, <2>2 DEF Ordered
  <2> QED
    BY <1>1, <2>3
<1>6. Ordered(r, IF q[1].tv # 0 THEN q[1].tv ELSE lo, hi)
  BY <1>4, <1>5 DEF Ordered
<1> QED
  BY <1>1, <1>3, <1>6 DEF r

LEMMA FloorIs ==
  ASSUME HubOK, NEW c \in Consumer
  PROVE  Floor(c) \in Nat
<1>1. held[c] \in Seq(Told) /\ shown[c] \in Nat /\ Len(held[c]) \in {0, 1}
  BY DEF HubOK
<1>2. held[c] # <<>> => held[c][1] \in Told
  BY <1>1
<1> QED
  BY <1>1, <1>2, ToldIs DEF Floor

\* A broadcast of something newer, or of no state of the market.
LEMMA BroadcastOrdered ==
  ASSUME HubInv, cache.tv \in Nat, cache'.tv \in Nat, cache.tv <= cache'.tv,
         NEW ch, NEW e \in Told, e.tv \in {0, cache'.tv}, Broadcast(ch, e)
  PROVE  HubInv' /\ UNCHANGED shown
<1>1. UNCHANGED <<gen, held, shown>> /\ \A c \in Consumer : Floor(c)' = Floor(c)
  BY DEF Broadcast, Floor
<1>2. ASSUME NEW c \in Consumer
      PROVE  /\ queue'[c] \in Seq(Told) /\ Ordered(queue'[c], Floor(c), cache'.tv)
  <2> DEFINE once == Put(queue[c], e)
             twice == Put(once, e)
  <2>1. queue'[c] \in {queue[c], once, twice}
    BY DEF Broadcast
  <2>2. queue[c] \in Seq(Told) /\ Floor(c) \in Nat /\ Floor(c) <= cache.tv
        /\ Ordered(queue[c], Floor(c), cache.tv)
    BY FloorIs DEF HubInv, HubOK, InOrder
  <2>3. Floor(c) <= cache'.tv
    BY <2>2
  <2>4. Ordered(queue[c], Floor(c), cache'.tv)
    <3>1. \A i \in 1..Len(queue[c]) : queue[c][i].tv \in Nat
      BY <2>2, ToldIs
    <3> QED
      BY <2>2, <3>1 DEF Ordered
  <2>5. once \in Seq(Told) /\ Ordered(once, Floor(c), cache'.tv)
    BY <2>2, <2>3, <2>4, PutOrdered
  <2> HIDE DEF once
  <2>6. twice \in Seq(Told) /\ Ordered(twice, Floor(c), cache'.tv)
    BY <2>2, <2>3, <2>5, PutOrdered
  <2> HIDE DEF twice
  <2> QED
    BY <2>1, <2>2, <2>4, <2>5, <2>6
<1>3. queue' \in [Consumer -> Seq(Told)]
  <2>1. queue' = [c \in Consumer |-> queue'[c]]
    BY DEF Broadcast
  <2> QED
    BY <1>2, <2>1
<1>4. HubOK'
  BY <1>1, <1>3 DEF HubInv, HubOK
<1>5. \A c \in Consumer : shown[c] <= Floor(c) /\ Floor(c) <= cache'.tv
  BY FloorIs DEF HubInv, InOrder
<1>6. InOrder'
  BY <1>1, <1>2, <1>5 DEF InOrder
<1> QED
  BY <1>1, <1>4, <1>6 DEF HubInv

LEMMA HubStarts == Init => HubInv
<1> SUFFICES ASSUME Init
             PROVE  HubInv
  OBVIOUS
<1>1. HubInit /\ cache.tv = 0
  BY DEF Init, NewRunner
<1>2. HubOK
  BY <1>1 DEF HubInit, HubOK
<1>3. \A c \in Consumer : held[c] = <<>> /\ queue[c] = <<>> /\ shown[c] = 0
  BY <1>1 DEF HubInit
<1>4. \A c \in Consumer : Floor(c) = 0 /\ Ordered(queue[c], 0, 0)
  BY <1>3 DEF Floor, Ordered
<1> QED
  BY <1>1, <1>2, <1>3, <1>4 DEF HubInv, InOrder

\* What a consumer was shown, in a step.
Moves(c) ==
  \E n \in shown[c]..cache.tv : shown' = [shown EXCEPT ![c] = n]

LEMMA HubStep ==
  ASSUME HubInv, cache.tv \in Nat, UNCHANGED cache, HubNext
  PROVE  HubInv' /\ \E c \in Consumer : Moves(c)
<1>1. PICK c \in Consumer :
        \/ \E ch \in Channel : Subscribe(c, ch)
        \/ Begin(c) \/ Get(c) \/ Leaves(c) \/ Sent(c) \/ ClientLeaves(c)
  BY DEF HubNext, Serves
<1>2. /\ HubOK /\ InOrder /\ shown[c] \in Nat /\ Floor(c) \in Nat
      /\ queue[c] \in Seq(Told) /\ held[c] \in Seq(Told)
      /\ shown[c] <= Floor(c) /\ Floor(c) <= cache.tv
      /\ Ordered(queue[c], Floor(c), cache.tv)
  BY FloorIs DEF HubInv, HubOK, InOrder
<1>3. CASE UNCHANGED <<queue, held, shown>> /\ gen[c] # "sending"
           /\ \E l \in {"made", "getting"} : gen' = [gen EXCEPT ![c] = l]
  <2>1. PICK l \in {"made", "getting"} : gen' = [gen EXCEPT ![c] = l]
    BY <1>3
  <2>2. HubOK'
    BY <1>2, <1>3, <2>1 DEF HubOK
  <2>3. InOrder'
    BY <1>2, <1>3 DEF InOrder, Floor
  <2>4. shown' = [shown EXCEPT ![c] = shown[c]] /\ shown[c] \in shown[c]..cache.tv
    BY <1>2, <1>3 DEF HubOK
  <2> QED
    BY <2>2, <2>3, <2>4 DEF HubInv, Moves
<1>4. CASE UNCHANGED <<gen, queue, held, shown>>
  <2>1. HubInv'
    BY <1>2, <1>4 DEF HubInv, HubOK, InOrder, Floor
  <2>2. shown' = [shown EXCEPT ![c] = shown[c]] /\ shown[c] \in shown[c]..cache.tv
    BY <1>2, <1>4 DEF HubOK
  <2> QED
    BY <2>1, <2>2 DEF Moves
<1>5. CASE Get(c)
  <2>1. /\ gen[c] = "getting" /\ queue[c] # <<>> /\ UNCHANGED shown
        /\ held' = [held EXCEPT ![c] = <<Head(queue[c])>>]
        /\ queue' = [queue EXCEPT ![c] = Tail(queue[c])]
        /\ gen' = [gen EXCEPT ![c] = "sending"]
    BY <1>5 DEF Get
  <2>2. held[c] = <<>> /\ Floor(c) = shown[c]
    BY <1>2, <2>1 DEF HubOK, Floor
  <2> DEFINE e == Head(queue[c])
             lo == IF e.tv # 0 THEN e.tv ELSE shown[c]
  <2>3. /\ Tail(queue[c]) \in Seq(Told) /\ e \in Told
        /\ e.tv <= cache.tv /\ (e.tv # 0 => shown[c] <= e.tv)
        /\ Ordered(Tail(queue[c]), lo, cache.tv)
    BY <1>2, <2>1, <2>2, TailOrdered
  <2> HIDE DEF e
  <2>4. /\ queue'[c] = Tail(queue[c]) /\ held'[c] = <<e>> /\ shown'[c] = shown[c]
        /\ gen'[c] = "sending"
        /\ \A d \in Consumer \ {c} : /\ queue'[d] = queue[d] /\ held'[d] = held[d]
                                     /\ shown'[d] = shown[d] /\ gen'[d] = gen[d]
    BY <1>2, <2>1 DEF HubOK, e
  <2>5. HubOK'
    <3>1. <<e>> \in Seq(Told) /\ Len(<<e>>) = 1
      BY <2>3
    <3>2. /\ gen' \in [Consumer -> {"none", "made", "getting", "sending", "done"}]
          /\ queue' \in [Consumer -> Seq(Told)] /\ held' \in [Consumer -> Seq(Told)]
          /\ shown' \in [Consumer -> Nat]
      BY <1>2, <2>1, <2>3, <3>1 DEF HubOK, e
    <3>3. \A d \in Consumer : Len(held'[d]) = IF gen'[d] = "sending" THEN 1 ELSE 0
      BY <1>2, <2>4, <3>1 DEF HubOK
    <3> QED
      BY <3>2, <3>3 DEF HubOK
  <2>6. held'[c] # <<>> /\ held'[c][1] = e
    BY <2>4
  <2>7. Floor(c)' = lo
    BY <2>4, <2>6 DEF Floor
  <2>8. e.tv \in Nat /\ shown[c] <= lo /\ lo <= cache.tv
    BY <1>2, <2>2, <2>3, ToldIs
  <2> HIDE DEF lo
  <2>9. \A d \in Consumer \ {c} : Floor(d)' = Floor(d)
    BY <2>4 DEF Floor
  <2>10. InOrder'
    BY <1>2, <2>3, <2>4, <2>7, <2>8, <2>9 DEF InOrder
  <2>11. shown' = [shown EXCEPT ![c] = shown[c]] /\ shown[c] \in shown[c]..cache.tv
    BY <1>2, <2>1 DEF HubOK
  <2> QED
    BY <2>5, <2>10, <2>11 DEF HubInv, Moves
<1>6. CASE Sent(c)
  <2>1. /\ gen[c] = "sending" /\ UNCHANGED queue
        /\ shown' = [shown EXCEPT ![c] = IF held[c][1].tv = 0 THEN shown[c] ELSE held[c][1].tv]
        /\ held' = [held EXCEPT ![c] = <<>>]
        /\ gen' = [gen EXCEPT ![c] = "getting"]
    BY <1>6 DEF Sent
  <2>2. held[c] # <<>>
    BY <1>2, <2>1 DEF HubOK
  <2>3. (IF held[c][1].tv = 0 THEN shown[c] ELSE held[c][1].tv) = Floor(c)
    BY <2>2 DEF Floor
  <2>4. shown' = [shown EXCEPT ![c] = Floor(c)]
    BY <2>1, <2>3
  <2>5. /\ queue'[c] = queue[c] /\ held'[c] = <<>> /\ shown'[c] = Floor(c)
        /\ gen'[c] = "getting"
        /\ \A d \in Consumer \ {c} : /\ queue'[d] = queue[d] /\ held'[d] = held[d]
                                     /\ shown'[d] = shown[d] /\ gen'[d] = gen[d]
    BY <1>2, <2>1, <2>4 DEF HubOK
  <2>6. HubOK'
    <3>1. <<>> \in Seq(Told) /\ Len(<<>>) = 0
      OBVIOUS
    <3>2. /\ gen' \in [Consumer -> {"none", "made", "getting", "sending", "done"}]
          /\ queue' \in [Consumer -> Seq(Told)] /\ held' \in [Consumer -> Seq(Told)]
          /\ shown' \in [Consumer -> Nat]
      BY <1>2, <2>1, <2>4, <3>1 DEF HubOK
    <3>3. \A d \in Consumer : Len(held'[d]) = IF gen'[d] = "sending" THEN 1 ELSE 0
      BY <1>2, <2>5, <3>1 DEF HubOK
    <3> QED
      BY <3>2, <3>3 DEF HubOK
  <2>7. \A d \in Consumer : Floor(d)' = Floor(d)
    BY <2>5 DEF Floor
  <2>8. InOrder'
    BY <1>2, <2>5, <2>7 DEF InOrder
  <2>9. Floor(c) \in shown[c]..cache.tv
    BY <1>2
  <2> QED
    BY <2>4, <2>6, <2>8, <2>9 DEF HubInv, Moves
<1>7. CASE Leaves(c)
  <2>1. /\ UNCHANGED shown
        /\ gen' = [gen EXCEPT ![c] = "done"]
        /\ queue' = [queue EXCEPT ![c] = <<>>] /\ held' = [held EXCEPT ![c] = <<>>]
    BY <1>7 DEF Leaves
  <2>2. /\ queue'[c] = <<>> /\ held'[c] = <<>> /\ gen'[c] = "done"
        /\ \A d \in Consumer \ {c} : /\ queue'[d] = queue[d] /\ held'[d] = held[d]
                                     /\ gen'[d] = gen[d]
    BY <1>2, <2>1 DEF HubOK
  <2>3. HubOK'
    <3>1. <<>> \in Seq(Told) /\ Len(<<>>) = 0
      OBVIOUS
    <3>2. /\ gen' \in [Consumer -> {"none", "made", "getting", "sending", "done"}]
          /\ queue' \in [Consumer -> Seq(Told)] /\ held' \in [Consumer -> Seq(Told)]
          /\ shown' \in [Consumer -> Nat]
      BY <1>2, <2>1, <3>1 DEF HubOK
    <3>3. \A d \in Consumer : Len(held'[d]) = IF gen'[d] = "sending" THEN 1 ELSE 0
      BY <1>2, <2>2, <3>1 DEF HubOK
    <3> QED
      BY <3>2, <3>3 DEF HubOK
  <2>4. /\ Floor(c)' = shown[c] /\ \A d \in Consumer \ {c} : Floor(d)' = Floor(d)
    BY <2>1, <2>2 DEF Floor
  <2>5. shown[c] <= cache.tv /\ Ordered(<<>>, shown[c], cache.tv)
    BY <1>2 DEF Ordered
  <2>6. InOrder'
    BY <1>2, <2>1, <2>2, <2>4, <2>5 DEF InOrder
  <2>7. shown' = [shown EXCEPT ![c] = shown[c]] /\ shown[c] \in shown[c]..cache.tv
    BY <1>2, <2>1 DEF HubOK
  <2> QED
    BY <2>3, <2>6, <2>7 DEF HubInv, Moves
<1>8. CASE \E ch \in Channel : Subscribe(c, ch)
  BY <1>3, <1>8 DEF Subscribe
<1>9. CASE Begin(c)
  BY <1>3, <1>9 DEF Begin
<1>10. CASE ClientLeaves(c)
  BY <1>4, <1>10 DEF ClientLeaves
<1> QED
  BY <1>1, <1>5, <1>6, <1>7, <1>8, <1>9, <1>10

-----------------------------------------------------------------------------
(* The theorems.                                                             *)

FeedInv == StreamInv /\ HubInv

LEMMA FeedStep ==
  ASSUME FeedInv, [Next]_vars
  PROVE  FeedInv' /\ [Forward!Next]_<<tv, shown>>
<1>1. /\ StreamInv' /\ cache.tv <= cache'.tv
      /\ tv \in Nat /\ cache.tv \in Nat /\ cache.tv <= tv /\ cache'.tv \in Nat
  <2>1. StreamInv' /\ cache.tv <= cache'.tv
    BY StreamStep DEF FeedInv
  <2>2. tv \in Nat /\ tv' \in Nat /\ cache.tv \in 0..tv /\ cache'.tv \in 0..tv'
    BY <2>1 DEF FeedInv, StreamInv, MarketOK, tv
  <2> QED
    BY <2>1, <2>2
<1>2. ASSUME UNCHANGED <<cache, hubVars>>
      PROVE  HubInv' /\ UNCHANGED shown
  <2>1. UNCHANGED <<cache, gen, queue, held, shown>>
    BY <1>2 DEF hubVars
  <2> QED
    BY <2>1 DEF FeedInv, HubInv, HubOK, InOrder, Floor
<1>3. CASE BookChanges
  <2>1. books \in Seq(Books) /\ tv = Len(books) /\ \E b : books' = Append(books, b)
    BY <1>3 DEF FeedInv, StreamInv, MarketOK, tv, BookChanges
  <2>2. Len(books') = Len(books) + 1
    BY <2>1
  <2>3. tv' = tv + 1
    BY <2>1, <2>2 DEF tv
  <2>4. UNCHANGED <<cache, hubVars>>
    BY <1>3 DEF BookChanges
  <2> QED
    BY <1>1, <1>2, <2>3, <2>4 DEF FeedInv, Forward!Next, Forward!MarketChanges
<1>4. CASE Connect \/ BetfairSends \/ ConnectionLost \/ UNCHANGED vars
  <2>1. UNCHANGED <<books, cache, hubVars>>
    BY <1>4 DEF Connect, BetfairSends, ConnectionLost, vars, marketVars
  <2>2. UNCHANGED tv
    BY <2>1 DEF tv
  <2> QED
    BY <1>1, <1>2, <2>1, <2>2 DEF FeedInv
<1>5. CASE HandleMcm
  <2>1. UNCHANGED <<side, books>> /\ Broadcast(MySport, Snapshot(cache'))
    BY <1>5 DEF HandleMcm, marketVars
  <2>2. Snapshot(cache') \in Told /\ Snapshot(cache').tv = cache'.tv
    <3>1. cache' \in Runners /\ side \in {"back", "lay"}
      BY <1>1, <2>1 DEF StreamInv, MarketOK
    <3>2. BestAvailable(cache', side) \in Views
      BY <3>1 DEF Views
    <3> QED
      BY <1>1, <3>2 DEF Snapshot, Told
  <2>3. HubInv' /\ UNCHANGED shown
    BY <1>1, <2>1, <2>2, BroadcastOrdered DEF FeedInv
  <2>4. UNCHANGED tv
    BY <2>1 DEF tv
  <2> QED
    BY <1>1, <2>3, <2>4 DEF FeedInv
<1>6. CASE Publish
  <2>1. UNCHANGED <<books, cache>> /\ Broadcast("all", Infra)
    BY <1>6 DEF Publish, marketVars
  <2>2. Infra \in Told /\ Infra.tv = 0
    BY DEF Infra, Told, Views
  <2>3. HubInv' /\ UNCHANGED shown
    BY <1>1, <2>1, <2>2, BroadcastOrdered DEF FeedInv
  <2>4. UNCHANGED tv
    BY <2>1 DEF tv
  <2> QED
    BY <1>1, <2>3, <2>4 DEF FeedInv
<1>7. CASE HubNext /\ UNCHANGED <<marketVars, streamVars, cache>>
  <2>1. HubInv' /\ \E c \in Consumer : Moves(c)
    BY <1>1, <1>7, HubStep DEF FeedInv
  <2>2. PICK c \in Consumer : Moves(c)
    BY <2>1
  <2>3. PICK n \in shown[c]..cache.tv : shown' = [shown EXCEPT ![c] = n]
    BY <2>2 DEF Moves
  <2>4. UNCHANGED tv
    BY <1>7 DEF marketVars, tv
  <2>5. shown \in [Consumer -> Nat] /\ shown[c] \in Nat
    BY DEF FeedInv, HubInv, HubOK
  <2>6. CASE n = shown[c]
    <3>1. UNCHANGED shown
      BY <2>3, <2>5, <2>6
    <3> QED
      BY <1>1, <2>1, <2>4, <3>1 DEF FeedInv
  <2>7. CASE n # shown[c]
    <3>1. n \in (shown[c] + 1)..tv
      BY <1>1, <2>5, <2>7
    <3>2. Forward!Shows(c)
      BY <2>3, <2>4, <3>1 DEF Forward!Shows
    <3> QED
      BY <1>1, <2>1, <3>2 DEF FeedInv, Forward!Next
  <2> QED
    BY <2>6, <2>7
<1> QED
  BY <1>3, <1>4, <1>5, <1>6, <1>7 DEF Next

\* The invariant behind the two theorems below: the messages in flight on the
\* stream lead from the cache's state to the last one sent, and no consumer has
\* an older state of the market behind a newer one in its queue.
THEOREM FeedInvariant == Spec => []FeedInv
<1>1. Init => FeedInv
  BY StreamInit, HubStarts DEF FeedInv
<1>2. FeedInv /\ [Next]_vars => FeedInv'
  BY FeedStep
<1> QED
  BY <1>1, <1>2, PTL DEF Spec

\* "Full Betfair ESA delta reconstruction": whatever the images, deltas, lost
\* connections and resumptions, apply_market_change() keeps the runner Betfair
\* had at the tv it shows.
THEOREM LaddersAgreeHolds == Spec => []LaddersAgree
<1>1. FeedInv => LaddersAgree
  BY DEF FeedInv, StreamInv
<1> QED
  BY <1>1, FeedInvariant, PTL

\* Whatever broadcast() drops or doubles and whoever leaves, the generators of
\* stream_routes.py show each consumer states of the market in their order: the
\* feed implements ForwardFeed.
THEOREM NeverBackwardsHolds == Spec => NeverBackwards
<1>1. Init => Forward!Init
  <2> SUFFICES ASSUME Init
               PROVE  Forward!Init
    OBVIOUS
  <2>1. tv \in Nat
    BY StreamInit DEF StreamInv, MarketOK, tv
  <2>2. shown = [c \in Consumer |-> 0]
    BY DEF Init, HubInit
  <2> QED
    BY <2>1, <2>2 DEF Forward!Init
<1>2. FeedInv /\ [Next]_vars => [Forward!Next]_<<tv, shown>>
  BY FeedStep
<1> QED
  BY <1>1, <1>2, FeedInvariant, PTL DEF Spec, NeverBackwards, Forward!Spec

-----------------------------------------------------------------------------
(* Nothing is missed but what found a queue full.                            *)

\* \o under a name the prover does not look into.
Concat(s, t) == s \o t

LEMMA ConcatAppend ==
  ASSUME NEW s \in Seq(Told), NEW t \in Seq(Told), NEW e \in Told
  PROVE  Concat(s, Append(t, e)) = Append(Concat(s, t), e)
BY DEF Concat

LEMMA ConcatTimes ==
  ASSUME NEW s \in Seq(Told), NEW e \in Told
  PROVE  /\ Concat(s, Times(0, e)) = s
         /\ Concat(s, Times(1, e)) = Append(s, e)
         /\ Concat(s, Times(2, e)) = Append(Append(s, e), e)
<1>1. Times(0, e) = <<>> /\ Times(1, e) = <<e>> /\ Times(2, e) = <<e, e>>
  BY DEF Times
<1>2. s \o <<>> = s /\ s \o <<e>> = Append(s, e) /\ s \o <<e, e>> = Append(Append(s, e), e)
  OBVIOUS
<1> QED
  BY <1>1, <1>2 DEF Concat

LEMMA ConcatEmpty ==
  ASSUME NEW q \in Seq(Told)
  PROVE  Concat(<<>>, q) = q /\ <<>> \in Seq(Told)
BY DEF Concat

LEMMA EmptyConcat == <<>> \in Seq(Told) /\ Concat(<<>>, <<>>) = <<>>
BY DEF Concat

LEMMA ConcatHead ==
  ASSUME NEW q \in Seq(Told), NEW h \in Told
  PROVE  /\ q # <<>> => Concat(<<Head(q)>>, Tail(q)) = q
         /\ Concat(<<h>>, q) # <<>> /\ Tail(Concat(<<h>>, q)) = q
BY DEF Concat

LEMMA OneElement ==
  ASSUME NEW q \in Seq(Told), Len(q) = 1
  PROVE  q[1] \in Told /\ q = <<q[1]>>
OBVIOUS

LEMMA NothingMissedIs ==
  NothingMissed <=> \A c \in Consumer : c \notin full => Concat(held[c], queue[c]) = owed[c]
BY DEF NothingMissed, Concat

LEMMA NothingMissedNext ==
  NothingMissed' <=> \A c \in Consumer : c \notin full' => Concat(held'[c], queue'[c]) = owed'[c]
BY DEF NothingMissed, Concat

Awake(c) == gen[c] \notin {"none", "done"}

\* The lists of subscribers agree with the generators.
Listed ==
  /\ subscribers \in [Channel -> SUBSET Consumer]
  /\ channel \in [Consumer -> Channel \cup {"none"}]
  /\ \A c \in Consumer : /\ Awake(c) => channel[c] \in Channel
                         /\ \A ch \in Channel :
                              c \in subscribers[ch] <=> Awake(c) /\ channel[c] = ch

Delivered ==
  /\ owed \in [Consumer -> Seq(Told)] /\ full \subseteq Consumer
  /\ \A c \in Consumer : ~Awake(c) => queue[c] = <<>> /\ held[c] = <<>> /\ owed[c] = <<>>
  /\ NothingMissed

DeliveryInv == Listed /\ Delivered

LEMMA PutsWhatIsDue ==
  ASSUME Listed, NEW c \in Consumer, NEW ch \in Channel
  PROVE  IF Awake(c) THEN Puts(c, ch) = Due(c, ch) ELSE Puts(c, ch) = 0
<1>1. "all" \in Channel
  BY DEF Channel
<1>2. /\ c \in subscribers[ch] <=> Awake(c) /\ channel[c] = ch
      /\ c \in subscribers["all"] <=> Awake(c) /\ channel[c] = "all"
  BY <1>1 DEF Listed
<1> QED
  BY <1>2 DEF Puts, Due

LEMMA BroadcastDelivers ==
  ASSUME HubOK, HubOK', DeliveryInv, NEW ch \in Channel, NEW e \in Told, Broadcast(ch, e)
  PROVE  DeliveryInv'
<1>1. UNCHANGED <<subscribers, channel, gen, held>>
  BY DEF Broadcast
<1>2. Listed'
  BY <1>1 DEF DeliveryInv, Listed, Awake
<1>3. ASSUME NEW c \in Consumer, c \in full' \/ ~Awake(c)
      PROVE  /\ owed'[c] = <<>>
             /\ ~Awake(c) => queue'[c] = <<>> /\ held'[c] = <<>>
  <2>1. owed'[c] = <<>>
    BY <1>3 DEF Broadcast, Awake
  <2>2. ASSUME ~Awake(c)
        PROVE  queue'[c] = <<>> /\ held'[c] = <<>>
    <3>1. Puts(c, ch) = 0
      BY <2>2, PutsWhatIsDue DEF DeliveryInv
    <3> QED
      BY <1>1, <2>2, <3>1 DEF Broadcast, DeliveryInv, Delivered
  <2> QED
    BY <2>1, <2>2
<1>4. ASSUME NEW c \in Consumer, c \notin full', Awake(c)
      PROVE  owed'[c] \in Seq(Told) /\ Concat(held'[c], queue'[c]) = owed'[c]
  <2> DEFINE n == Puts(c, ch)
             q == queue[c]
             h == held[c]
  <2>1. /\ q \in Seq(Told) /\ h \in Seq(Told) /\ owed[c] \in Seq(Told)
        /\ c \notin full /\ Concat(h, q) = owed[c]
    BY <1>4, NothingMissedIs DEF HubOK, DeliveryInv, Delivered, Broadcast
  <2>2. n = Due(c, ch) /\ n \in {0, 1, 2}
    BY <1>4, PutsWhatIsDue DEF DeliveryInv, Puts
  <2>3. c \in UNION {subscribers[d] : d \in Channel}
    BY <1>4 DEF DeliveryInv, Listed
  <2>4. ~(Len(q) + n > MaxQueue)
    BY <1>4, <2>3 DEF Broadcast
  <2>5. owed'[c] = Concat(owed[c], Times(n, e))
    BY <1>4, <2>2 DEF Broadcast, Awake, Concat
  <2>6. queue'[c] = CASE n = 0 -> q [] n = 1 -> Put(q, e) [] OTHER -> Put(Put(q, e), e)
    BY DEF Broadcast
  <2>7. held'[c] = h
    BY <1>1
  <2> HIDE DEF n, q, h
  <2>8. CASE n = 0
    <3>1. Concat(owed[c], Times(0, e)) = owed[c]
      BY <2>1, ConcatTimes
    <3> QED
      BY <2>1, <2>5, <2>6, <2>7, <2>8, <3>1
  <2>9. CASE n = 1
    <3>1. queue'[c] = Append(q, e)
      BY <2>1, <2>4, <2>6, <2>9, QueueAssumption DEF Put
    <3>2. Concat(h, Append(q, e)) = Append(Concat(h, q), e)
      BY <2>1, ConcatAppend
    <3>3. owed'[c] = Append(owed[c], e)
      BY <2>1, <2>5, <2>9, ConcatTimes
    <3>4. Append(owed[c], e) \in Seq(Told)
      BY <2>1
    <3> QED
      BY <2>1, <2>7, <3>1, <3>2, <3>3, <3>4
  <2>10. CASE n = 2
    <3>1. Put(q, e) = Append(q, e)
      BY <2>1, <2>4, <2>10, QueueAssumption DEF Put
    <3>2. Append(q, e) \in Seq(Told) /\ Len(Append(q, e)) = Len(q) + 1
      BY <2>1
    <3>3. queue'[c] = Append(Append(q, e), e)
      BY <2>1, <2>4, <2>6, <2>10, <3>1, <3>2, QueueAssumption DEF Put
    <3>4. Concat(h, Append(q, e)) = Append(Concat(h, q), e)
      BY <2>1, ConcatAppend
    <3>5. Concat(h, Append(Append(q, e), e)) = Append(Concat(h, Append(q, e)), e)
      BY <2>1, <3>2, ConcatAppend
    <3>6. owed'[c] = Append(Append(owed[c], e), e)
      BY <2>1, <2>5, <2>10, ConcatTimes
    <3> QED
      BY <2>1, <2>7, <3>3, <3>4, <3>5, <3>6
  <2> QED
    BY <2>2, <2>8, <2>9, <2>10
<1>5. Delivered'
  <2>1. \A c \in Consumer : Awake(c)' <=> Awake(c)
    BY <1>1 DEF Awake
  <2>2. owed' \in [Consumer -> Seq(Told)]
    <3>1. owed' = [c \in Consumer |-> owed'[c]]
      BY DEF Broadcast
    <3>2. \A c \in Consumer : owed'[c] \in Seq(Told)
      BY <1>3, <1>4, EmptyConcat
    <3> QED
      BY <3>1, <3>2
  <2>3. full' \subseteq Consumer
    BY DEF Broadcast, DeliveryInv, Delivered
  <2>4. NothingMissed'
    <3>1. ASSUME NEW c \in Consumer, c \notin full'
          PROVE  Concat(held'[c], queue'[c]) = owed'[c]
      <4>1. CASE ~Awake(c)
        BY <1>3, <4>1, EmptyConcat
      <4> QED
        BY <1>4, <3>1, <4>1
    <3> QED
      BY <3>1, NothingMissedNext
  <2> QED
    BY <1>3, <2>1, <2>2, <2>3, <2>4 DEF Delivered
<1> QED
  BY <1>2, <1>5 DEF DeliveryInv

LEMMA DeliveryInit == Init => DeliveryInv
<1> SUFFICES ASSUME Init
             PROVE  DeliveryInv
  OBVIOUS
<1>1. HubInit
  BY DEF Init
<1>2. \A c \in Consumer : ~Awake(c) /\ channel[c] = "none" /\ held[c] = <<>> /\ queue[c] = <<>>
                         /\ owed[c] = <<>>
  BY <1>1 DEF HubInit, Awake
<1>3. Listed
  BY <1>1, <1>2 DEF HubInit, Listed
<1>4. <<>> \in Seq(Told) /\ Concat(<<>>, <<>>) = <<>>
  BY EmptyConcat
<1>5. owed \in [Consumer -> Seq(Told)] /\ full \subseteq Consumer
  BY <1>1, <1>4 DEF HubInit
<1>6. NothingMissed
  BY <1>2, <1>4, NothingMissedIs
<1> QED
  BY <1>2, <1>3, <1>5, <1>6 DEF DeliveryInv, Delivered

\* A step of one consumer's generator moves only that consumer.
Others(c) ==
  \A d \in Consumer \ {c} : /\ queue'[d] = queue[d] /\ held'[d] = held[d]
                            /\ owed'[d] = owed[d] /\ gen'[d] = gen[d]
                            /\ channel'[d] = channel[d]
                            /\ \A ch \in Channel : d \in subscribers'[ch] <=> d \in subscribers[ch]

LEMMA OneConsumer ==
  ASSUME DeliveryInv, NEW c \in Consumer, Others(c), UNCHANGED full,
         subscribers' \in [Channel -> SUBSET Consumer],
         channel' \in [Consumer -> Channel \cup {"none"}],
         owed' \in [Consumer -> Seq(Told)],
         Awake(c)' => channel'[c] \in Channel,
         \A ch \in Channel : c \in subscribers'[ch] <=> Awake(c)' /\ channel'[c] = ch,
         ~Awake(c)' => queue'[c] = <<>> /\ held'[c] = <<>> /\ owed'[c] = <<>>,
         c \notin full => Concat(held'[c], queue'[c]) = owed'[c]
  PROVE  DeliveryInv'
<1>1. \A d \in Consumer \ {c} : Awake(d)' <=> Awake(d)
  BY DEF Others, Awake
<1>2. Listed'
  <2>1. ASSUME NEW d \in Consumer, d # c
        PROVE  /\ Awake(d)' => channel'[d] \in Channel
               /\ \A ch \in Channel : d \in subscribers'[ch] <=> Awake(d)' /\ channel'[d] = ch
    BY <1>1, <2>1 DEF Others, DeliveryInv, Listed
  <2> QED
    BY <2>1 DEF Listed
<1>3. \A d \in Consumer : d \notin full => Concat(held'[d], queue'[d]) = owed'[d]
  <2>1. ASSUME NEW d \in Consumer, d # c, d \notin full
        PROVE  Concat(held'[d], queue'[d]) = owed'[d]
    <3>1. Concat(held[d], queue[d]) = owed[d]
      BY <2>1, NothingMissedIs DEF DeliveryInv, Delivered
    <3>2. held'[d] = held[d] /\ queue'[d] = queue[d] /\ owed'[d] = owed[d]
      BY <2>1 DEF Others
    <3> QED
      BY <3>1, <3>2
  <2> QED
    BY <2>1
<1>4. NothingMissed'
  BY <1>3, NothingMissedNext
<1>5. \A d \in Consumer : ~Awake(d)' => queue'[d] = <<>> /\ held'[d] = <<>> /\ owed'[d] = <<>>
  <2>1. ASSUME NEW d \in Consumer, d # c, ~Awake(d)'
        PROVE  queue'[d] = <<>> /\ held'[d] = <<>> /\ owed'[d] = <<>>
    BY <1>1, <2>1 DEF Others, DeliveryInv, Delivered
  <2> QED
    BY <2>1
<1>6. full' \subseteq Consumer
  BY DEF DeliveryInv, Delivered
<1> QED
  BY <1>2, <1>4, <1>5, <1>6 DEF DeliveryInv, Delivered

LEMMA HubDelivers ==
  ASSUME HubOK, DeliveryInv, HubNext
  PROVE  DeliveryInv'
<1>1. PICK c \in Consumer :
        \/ \E ch \in Channel : Subscribe(c, ch)
        \/ Begin(c) \/ Get(c) \/ Leaves(c) \/ Sent(c) \/ ClientLeaves(c)
  BY DEF HubNext, Serves
<1>2. /\ gen \in [Consumer -> {"none", "made", "getting", "sending", "done"}]
      /\ queue \in [Consumer -> Seq(Told)] /\ held \in [Consumer -> Seq(Told)]
      /\ Len(held[c]) = IF gen[c] = "sending" THEN 1 ELSE 0
      /\ queue[c] \in Seq(Told) /\ held[c] \in Seq(Told)
  BY DEF HubOK
<1>3. /\ subscribers \in [Channel -> SUBSET Consumer]
      /\ channel \in [Consumer -> Channel \cup {"none"}]
      /\ owed \in [Consumer -> Seq(Told)] /\ owed[c] \in Seq(Told)
      /\ Awake(c) => channel[c] \in Channel
      /\ \A ch \in Channel : c \in subscribers[ch] <=> Awake(c) /\ channel[c] = ch
      /\ ~Awake(c) => queue[c] = <<>> /\ held[c] = <<>> /\ owed[c] = <<>>
  BY DEF DeliveryInv, Listed, Delivered
<1>4. c \notin full => Concat(held[c], queue[c]) = owed[c]
  BY NothingMissedIs DEF DeliveryInv, Delivered
<1>5. CASE \E ch \in Channel : Subscribe(c, ch)
  <2>1. PICK ch \in Channel : Subscribe(c, ch)
    BY <1>5
  <2>2. /\ gen' = [gen EXCEPT ![c] = "made"] /\ channel' = [channel EXCEPT ![c] = ch]
        /\ subscribers' = [subscribers EXCEPT ![ch] = @ \cup {c}]
        /\ UNCHANGED <<queue, held, owed, full>>
    BY <2>1 DEF Subscribe
  <2>3. ~Awake(c) /\ Awake(c)' /\ channel'[c] = ch
    BY <1>2, <1>3, <2>1, <2>2 DEF Subscribe, Awake
  <2>4. /\ subscribers' \in [Channel -> SUBSET Consumer]
        /\ channel' \in [Consumer -> Channel \cup {"none"}]
    BY <1>3, <2>2
  <2>5. \A d \in Channel : c \in subscribers'[d] <=> d = ch
    BY <1>3, <2>2, <2>3
  <2>6. Others(c)
    BY <1>2, <1>3, <2>2 DEF Others
  <2> QED
    BY <1>3, <1>4, <2>2, <2>3, <2>4, <2>5, <2>6, OneConsumer
<1>6. CASE Begin(c)
  <2>1. gen' = [gen EXCEPT ![c] = "getting"] /\ UNCHANGED <<queue, held, owed, full, channel, subscribers>>
    BY <1>6 DEF Begin
  <2>2. Awake(c) /\ Awake(c)'
    BY <1>2, <1>6, <2>1 DEF Begin, Awake
  <2>3. Others(c)
    BY <1>2, <2>1 DEF Others
  <2> QED
    BY <1>3, <1>4, <2>1, <2>2, <2>3, OneConsumer
<1>7. CASE Get(c)
  <2>1. /\ queue[c] # <<>> /\ gen' = [gen EXCEPT ![c] = "sending"]
        /\ held' = [held EXCEPT ![c] = <<Head(queue[c])>>]
        /\ queue' = [queue EXCEPT ![c] = Tail(@)]
        /\ UNCHANGED <<owed, full, channel, subscribers>>
    BY <1>7 DEF Get
  <2>2. Awake(c) /\ Awake(c)' /\ held[c] = <<>>
    BY <1>2, <1>7, <2>1 DEF Get, Awake
  <2>3. Others(c)
    BY <1>2, <2>1 DEF Others
  <2>4. Concat(held'[c], queue'[c]) = Concat(held[c], queue[c])
    <3>1. Concat(<<Head(queue[c])>>, Tail(queue[c])) = queue[c]
      BY <1>2, <2>1, ConcatHead
    <3>2. Concat(<<>>, queue[c]) = queue[c]
      BY <1>2, ConcatEmpty
    <3>3. held'[c] = <<Head(queue[c])>> /\ queue'[c] = Tail(queue[c])
      BY <1>2, <2>1
    <3> QED
      BY <2>2, <3>1, <3>2, <3>3
  <2> QED
    BY <1>3, <1>4, <2>1, <2>2, <2>3, <2>4, OneConsumer
<1>8. CASE Leaves(c)
  <2>1. /\ gen' = [gen EXCEPT ![c] = "done"]
        /\ subscribers' = [ch \in Channel |-> subscribers[ch] \ {c}]
        /\ queue' = [queue EXCEPT ![c] = <<>>] /\ held' = [held EXCEPT ![c] = <<>>]
        /\ owed' = [owed EXCEPT ![c] = <<>>] /\ UNCHANGED <<full, channel>>
    BY <1>8 DEF Leaves, Unsubscribed
  <2>2. ~Awake(c)'
    BY <1>2, <2>1 DEF Awake
  <2>3. queue'[c] = <<>> /\ held'[c] = <<>> /\ owed'[c] = <<>>
    BY <1>2, <1>3, <2>1
  <2>4. /\ subscribers' \in [Channel -> SUBSET Consumer] /\ owed' \in [Consumer -> Seq(Told)]
        /\ \A ch \in Channel : c \notin subscribers'[ch]
    BY <1>3, <2>1, EmptyConcat
  <2>5. Others(c)
    BY <1>2, <1>3, <2>1 DEF Others
  <2>6. Concat(held'[c], queue'[c]) = owed'[c]
    BY <2>3, EmptyConcat
  <2> QED
    BY <1>3, <2>1, <2>2, <2>3, <2>4, <2>5, <2>6, OneConsumer
<1>9. CASE Sent(c)
  <2>1. /\ gen[c] = "sending" /\ gen' = [gen EXCEPT ![c] = "getting"]
        /\ held' = [held EXCEPT ![c] = <<>>]
        /\ owed' = [owed EXCEPT ![c] = IF @ = <<>> THEN @ ELSE Tail(@)]
        /\ UNCHANGED <<queue, full, channel, subscribers>>
    BY <1>9 DEF Sent
  <2>2. Awake(c) /\ Awake(c)'
    BY <1>2, <2>1 DEF Awake
  <2>3. /\ held'[c] = <<>> /\ queue'[c] = queue[c]
        /\ owed'[c] = IF owed[c] = <<>> THEN owed[c] ELSE Tail(owed[c])
    BY <1>2, <1>3, <2>1
  <2>4. owed'[c] \in Seq(Told)
    BY <1>3, <2>3
  <2>5. owed' \in [Consumer -> Seq(Told)]
    BY <1>3, <2>1, <2>3, <2>4
  <2>6. Others(c)
    BY <1>2, <1>3, <2>1 DEF Others
  <2>7. ASSUME c \notin full
        PROVE  Concat(held'[c], queue'[c]) = owed'[c]
    <3>1. PICK h \in Told : held[c] = <<h>>
      <4>1. Len(held[c]) = 1
        BY <1>2, <2>1
      <4>2. held[c][1] \in Told /\ held[c] = <<held[c][1]>>
        BY <1>2, <4>1, OneElement
      <4> QED
        BY <4>2
    <3>2. Concat(<<h>>, queue[c]) = owed[c]
      BY <1>4, <2>7, <3>1
    <3>3. owed[c] # <<>> /\ Tail(owed[c]) = queue[c]
      BY <1>2, <3>2, ConcatHead
    <3>4. Concat(<<>>, queue[c]) = queue[c]
      BY <1>2, ConcatEmpty
    <3> QED
      BY <2>3, <3>3, <3>4
  <2> QED
    BY <1>3, <2>1, <2>2, <2>5, <2>6, <2>7, OneConsumer
<1>10. CASE ClientLeaves(c)
  <2>1. UNCHANGED <<gen, queue, held, owed, full, channel, subscribers>>
    BY <1>10 DEF ClientLeaves
  <2>2. Others(c)
    BY <2>1 DEF Others
  <2>3. Awake(c)' <=> Awake(c)
    BY <2>1 DEF Awake
  <2> QED
    BY <1>3, <1>4, <2>1, <2>2, <2>3, OneConsumer
<1> QED
  BY <1>1, <1>5, <1>6, <1>7, <1>8, <1>9, <1>10

LEMMA DeliveryStep ==
  ASSUME FeedInv, FeedInv', DeliveryInv, [Next]_vars
  PROVE  DeliveryInv'
<1>1. HubOK /\ HubOK'
  BY DEF FeedInv, HubInv
<1>2. CASE UNCHANGED hubVars
  <2>1. UNCHANGED <<subscribers, channel, gen, queue, held, owed, full>>
    BY <1>2 DEF hubVars
  <2> QED
    BY <2>1 DEF DeliveryInv, Listed, Delivered, NothingMissed, Awake
<1>3. CASE HandleMcm
  <2>1. Broadcast(MySport, Snapshot(cache'))
    BY <1>3 DEF HandleMcm
  <2>2. MySport \in Channel
    BY FeedAssumption DEF Channel
  <2>3. Snapshot(cache') \in Told
    <3>1. cache' \in Runners /\ cache'.tv \in Nat /\ side' \in {"back", "lay"} /\ side' = side
      BY <1>3 DEF FeedInv, StreamInv, MarketOK, HandleMcm, marketVars
    <3>2. BestAvailable(cache', side) \in Views
      BY <3>1 DEF Views
    <3> QED
      BY <3>1, <3>2 DEF Snapshot, Told
  <2> QED
    BY <1>1, <2>1, <2>2, <2>3, BroadcastDelivers
<1>4. CASE Publish
  <2>1. Broadcast("all", Infra) /\ "all" \in Channel
    BY <1>4 DEF Publish, Channel
  <2>2. Infra \in Told
    BY DEF Infra, Told, Views
  <2> QED
    BY <1>1, <2>1, <2>2, BroadcastDelivers
<1>5. CASE HubNext
  BY <1>1, <1>5, HubDelivers
<1> QED
  BY <1>2, <1>3, <1>4, <1>5
     DEF Next, vars, BookChanges, Connect, BetfairSends, ConnectionLost

\* A consumer whose queue never was full is told everything of its channel and
\* nothing else, once and in order, an event on "all" twice: broadcast() writes
\* and the generator reads, with nothing between them but the queue.
THEOREM NothingMissedHolds == Spec => []NothingMissed
<1>1. Init => DeliveryInv
  BY DeliveryInit
<1>2. FeedInv /\ FeedInv' /\ DeliveryInv /\ [Next]_vars => DeliveryInv'
  BY DeliveryStep
<1>3. DeliveryInv => NothingMissed
  BY DEF DeliveryInv, Delivered
<1> QED
  BY <1>1, <1>2, <1>3, FeedInvariant, PTL DEF Spec

-----------------------------------------------------------------------------
(* What a consumer is shown is right.                                        *)

Offer == [price : Price, size : Nat]

\* The events that say the truth about the book.
Truths ==
  {e \in Told : /\ e.best \in Seq(Offer) /\ e.tv \in 0..tv
                /\ e.tv # 0 => ShowsBest(e.best, books[e.tv], side)}

CarriesTruth ==
  /\ fields # {}
  /\ \A c \in Consumer :
       queue[c] \in Seq(Truths) /\ Len(queue[c]) <= MaxQueue /\ held[c] \in Seq(Truths)

Within ==
  tv \in 1..MaxTv /\ Len(wire) <= MaxWire /\ gone \subseteq Consumer

LEMMA SeqOfMore ==
  ASSUME NEW S, NEW T, S \subseteq T
  PROVE  Seq(S) \subseteq Seq(T)
OBVIOUS

LEMMA ElementOfBoth ==
  ASSUME NEW S, NEW s \in Seq(S), NEW t \in Seq(S), NEW i \in DOMAIN (s \o t)
  PROVE  (s \o t)[i] \in S
OBVIOUS

\* The view of a state of the book is true of it, and made of offers.
LEMMA SnapshotIsTrue ==
  ASSUME MarketOK, fields # {}, NEW r, r.tv \in 0..tv, r = HeldAt(r.tv), Snapshot(r) \in Told
  PROVE  Snapshot(r) \in Truths
<1> DEFINE n == r.tv
           best == BestAvailable(r, side)
<1>1. Snapshot(r).tv = n /\ Snapshot(r).best = best /\ n \in 0..tv
  BY DEF Snapshot
<1>2. CASE n = 0
  <2>1. best = <<>>
    BY <1>2, NewRunnerView DEF HeldAt
  <2>2. <<>> \in Seq(Offer)
    OBVIOUS
  <2> HIDE DEF n, best
  <2>3. /\ Snapshot(r).best \in Seq(Offer) /\ Snapshot(r).tv \in 0..tv
        /\ Snapshot(r).tv = 0
    BY <1>1, <1>2, <2>1, <2>2
  <2> QED
    BY <2>3 DEF Truths
<1>3. CASE n # 0
  <2> DEFINE book == books[n]
  <2>1. book \in Books /\ r = Held(book, n, fields, side)
    BY <1>1, <1>3 DEF HeldAt, MarketOK, tv
  <2>2. DOMAIN book \subseteq Price /\ (\A p \in DOMAIN book : book[p] = 1)
    BY <2>1 DEF Books
  <2>3. DOMAIN book \subseteq Int /\ IsFiniteSet(DOMAIN book)
    <3> HIDE DEF book
    <3>1. Price \subseteq Int /\ IsFiniteSet(Price)
      BY FeedAssumption
    <3>2. DOMAIN book \subseteq Int
      BY <2>2, <3>1
    <3>3. DOMAIN book \in SUBSET Price
      BY <2>2
    <3>4. IsFiniteSet(DOMAIN book)
      BY <3>1, <3>3, FS_Subset
    <3> QED
      BY <3>2, <3>4
  <2>4. fields \in SUBSET LadderField
    BY DEF MarketOK
  <2> HIDE DEF book, best
  <2>5. ShowsRanks(BestAvailable(Held(book, n, fields, side), side), book, side)
    BY <2>3, <2>4, HeldView
  <2>6. ShowsBest(BestAvailable(Held(book, n, fields, side), side), book, side)
    BY <2>3, <2>4, HeldShowsBest
  <2>7. ShowsRanks(best, book, side) /\ ShowsBest(best, book, side)
    BY <2>1, <2>5, <2>6 DEF best
  <2>8. Offers(book) \subseteq Offer
    BY <2>2 DEF Offers, Offer
  <2>9. best \in Seq(Offer)
    <3>1. Cardinality(DOMAIN book) \in Nat
      BY <2>3, FS_CardinalityType
    <3>2. Shown(Cardinality(DOMAIN book)) \in Nat
      BY <3>1, DepthAssumption DEF Shown
    <3>3. PICK s \in Nat : best \in [1..s -> Offers(book)]
      BY <2>7, <3>2 DEF ShowsRanks
    <3>4. best \in [1..s -> Offer]
      BY <2>8, <3>3
    <3> QED
      BY <3>4
  <2> QED
    BY <1>1, <2>7, <2>9 DEF Truths, book
<1> QED
  BY <1>2, <1>3

LEMMA TruthIs ==
  ASSUME MarketOK
  PROVE  <<>> \in Seq(Truths) /\ Infra \in Truths
<1>1. Infra \in Told /\ Infra.tv = 0 /\ Infra.best = <<>>
  BY DEF Infra, Told, Views
<1>2. 0 \in 0..tv /\ <<>> \in Seq(Offer) /\ <<>> \in Seq(Truths)
  BY DEF MarketOK, tv
<1> QED
  BY <1>1, <1>2 DEF Truths

LEMMA PutKeeps ==
  ASSUME NEW T, NEW q \in Seq(T), NEW e \in T, Len(q) <= MaxQueue
  PROVE  Put(q, e) \in Seq(T) /\ Len(Put(q, e)) <= MaxQueue
BY QueueAssumption DEF Put

LEMMA BroadcastCarries ==
  ASSUME CarriesTruth, UNCHANGED <<side, fields, books>>,
         NEW ch, NEW e \in Truths, Broadcast(ch, e)
  PROVE  CarriesTruth'
<1>1. Truths' = Truths
  BY DEF Truths, tv
<1>2. UNCHANGED held
  BY DEF Broadcast
<1>3. ASSUME NEW c \in Consumer
      PROVE  queue'[c] \in Seq(Truths) /\ Len(queue'[c]) <= MaxQueue
  <2> DEFINE once == Put(queue[c], e)
             twice == Put(once, e)
  <2>1. queue'[c] \in {queue[c], once, twice}
    BY DEF Broadcast
  <2>2. queue[c] \in Seq(Truths) /\ Len(queue[c]) <= MaxQueue
    BY DEF CarriesTruth
  <2> HIDE DEF Truths
  <2>3. once \in Seq(Truths) /\ Len(once) <= MaxQueue
    BY <2>2, PutKeeps
  <2> HIDE DEF once
  <2>4. twice \in Seq(Truths) /\ Len(twice) <= MaxQueue
    BY <2>3, PutKeeps
  <2> HIDE DEF twice
  <2> QED
    BY <2>1, <2>2, <2>3, <2>4
<1> QED
  BY <1>1, <1>2, <1>3 DEF CarriesTruth

\* A generator only moves an event on, or drops what it has.
LEMMA HubCarries ==
  ASSUME HubOK, CarriesTruth, UNCHANGED <<side, fields, books>>, HubNext
  PROVE  CarriesTruth'
<1>1. Truths' = Truths
  BY DEF Truths, tv
<1>2. PICK c \in Consumer :
        \/ \E ch \in Channel : Subscribe(c, ch)
        \/ Begin(c) \/ Get(c) \/ Leaves(c) \/ Sent(c) \/ ClientLeaves(c)
  BY DEF HubNext, Serves
<1>3. \A d \in Consumer :
        queue[d] \in Seq(Truths) /\ Len(queue[d]) <= MaxQueue /\ held[d] \in Seq(Truths)
  BY DEF CarriesTruth
<1>4. /\ \A d \in Consumer \ {c} : queue'[d] = queue[d] /\ held'[d] = held[d]
      /\ queue'[c] \in {queue[c], <<>>} \/ (queue[c] # <<>> /\ queue'[c] = Tail(queue[c]))
      /\ held'[c] \in {held[c], <<>>} \/ (queue[c] # <<>> /\ held'[c] = <<Head(queue[c])>>)
  BY <1>2 DEF HubOK, Subscribe, Begin, Get, Leaves, Sent, ClientLeaves
<1> HIDE DEF Truths
<1>5. /\ <<>> \in Seq(Truths) /\ Len(<<>>) <= MaxQueue
  BY QueueAssumption
<1>6. queue[c] # <<>> => /\ Tail(queue[c]) \in Seq(Truths) /\ <<Head(queue[c])>> \in Seq(Truths)
                         /\ Len(Tail(queue[c])) <= MaxQueue
  BY <1>3, QueueAssumption
<1>7. \A d \in Consumer :
        queue'[d] \in Seq(Truths) /\ Len(queue'[d]) <= MaxQueue /\ held'[d] \in Seq(Truths)
  BY <1>3, <1>4, <1>5, <1>6
<1> QED
  BY <1>1, <1>7 DEF CarriesTruth

\* A later book changes nothing about an event.
LEMMA TruthStays ==
  ASSUME MarketOK, NEW b \in Books, books' = Append(books, b), UNCHANGED side
  PROVE  Truths \subseteq Truths'
<1>1. books \in Seq(Books) /\ tv = Len(books) /\ tv \in Nat
  BY DEF MarketOK, tv
<1>2. tv' = tv + 1 /\ \A i \in 1..tv : books'[i] = books[i]
  BY <1>1 DEF tv
<1>3. ASSUME NEW e \in Truths
      PROVE  e \in Truths'
  <2>1. /\ e \in Told /\ e.best \in Seq(Offer) /\ e.tv \in 0..tv
        /\ e.tv # 0 => ShowsBest(e.best, books[e.tv], side)
    BY <1>3 DEF Truths
  <2>2. e.tv \in 0..tv' /\ (e.tv # 0 => books'[e.tv] = books[e.tv])
    BY <1>1, <1>2, <2>1
  <2> QED
    BY <2>1, <2>2 DEF Truths
<1> QED
  BY <1>3

LEMMA NextBooks ==
  ASSUME NEW b \in Books, NEW p \in Price
  PROVE  /\ [q \in DOMAIN b \ {p} |-> b[q]] \in Books
         /\ [q \in DOMAIN b \cup {p} |-> 1] \in Books
<1>1. PICK S \in SUBSET Price : b \in [S -> {1}]
  BY DEF Books
<1>2. S \ {p} \in SUBSET Price /\ S \cup {p} \in SUBSET Price /\ DOMAIN b = S
  BY <1>1
<1>3. /\ [q \in DOMAIN b \ {p} |-> b[q]] \in [S \ {p} -> {1}]
      /\ [q \in DOMAIN b \cup {p} |-> 1] \in [S \cup {p} -> {1}]
  BY <1>1, <1>2
<1> QED
  BY <1>2, <1>3 DEF Books

LEMMA TruthInit == Init => CarriesTruth /\ Within
<1> SUFFICES ASSUME Init
             PROVE  CarriesTruth /\ Within
  OBVIOUS
<1>1. MarketOK
  BY StreamInit DEF StreamInv
<1>2. /\ fields # {} /\ wire = <<>> /\ gone = {}
      /\ \A c \in Consumer : queue[c] = <<>> /\ held[c] = <<>>
  BY DEF Init, HubInit
<1>3. tv = 1
  <2>1. \E b \in Books : books = <<b>>
    BY DEF Init
  <2> QED
    BY <2>1 DEF tv
<1>4. CarriesTruth
  <2>1. <<>> \in Seq(Truths) /\ Len(<<>>) <= MaxQueue
    BY <1>1, TruthIs, QueueAssumption
  <2> QED
    BY <1>2, <2>1 DEF CarriesTruth
<1>5. Within
  <2>1. MaxTv \in Nat \ {0} /\ MaxWire \in Nat
    BY FeedAssumption
  <2> QED
    BY <1>2, <1>3, <2>1 DEF Within
<1> QED
  BY <1>4, <1>5

LEMMA TruthStep ==
  ASSUME FeedInv, FeedInv', CarriesTruth, [Next]_vars
  PROVE  CarriesTruth'
<1>1. MarketOK /\ MarketOK' /\ LaddersAgree' /\ HubOK /\ fields # {}
  BY DEF FeedInv, StreamInv, HubInv, CarriesTruth
<1>2. ASSUME UNCHANGED <<side, fields, books, queue, held>>
      PROVE  CarriesTruth'
  <2>1. Truths' = Truths
    BY <1>2 DEF Truths, tv
  <2> QED
    BY <1>2, <2>1 DEF CarriesTruth
<1>3. CASE BookChanges
  <2>1. /\ UNCHANGED <<side, fields, queue, held>>
        /\ \E b \in Books : books' = Append(books, b)
    <3>1. PICK p \in Price :
            books' = Append(books, IF p \in DOMAIN books[tv]
                                   THEN [q \in DOMAIN books[tv] \ {p} |-> books[tv][q]]
                                   ELSE [q \in DOMAIN books[tv] \cup {p} |-> 1])
      BY <1>3 DEF BookChanges
    <3>2. books[tv] \in Books
      BY <1>1 DEF MarketOK, tv
    <3>3. /\ [q \in DOMAIN books[tv] \ {p} |-> books[tv][q]] \in Books
          /\ [q \in DOMAIN books[tv] \cup {p} |-> 1] \in Books
      BY <3>2, NextBooks
    <3>4. UNCHANGED <<side, fields, queue, held>>
      BY <1>3 DEF BookChanges, hubVars
    <3> QED
      BY <3>1, <3>3, <3>4
  <2>2. Truths \subseteq Truths'
    BY <1>1, <2>1, TruthStays
  <2>3. Seq(Truths) \subseteq Seq(Truths')
    BY <2>2, SeqOfMore
  <2> QED
    BY <2>1, <2>3 DEF CarriesTruth
<1>4. CASE Connect \/ BetfairSends \/ ConnectionLost \/ UNCHANGED vars
  BY <1>2, <1>4 DEF Connect, BetfairSends, ConnectionLost, vars, marketVars, hubVars
<1>5. CASE HandleMcm
  <2>1. UNCHANGED <<side, fields, books>> /\ Broadcast(MySport, Snapshot(cache'))
    BY <1>5 DEF HandleMcm, marketVars
  <2>2. cache' = HeldAt(cache'.tv) /\ cache'.tv \in 0..tv
    BY <1>1, <2>1, Unmoved DEF LaddersAgree, MarketOK
  <2>3. Snapshot(cache') \in Told
    <3>1. cache' \in Runners /\ cache'.tv \in Nat /\ side \in {"back", "lay"}
      BY <1>1, <2>1 DEF MarketOK, tv
    <3>2. BestAvailable(cache', side) \in Views
      BY <3>1 DEF Views
    <3> QED
      BY <3>1, <3>2 DEF Snapshot, Told
  <2>4. Snapshot(cache') \in Truths
    BY <1>1, <2>2, <2>3, SnapshotIsTrue
  <2> QED
    BY <2>1, <2>4, BroadcastCarries
<1>6. CASE Publish
  <2>1. UNCHANGED <<side, fields, books>> /\ Broadcast("all", Infra)
    BY <1>6 DEF Publish, marketVars
  <2> QED
    BY <1>1, <2>1, TruthIs, BroadcastCarries
<1>7. CASE HubNext /\ UNCHANGED <<marketVars, streamVars, cache>>
  <2>1. UNCHANGED <<side, fields, books>>
    BY <1>7 DEF marketVars
  <2> QED
    BY <1>1, <1>7, <2>1, HubCarries
<1> QED
  BY <1>3, <1>4, <1>5, <1>6, <1>7 DEF Next

LEMMA WithinStep ==
  ASSUME FeedInv, FeedInv', Within, [Next]_vars
  PROVE  Within'
<1>1. /\ books \in Seq(Books) /\ tv = Len(books) /\ tv \in 1..MaxTv
      /\ wire \in Seq(Messages) /\ Len(wire) <= MaxWire /\ gone \subseteq Consumer
      /\ MaxTv \in Nat /\ MaxWire \in Nat /\ MaxWire >= 1
  BY FeedAssumption DEF FeedInv, StreamInv, MarketOK, Within, tv
<1>2. tv' \in 1..MaxTv
  <2>1. CASE BookChanges
    <3>1. tv < MaxTv /\ \E b : books' = Append(books, b)
      BY <2>1 DEF BookChanges
    <3>2. Len(books') = Len(books) + 1
      BY <1>1, <3>1
    <3> QED
      BY <1>1, <3>1, <3>2 DEF tv
  <2>2. CASE UNCHANGED books
    BY <1>1, <2>2 DEF tv
  <2> QED
    BY <2>1, <2>2
       DEF Next, vars, marketVars, Connect, BetfairSends, ConnectionLost, HandleMcm, Publish
<1>3. Len(wire') <= MaxWire
  <2>1. CASE Connect
    <3>1. \E mc : wire' = <<mc>>
      BY <2>1 DEF Connect
    <3> QED
      BY <1>1, <3>1
  <2>2. CASE BetfairSends
    <3>1. Len(wire) < MaxWire /\ \E mc : wire' = Append(wire, mc)
      BY <2>2 DEF BetfairSends
    <3> QED
      BY <1>1, <3>1
  <2>3. CASE ConnectionLost
    BY <1>1, <2>3 DEF ConnectionLost
  <2>4. CASE HandleMcm
    BY <1>1, <2>4 DEF HandleMcm
  <2>5. CASE UNCHANGED wire
    BY <1>1, <2>5
  <2> QED
    BY <2>1, <2>2, <2>3, <2>4, <2>5 DEF Next, vars, streamVars, BookChanges, Publish
<1>4. gone' \subseteq Consumer
  <2>1. CASE HubNext
    <3>1. PICK c \in Consumer :
            \/ \E ch \in Channel : Subscribe(c, ch)
            \/ Begin(c) \/ Get(c) \/ Leaves(c) \/ Sent(c) \/ ClientLeaves(c)
      BY <2>1 DEF HubNext, Serves
    <3>2. gone' = gone \/ gone' = gone \cup {c}
      BY <3>1 DEF Subscribe, Begin, Get, Leaves, Sent, ClientLeaves
    <3> QED
      BY <1>1, <3>2
  <2>2. CASE UNCHANGED gone
    BY <1>1, <2>2
  <2>3. ASSUME NEW ch, NEW e, Broadcast(ch, e)
        PROVE  UNCHANGED gone
    BY <2>3 DEF Broadcast
  <2> QED
    BY <2>1, <2>2, <2>3
       DEF Next, vars, hubVars, BookChanges, Connect, BetfairSends, ConnectionLost, HandleMcm,
           Publish
<1> QED
  BY <1>2, <1>3, <1>4 DEF Within

\* The invariant of the whole feed.
WholeInv == FeedInv /\ DeliveryInv /\ CarriesTruth /\ Within

LEMMA WholeInvariant == Spec => []WholeInv
<1>1. Init => WholeInv
  BY StreamInit, HubStarts, DeliveryInit, TruthInit DEF FeedInv, WholeInv
<1>2. WholeInv /\ [Next]_vars => WholeInv'
  BY FeedStep, DeliveryStep, TruthStep, WithinStep DEF WholeInv
<1> QED
  BY <1>1, <1>2, PTL DEF Spec

LEMMA WholeTyped == WholeInv => TypeOK
<1> SUFFICES ASSUME WholeInv
             PROVE  TypeOK
  OBVIOUS
<1>1. MarketOK /\ HubOK /\ InOrder /\ Listed /\ Delivered /\ CarriesTruth /\ Within
  BY DEF WholeInv, FeedInv, StreamInv, HubInv, DeliveryInv
<1>2. /\ side \in {"back", "lay"} /\ fields \subseteq LadderField
      /\ books \in Seq(Books) /\ Len(books) \in 1..MaxTv
      /\ connected \in BOOLEAN /\ sentTv \in 0..tv /\ Len(wire) <= MaxWire
      /\ cache.tv \in 0..tv /\ tv \in 1..MaxTv /\ MaxTv \in Nat
  BY <1>1, FeedAssumption DEF MarketOK, Within, tv
<1>3. Truths \subseteq Events
  <2>1. ASSUME NEW e \in Truths
        PROVE  e \in Events
    <3>1. /\ e \in [event : {"market_change", "infra_event"}, tv : Nat, best : Views]
          /\ e.best \in Seq(Offer) /\ e.tv \in 0..MaxTv
      BY <1>2, <2>1 DEF Truths, Told
    <3>2. e = [event |-> e.event, tv |-> e.tv, best |-> e.best]
          /\ e.event \in {"market_change", "infra_event"}
      BY <3>1
    <3> QED
      BY <3>1, <3>2 DEF Events, Offer
  <2> QED
    BY <2>1
<1>4. ASSUME NEW c \in Consumer
      PROVE  /\ queue[c] \in Seq(Events) /\ Len(queue[c]) <= MaxQueue
             /\ held[c] \in Seq(Events) /\ Len(held[c]) <= 1
             /\ c \in UNION {subscribers[ch] : ch \in Channel} <=> gen[c] \notin {"none", "done"}
             /\ shown[c] \in 0..MaxTv
  <2>1. queue[c] \in Seq(Truths) /\ held[c] \in Seq(Truths) /\ Len(queue[c]) <= MaxQueue
    BY <1>1 DEF CarriesTruth
  <2>2. queue[c] \in Seq(Events) /\ held[c] \in Seq(Events)
    <3>1. Seq(Truths) \subseteq Seq(Events)
      BY <1>3, SeqOfMore
    <3> QED
      BY <2>1, <3>1
  <2>3. Len(held[c]) <= 1
    <3>1. Len(held[c]) = IF gen[c] = "sending" THEN 1 ELSE 0
      BY <1>1 DEF HubOK
    <3> QED
      BY <3>1
  <2>4. c \in UNION {subscribers[ch] : ch \in Channel} <=> gen[c] \notin {"none", "done"}
    <3>1. /\ gen[c] \notin {"none", "done"} => channel[c] \in Channel
          /\ \A ch \in Channel :
               c \in subscribers[ch] <=> gen[c] \notin {"none", "done"} /\ channel[c] = ch
      BY <1>1 DEF Listed, Awake
    <3> QED
      BY <3>1
  <2>5. shown[c] \in 0..MaxTv
    <3>1. shown[c] \in Nat /\ Floor(c) \in Nat /\ shown[c] <= Floor(c) /\ Floor(c) <= cache.tv
      BY <1>1, FloorIs DEF HubOK, InOrder
    <3> QED
      BY <1>2, <3>1
  <2> QED
    BY <2>1, <2>2, <2>3, <2>4, <2>5
<1>5. /\ subscribers \in [Channel -> SUBSET Consumer]
      /\ channel \in [Consumer -> Channel \cup {"none"}]
      /\ gen \in [Consumer -> {"none", "made", "getting", "sending", "done"}]
      /\ gone \subseteq Consumer /\ full \subseteq Consumer
  BY <1>1 DEF HubOK, Listed, Delivered, Within
<1>6. shown \in [Consumer -> 0..MaxTv]
  BY <1>1, <1>4 DEF HubOK
<1> QED
  BY <1>2, <1>4, <1>5, <1>6 DEF TypeOK

LEMMA WholeBest == WholeInv => BestIsBest
<1> SUFFICES ASSUME WholeInv, NEW c \in Consumer, NEW i \in DOMAIN (held[c] \o queue[c]),
                    (held[c] \o queue[c])[i].tv # 0
             PROVE  ShowsBest((held[c] \o queue[c])[i].best,
                              books[(held[c] \o queue[c])[i].tv], side)
  BY DEF BestIsBest
<1>1. held[c] \in Seq(Truths) /\ queue[c] \in Seq(Truths)
  BY DEF WholeInv, CarriesTruth
<1>2. (held[c] \o queue[c])[i] \in Truths
  BY <1>1, ElementOfBoth
<1> QED
  BY <1>2 DEF Truths

\* The feed keeps its types: no queue is longer than its maxsize, a generator
\* holds one event at most, and a queue is listed exactly while its generator
\* lives.
THEOREM FeedTypeCorrect == Spec => []TypeOK
<1> QED
  BY WholeInvariant, WholeTyped, PTL

\* best_available_to_back() and best_available_to_lay(), as to_dict() shows
\* them: every snapshot in a queue or on its way to a client has the best
\* offers of the state of the book it is about, best first.
THEOREM BestIsBestHolds == Spec => []BestIsBest
<1> QED
  BY WholeInvariant, WholeBest, PTL
=============================================================================
